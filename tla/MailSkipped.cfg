SPECIFICATION Spec
CONSTANTS
  r1 = r1
  r2 = r2
  Refs = {r1, r2}
  Payments = {r2}
  Indexed = {r1}
  RefOf <- MCRefOf
  Readable = {2}
  NoRef = NoRef
  Admin = Admin
  Syncs = {cron, push}
  Cron = cron
  PageSize = 1
  MaxMail = 2
  MaxClosings = 1
  MaxFaults = 1
INVARIANTS
  FailureShows
