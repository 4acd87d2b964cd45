\* Two messages, one of them unreadable at first, and two syncs; one fault.
SPECIFICATION Spec
CONSTANTS
  r1 = r1
  r2 = r2
  Refs = {r1, r2}
  Payments = {r2}
  Indexed = {r1}
  RefOf <- MCRefOf
  Readable = {2}
  NoRef = NoRef
  Admin = Admin
  Syncs = {cron, push}
  Cron = cron
  PageSize = 1
  MaxMail = 2
  MaxClosings = 1
  MaxFaults = 1
INVARIANTS
  StoredOnce
  NothingSkipped
PROPERTIES
  ResolvedStays
  MailIsFiled
