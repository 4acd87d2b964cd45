\* One ticket, two agents, two polls open at once.
SPECIFICATION FairSpec
CONSTANTS
  t1 = t1
  t2 = t2
  s1 = s1
  s2 = s2
  spooling = spooling
  sending = sending
  c1 = c1
  c2 = c2
  JobCount = 1
  Trains = {t1, t2}
  TrainOf <- OneTrain
  Direct = FALSE
  Sweeps = {}
  Agents = {spooling, sending}
  Spooled = {spooling}
  Conns = {c1, c2}
  NoAgent = NoAgent
  MaxJobs = 1
  Hold = 1
  Lease = 2
  MaxAge = 2
  QueueTimeout = 1
  PerTicket = 0
  MaxCopies = 2
INVARIANTS
  TypeOK
  CopiesHaveReclaims
PROPERTIES
  DoneIsFinal
  NeverHandedLate
  EveryTicketEnds
