\* Three full batches of twelve handed to one print queue; a unit is 90 s, what such a batch may take.
SPECIFICATION Spec
CONSTANTS
  t1 = t1
  t2 = t2
  s1 = s1
  s2 = s2
  spooling = spooling
  sending = sending
  c1 = c1
  c2 = c2
  JobCount = 3
  Trains = {t1, t2}
  TrainOf <- OneTrain
  Direct = FALSE
  Sweeps = {}
  Agents = {spooling}
  Spooled = {spooling}
  Conns = {c1}
  NoAgent = NoAgent
  MaxJobs = 1
  Hold = 1
  Lease = 2
  MaxAge = 4
  QueueTimeout = 1
  PerTicket = 0
  MaxCopies = 2
PROPERTIES
  ReclaimedIsLost
