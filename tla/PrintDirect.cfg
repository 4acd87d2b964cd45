\* One train of three tickets on a direct station: its enqueue and two runs of the sweep.
SPECIFICATION FairSpec
CONSTANTS
  t1 = t1
  t2 = t2
  s1 = s1
  s2 = s2
  spooling = spooling
  sending = sending
  c1 = c1
  c2 = c2
  JobCount = 3
  Trains = {t1}
  TrainOf <- OneTrain
  Direct = TRUE
  Sweeps = {s1, s2}
  Agents = {}
  Spooled = {}
  Conns = {}
  NoAgent = NoAgent
  MaxJobs = 2
  Hold = 0
  Lease = 2
  MaxAge = 1
  QueueTimeout = 1
  PerTicket = 0
  MaxCopies = 2
INVARIANTS
  TrainInOrder
PROPERTIES
  TicketSpec
  EveryTicketEnds
