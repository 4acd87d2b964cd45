\* Three tickets, in batches of one or two, and two agents; one poll open at a time, answered at once.
SPECIFICATION Spec
CONSTANTS
  t1 = t1
  t2 = t2
  s1 = s1
  s2 = s2
  spooling = spooling
  sending = sending
  c1 = c1
  c2 = c2
  JobCount = 3
  Trains = {t1, t2}
  TrainOf <- EachItsOwn
  Direct = FALSE
  Sweeps = {}
  Agents = {spooling, sending}
  Spooled = {spooling}
  Conns = {c1}
  NoAgent = NoAgent
  MaxJobs = 2
  Hold = 0
  Lease = 2
  MaxAge = 1
  QueueTimeout = 1
  PerTicket = 0
  MaxCopies = 2
INVARIANTS
  InClaimOrder
PROPERTIES
  TicketSpec
