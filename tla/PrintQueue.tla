----------------------------- MODULE PrintQueue -----------------------------
(***************************************************************************)
(* One station's kitchen tickets, from the PrintJob document to the paper: *)
(* lib/printer/queue.ts, the poll and ack routes, the retry cron and the   *)
(* agent in the kitchen (agent/print-agent.mjs).                           *)
(*                                                                         *)
(* A job is one ticket.  Jobs are numbered in createdAt order, ties broken *)
(* by _id, which is the order every query takes them in.  Each await of    *)
(* the code that reads or writes the queue is a step of its own.           *)
(*                                                                         *)
(* Time is kept as ages, each of which stops growing once it is past       *)
(* everything it is compared with, so the clock itself is not bounded.     *)
(***************************************************************************)
EXTENDS Naturals, FiniteSets, SequencesExt

CONSTANTS
  JobCount,      \* tickets
  Trains,        \* enqueue requests
  TrainOf,       \* the request that creates each job
  Direct,        \* BOOLEAN: the station has a directPrinterHost
  Sweeps,        \* runs of the retry cron that may overlap
  Agents,        \* print agents holding the station's token
  Spooled,       \* those of them printing through PRINTER_QUEUE; the others use PRINTER_HOST
  Conns,         \* poll requests the server may have open at once
  NoAgent,
  MaxJobs,       \* MAX_JOBS: most jobs one poll hands out
  Hold,          \* MAX_WAIT_MS
  Lease,         \* PRINT_JOB_CLAIM_LEASE_MS
  MaxAge,        \* PRINT_JOB_MAX_AGE_MS
  QueueTimeout,  \* QUEUE_TIMEOUT_MS
  PerTicket,     \* PER_TICKET_MS
  MaxCopies      \* bound: copies of a ticket counted

Jobs == 1..JobCount

(* The last conjunct is the sum the comment on PRINT_JOB_CLAIM_LEASE_MS does. *)
ASSUME PrintAssumption ==
  /\ JobCount \in Nat
  /\ TrainOf \in [Jobs -> Trains]
  /\ Trains \cap Sweeps = {}
  /\ Direct \in BOOLEAN
  /\ Spooled \subseteq Agents
  /\ NoAgent \notin Agents
  /\ {MaxJobs, Hold, Lease, MaxAge, QueueTimeout, PerTicket, MaxCopies} \subseteq Nat
  /\ MaxJobs > 0 /\ MaxCopies > 0
  /\ QueueTimeout + MaxJobs * PerTicket < Lease

VARIABLES
  job,    \* the PrintJob documents, with what happened to the paper
  conn,   \* the poll handlers
  spool,  \* what each agent has been handed and has not settled, oldest batch first
  stall,  \* how long each agent's oldest batch has gone without progress
  acks,   \* ack requests on their way to the server
  sends   \* the direct deliveries of each enqueue and each sweep

vars == <<job, conn, spool, stall, acks, sends>>

Deliverers == Trains \cup Sweeps

AgeCap == MaxAge + Hold + 1

PrintJob ==
  [status   : {"none", "pending", "claimed", "done", "failed"},
   age      : 0..AgeCap,      \* since createdAt
   held     : 0..(Lease + 1), \* since claimedAt
   copies   : 0..MaxCopies,   \* tickets that came out of the printer
   dropped  : BOOLEAN,        \* a computer's print queue dropped it unprinted
   requeued : 0..MaxCopies]   \* times its lease ran out

NoConn == [by |-> NoAgent, phase |-> "free", got |-> {}, waited |-> 0, heard |-> FALSE]

Idle == [todo |-> {}, sending |-> FALSE]

With(st) == {j \in Jobs : job[j].status = st}

(* Mutant: the newest ticket first, as a query with no sort may give it. *)
Oldest_Newest(S) == CHOOSE j \in S : \A i \in S : j >= i

Oldest(S) == CHOOSE j \in S : \A i \in S : j <= i

Capped(n, cap) == IF n > cap THEN cap ELSE n

(* A ticket comes out of the printer. *)
Printed(d) == [d EXCEPT !.copies = Capped(@ + 1, MaxCopies)]

(* An ended job's ages are not read again. *)
Ended(d, st) == [d EXCEPT !.status = st, !.age = 0, !.held = 0]

Init ==
  /\ job = [j \in Jobs |-> [status |-> "none", age |-> 0, held |-> 0, copies |-> 0, dropped |-> FALSE,
                         requeued |-> 0]]
  /\ conn = [c \in Conns |-> NoConn]
  /\ spool = [a \in Agents |-> << >>]
  /\ stall = [a \in Agents |-> 0]
  /\ acks = {}
  /\ sends = [d \in Deliverers |-> Idle]

-----------------------------------------------------------------------------
(* enqueueTickets: the jobs are created one by one; once a train's last job  *)
(* exists, the same request tries to deliver them if the station is direct.  *)
Enqueue(j) ==
  /\ job[j].status = "none"
  /\ \A i \in 1..(j - 1) : job[i].status # "none"
  /\ job' = [job EXCEPT ![j].status = "pending"]
  /\ LET train == {i \in Jobs : TrainOf[i] = TrainOf[j]}
     IN  IF Direct /\ \A i \in train \ {j} : job[i].status # "none"
         THEN sends' = [sends EXCEPT ![TrainOf[j]].todo = train]
         ELSE UNCHANGED sends
  /\ UNCHANGED <<conn, spool, stall, acks>>

(* Mutant: nothing gives a ticket up. *)
Expired_Never(d) == d

(* Mutant: the reason for giving up is stored as the status. *)
Expired_OwnStatus(d) ==
  IF d.status = "pending" /\ d.age > MaxAge THEN Ended(d, "expired") ELSE d

(* expireStalePrintJobs, for jobs past the cutoff. *)
Expired(d) == IF d.status = "pending" /\ d.age > MaxAge THEN Ended(d, "failed") ELSE d

(* Mutant: nothing takes back a job whose agent never acks. *)
Reclaimed_Never(d) == d

(* Mutant: every poll takes back what is claimed, the lease not yet up: two *)
(* agents, or one asking again, are handed the same ticket.                 *)
Reclaimed_NoLease(d) ==
  IF d.status = "claimed"
  THEN [d EXCEPT !.status = "pending", !.held = 0, !.requeued = Capped(@, MaxCopies)]
  ELSE d

(* reclaimAbandonedPrintJobs. *)
Reclaimed(d) ==
  IF d.status = "claimed" /\ d.held > Lease
  THEN [d EXCEPT !.status = "pending", !.held = 0, !.requeued = Capped(@ + 1, MaxCopies)]
  ELSE d

-----------------------------------------------------------------------------
(* The poll handler. *)

Listening(a) == \E c \in Conns : conn[c].by = a /\ conn[c].heard

(* The agent's loop: through the print queue it asks again while a batch     *)
(* prints; through PRINTER_HOST only once everything handed to it is done.   *)
Poll(a, c) ==
  /\ conn[c].phase = "free"
  /\ ~Listening(a)
  /\ a \in Spooled \/ spool[a] = << >>
  /\ conn' = [conn EXCEPT ![c] = [NoConn EXCEPT !.by = a, !.phase = "reclaim", !.heard = TRUE]]
  /\ UNCHANGED <<job, spool, stall, acks, sends>>

Reclaim(c) ==
  /\ conn[c].phase = "reclaim"
  /\ job' = [j \in Jobs |-> Reclaimed(job[j])]
  /\ conn' = [conn EXCEPT ![c].phase = "expire"]
  /\ UNCHANGED <<spool, stall, acks, sends>>

Expire(c) ==
  /\ conn[c].phase = "expire"
  /\ job' = [j \in Jobs |-> Expired(job[j])]
  /\ conn' = [conn EXCEPT ![c].phase = "claim", ![c].waited = 0]
  /\ UNCHANGED <<spool, stall, acks, sends>>

(* Mutant: a claim looks at the status alone. *)
Claimable_AnyAge(c) == With("pending")

(* What one claim may take: the cutoff was fixed before the wait began. *)
Claimable(c) == {j \in With("pending") : job[j].age <= MaxAge + conn[c].waited}

Claim(c) ==
  /\ conn[c].phase = "claim"
  /\ Cardinality(conn[c].got) < MaxJobs
  /\ Claimable(c) # {}
  /\ LET j == Oldest(Claimable(c))
     IN  /\ job' = [job EXCEPT ![j].status = "claimed", ![j].held = 0]
         /\ conn' = [conn EXCEPT ![c].got = @ \cup {j}]
  /\ UNCHANGED <<spool, stall, acks, sends>>

(* The answer: as soon as anything was claimed and nothing more can be, or   *)
(* empty-handed at the deadline.  It reaches the agent if that still listens; *)
(* an agent whose computer refuses the batch fails every job of it at once.  *)
Answer(c) ==
  LET got == conn[c].got
      a   == conn[c].by
  IN  /\ conn[c].phase = "claim"
      /\ Claimable(c) = {} \/ Cardinality(got) = MaxJobs
      /\ got # {} \/ conn[c].waited = Hold
      /\ conn' = [conn EXCEPT ![c] = NoConn]
      /\ IF conn[c].heard /\ got # {}
         THEN \/ /\ spool' = [spool EXCEPT ![a] = Append(@, [jobs |-> got, left |-> got])]
                 /\ stall' = [stall EXCEPT ![a] = IF spool[a] = << >> THEN 0 ELSE @]
                 /\ UNCHANGED acks
              \/ /\ a \in Spooled
                 /\ acks' = acks \cup {<<j, "failed">> : j \in got}
                 /\ UNCHANGED <<spool, stall>>
         ELSE UNCHANGED <<spool, stall, acks>>
      /\ UNCHANGED <<job, sends>>

(* The agent stops listening and no close ever reaches the server. *)
HangUp(c) ==
  /\ conn[c].heard
  /\ conn' = [conn EXCEPT ![c].heard = FALSE]
  /\ UNCHANGED <<job, spool, stall, acks, sends>>

(* The close does reach it: no further claim, and the answer goes nowhere. *)
Abort(c) ==
  /\ conn[c].phase = "claim" /\ ~conn[c].heard
  /\ conn' = [conn EXCEPT ![c] = NoConn]
  /\ UNCHANGED <<job, spool, stall, acks, sends>>

-----------------------------------------------------------------------------
(* The agent.  Through PRINTER_QUEUE a batch is one raw job of the computer's *)
(* print queue, acked when the whole of it is out.                           *)

PrintTicket(a) ==
  /\ a \in Spooled /\ spool[a] # << >> /\ spool[a][1].left # {}
  /\ LET j == Oldest(spool[a][1].left)
     IN  /\ job' = [job EXCEPT ![j] = Printed(@)]
         /\ spool' = [spool EXCEPT ![a][1].left = @ \ {j}]
  /\ UNCHANGED <<conn, stall, acks, sends>>

(* Mutant: the batch counts as printed once the queue has taken it. *)
BatchOut_OnceQueued(batch) == TRUE

BatchOut(batch) == batch.left = {}

BatchDone(a) ==
  /\ a \in Spooled /\ spool[a] # << >> /\ BatchOut(spool[a][1])
  /\ acks' = acks \cup {<<j, "done">> : j \in spool[a][1].jobs}
  /\ spool' = [spool EXCEPT ![a] = Tail(@)]
  /\ stall' = [stall EXCEPT ![a] = 0]
  /\ UNCHANGED <<job, conn, sends>>

(* The print queue drops a raw job, cancelled at the computer or aborted: it   *)
(* is no longer among those not completed, so its tickets are acked as done.   *)
Drop(a, i) ==
  /\ a \in Spooled /\ i \in 1..Len(spool[a]) /\ spool[a][i].left # {}
  /\ job' = [j \in Jobs |-> IF j \in spool[a][i].left THEN [job[j] EXCEPT !.dropped = TRUE] ELSE job[j]]
  /\ acks' = acks \cup {<<j, "done">> : j \in spool[a][i].jobs}
  /\ spool' = [spool EXCEPT ![a] = RemoveAt(@, i)]
  /\ stall' = [stall EXCEPT ![a] = 0]
  /\ UNCHANGED <<conn, sends>>

Patience(a) == QueueTimeout + Cardinality(spool[a][1].jobs) * PerTicket

(* watchQueue gives up on the head, and on everything stuck behind it. *)
GiveUp(a) ==
  /\ a \in Spooled /\ spool[a] # << >> /\ stall[a] >= Patience(a)
  /\ acks' = acks \cup {<<j, "failed">> : j \in UNION {spool[a][i].jobs : i \in 1..Len(spool[a])}}
  /\ spool' = [spool EXCEPT ![a] = << >>]
  /\ stall' = [stall EXCEPT ![a] = 0]
  /\ UNCHANGED <<job, conn, sends>>

(* Through PRINTER_HOST each ticket is a connection of its own, acked on its *)
(* own; one that fails may still have come out.                              *)
SendTicket(a) ==
  /\ a \notin Spooled /\ spool[a] # << >>
  /\ LET left == spool[a][1].left
         j    == Oldest(left)
     IN  /\ \E outcome \in {"done", "failed"}, out \in BOOLEAN :
              /\ outcome = "done" => out
              /\ job' = IF out THEN [job EXCEPT ![j] = Printed(@)] ELSE job
              /\ acks' = acks \cup {<<j, outcome>>}
         /\ spool' = [spool EXCEPT ![a] =
                        IF left = {j} THEN << >> ELSE << [@[1] EXCEPT !.left = left \ {j}] >>]
  /\ UNCHANGED <<conn, stall, sends>>

(* The agent dies: no ack will follow for what it was handed, some of which  *)
(* the computer's print queue may still print.                               *)
Crash(a) ==
  /\ spool[a] # << >> \/ Listening(a)
  /\ \E out \in SUBSET UNION {spool[a][i].left : i \in 1..Len(spool[a])} :
       job' = [j \in Jobs |-> IF j \in out THEN Printed(job[j]) ELSE job[j]]
  /\ spool' = [spool EXCEPT ![a] = << >>]
  /\ stall' = [stall EXCEPT ![a] = 0]
  /\ conn' = [c \in Conns |-> IF conn[c].by = a THEN [conn[c] EXCEPT !.heard = FALSE] ELSE conn[c]]
  /\ UNCHANGED <<acks, sends>>

(* Mutant: the ack is taken whatever has become of the job since. *)
Acked_AnyStatus(d, st) == Ended(d, st)

(* The ack route writes to a job that is still claimed, and answers 404 else. *)
Acked(d, st) == IF d.status = "claimed" THEN Ended(d, st) ELSE d

Ack(m) ==
  /\ m \in acks
  /\ job' = [job EXCEPT ![m[1]] = Acked(@, m[2])]
  /\ acks' = acks \ {m}
  /\ UNCHANGED <<conn, spool, stall, sends>>

LoseAck(m) ==
  /\ m \in acks
  /\ acks' = acks \ {m}
  /\ UNCHANGED <<job, conn, spool, stall, sends>>

-----------------------------------------------------------------------------
(* Direct delivery. *)

(* retryDirectPrintJobs: expire, then list what is pending inside the cutoff. *)
(* No time that matters passes between the two queries.                      *)
Sweep(s) ==
  /\ Direct /\ s \in Sweeps /\ sends[s] = Idle
  /\ job' = [j \in Jobs |-> Expired(job[j])]
  /\ sends' = [sends EXCEPT ![s].todo = {j \in With("pending") : job[j].age <= MaxAge}]
  /\ UNCHANGED <<conn, spool, stall, acks>>

(* tryDirectDeliver, on the oldest job left: the printer takes the ticket ... *)
Send(d) ==
  /\ sends[d].todo # {} /\ ~sends[d].sending
  /\ job' = [job EXCEPT ![Oldest(sends[d].todo)] = Printed(@)]
  /\ sends' = [sends EXCEPT ![d].sending = TRUE]
  /\ UNCHANGED <<conn, spool, stall, acks>>

(* ... and the job is marked done by its id alone. *)
MarkDone(d) ==
  /\ sends[d].sending
  /\ LET j == Oldest(sends[d].todo)
     IN  /\ job' = [job EXCEPT ![j] = Ended(@, "done")]
         /\ sends' = [sends EXCEPT ![d] = [todo |-> @.todo \ {j}, sending |-> FALSE]]
  /\ UNCHANGED <<conn, spool, stall, acks>>

(* Mutant: the failure is swallowed, and the job marked as if it had printed. *)
AfterFailure_Swallowed(d) == [sends[d] EXCEPT !.sending = TRUE]

(* Mutant: the rest of the list is still sent after a failure. *)
AfterFailure_CarryOn(d) == [todo |-> sends[d].todo \ {Oldest(sends[d].todo)}, sending |-> FALSE]

(* A failure stops an enqueue, and takes the station off a sweep. *)
AfterFailure(d) == Idle

(* The printer does not answer, before or after it took the ticket; or the   *)
(* server dies between the ticket and the mark.                              *)
SendFails(d) ==
  /\ sends[d].todo # {}
  /\ sends' = [sends EXCEPT ![d] = AfterFailure(d)]
  /\ UNCHANGED <<job, conn, spool, stall, acks>>

-----------------------------------------------------------------------------
Older(d) ==
  [d EXCEPT !.age  = IF d.status \in {"pending", "claimed"} THEN Capped(@ + 1, AgeCap) ELSE @,
            !.held = IF d.status = "claimed" THEN Capped(@ + 1, Lease + 1) ELSE @]

(* Time passes.  A handler answers by its deadline and the agent's watch on  *)
(* its print queue runs several times a second, so neither waits longer.     *)
Tick ==
  /\ \A c \in Conns : conn[c].phase = "claim" => conn[c].waited < Hold
  /\ \A a \in Spooled : spool[a] # << >> => stall[a] < Patience(a)
  /\ job' = [j \in Jobs |-> Older(job[j])]
  /\ conn' = [c \in Conns |-> IF conn[c].phase = "claim" THEN [conn[c] EXCEPT !.waited = @ + 1]
                              ELSE conn[c]]
  /\ stall' = [a \in Agents |-> IF a \in Spooled /\ spool[a] # << >> THEN stall[a] + 1 ELSE 0]
  /\ UNCHANGED <<spool, acks, sends>>

Handle(c) == Reclaim(c) \/ Expire(c) \/ Claim(c) \/ Answer(c)

Work(a) == PrintTicket(a) \/ BatchDone(a) \/ GiveUp(a) \/ SendTicket(a)

Deliver(d) == Send(d) \/ MarkDone(d) \/ SendFails(d)

Next ==
  \/ \E j \in Jobs : Enqueue(j)
  \/ \E a \in Agents, c \in Conns : Poll(a, c)
  \/ \E c \in Conns : Handle(c) \/ HangUp(c) \/ Abort(c)
  \/ \E a \in Agents : Work(a) \/ Crash(a) \/ \E i \in 1..Len(spool[a]) : Drop(a, i)
  \/ \E m \in acks : Ack(m) \/ LoseAck(m)
  \/ \E s \in Sweeps : Sweep(s)
  \/ \E d \in Deliverers : Deliver(d)
  \/ Tick

Spec == Init /\ [][Next]_vars

(* The agent's loop never ends, a handler that runs is answered, the cron    *)
(* fires again, and time passes.  Nothing is assumed of the connection, the  *)
(* acks, or the printer.                                                     *)
Fairness ==
  /\ WF_vars(Tick)
  /\ WF_vars(\E a \in Agents, c \in Conns : Poll(a, c))
  /\ \A c \in Conns : WF_vars(Handle(c))
  /\ \A a \in Agents : WF_vars(Work(a))
  /\ \A s \in Sweeps : WF_vars(Sweep(s))
  /\ \A d \in Deliverers : WF_vars(Deliver(d))

FairSpec == Spec /\ Fairness

-----------------------------------------------------------------------------
Batch == [jobs : SUBSET Jobs, left : SUBSET Jobs]

TypeOK ==
  /\ job \in [Jobs -> PrintJob]
  /\ conn \in [Conns -> [by : Agents \cup {NoAgent}, phase : {"free", "reclaim", "expire", "claim"},
                         got : SUBSET Jobs, waited : 0..Hold, heard : BOOLEAN]]
  /\ spool \in [Agents -> Seq(Batch)]
  /\ stall \in [Agents -> Nat]
  /\ acks \subseteq Jobs \X {"done", "failed"}
  /\ sends \in [Deliverers -> [todo : SUBSET Jobs, sending : BOOLEAN]]

(* A job the records call printed did come out of a printer, or a computer's *)
(* print queue dropped it, whichever path, agent or retry marked it so.      *)
DoneIsPrinted ==
  \A j \in Jobs : job[j].status = "done" => job[j].copies > 0 \/ job[j].dropped

(* "`printed` settles when it has" (the comment on sendToQueue): a job the   *)
(* records call printed came out.                                            *)
DoneMeansPaper == \A j \in Jobs : job[j].status = "done" => job[j].copies > 0

(* On the agent path a ticket comes out again only after its lease ran out:  *)
(* two agents, or two polls of one, are never handed the same claim, so each *)
(* further copy has a reclaim of its own to blame.                           *)
CopiesHaveReclaims ==
  ~Direct => \A j \in Jobs : job[j].copies <= 1 + job[j].requeued

(* The tickets are handed out oldest first: on the agent path none comes out *)
(* while an earlier one that was never handed out, and is still fresh enough *)
(* to print, waits in the queue.                                             *)
InClaimOrder ==
  ~Direct =>
    \A i, j \in Jobs :
      i < j /\ job[j].copies > 0 /\ job[i].status = "pending"
      => job[i].requeued > 0 \/ job[i].age > MaxAge

(* On the direct path a train's tickets first come out in order: none comes  *)
(* out before an earlier one of its train unless that one was given up.      *)
TrainInOrder ==
  Direct /\ Agents = {} =>
    \A i, j \in Jobs :
      i < j /\ TrainOf[i] = TrainOf[j] /\ job[j].copies > 0
      => job[i].copies > 0 \/ job[i].status = "failed"

(* A ticket marked printed stays so: no late ack, reclaim, retry or expiry   *)
(* puts it back in the queue or gives it up.  (A copy still on its way may   *)
(* yet come out: CopiesHaveReclaims.)                                        *)
DoneIsFinal == [][\A j \in Jobs : job[j].status = "done" => job'[j].status = "done"]_vars

(* No agent is handed a ticket older than the limit by more than the time a  *)
(* poll is held open: a queue nobody drained does not come out late.         *)
NeverHandedLate ==
  [][\A j \in Jobs :
       job[j].status = "pending" /\ job'[j].status = "claimed" => job[j].age <= MaxAge + Hold]_vars

(* Every ticket is settled: printed, or given up.  None stays claimed by an  *)
(* agent that slept, crashed or lost its connection, or waits for ever.      *)
EveryTicketEnds ==
  \A j \in Jobs : job[j].status = "pending" ~> job[j].status \in {"done", "failed"}

(* Where the records put a ticket. *)
PlaceOf(st) ==
  CASE st = "none"    -> "none"
    [] st = "pending" -> "waiting"
    [] st = "claimed" -> "handed"
    [] st = "done"    -> "printed"
    [] st = "failed"  -> "givenUp"

(* Somebody has it to print: a poll on its way to answer, an agent, or a     *)
(* direct delivery.                                                          *)
Due(j) ==
  \/ \E c \in Conns : j \in conn[c].got
  \/ \E a \in Agents : \E i \in 1..Len(spool[a]) : j \in spool[a][i].left
  \/ \E d \in Deliverers : j \in sends[d].todo

(* The queue implements the promise of TicketPaper: a ticket comes out, or a *)
(* computer's print queue drops it, only while somebody was handed it; what  *)
(* was given up stays so unless a direct delivery still gets it printed; and *)
(* none is called printed before it came out or was dropped.                 *)
Paper == INSTANCE TicketPaper
  WITH Tickets <- Jobs, ByHost <- Direct,
       place <- [j \in Jobs |-> PlaceOf(job[j].status)],
       due <- [j \in Jobs |-> Due(j)],
       out <- [j \in Jobs |-> job[j].copies > 0 \/ job[j].dropped]

TicketSpec == Paper!Spec

(* What the comment on PRINT_JOB_CLAIM_LEASE_MS says: a job still claimed    *)
(* after its lease went somewhere that will never ack, so what is put back   *)
(* is in no working agent's hands.                                           *)
ReclaimedIsLost ==
  [][\A j \in Jobs :
       job[j].status = "claimed" /\ job'[j].status = "pending"
       => \A a \in Agents : \A i \in 1..Len(spool[a]) : j \notin spool[a][i].left]_vars
=============================================================================
