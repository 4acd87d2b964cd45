---------------------------- MODULE MobileQueue ----------------------------
(***************************************************************************)
(* The rider's app: what it does to orders is shown at once, queued on the *)
(* phone, and sent when there is signal.                                   *)
(*                                                                         *)
(* mobile/src/storage.ts, mobile/src/api.ts and mobile/App.tsx for the     *)
(* phone, app/api/mobile/mutations/route.ts for the server.                *)
(*                                                                         *)
(* The stored queue is one value, read and written back in two steps.  Two *)
(* flows of the app use it at once: the rider's tap (queue it, then flush) *)
(* and the 30-second tick (flush), and nothing keeps them apart.  A batch  *)
(* is served item by item, each item a read of the order and then a        *)
(* transaction of its own.                                                 *)
(***************************************************************************)
EXTENDS Integers, Sequences, FiniteSets, OrderStatus

CONSTANTS
  Orders,
  Taps,      \* client ids, one to a tap; how many there are bounds the instance
  Kinds,     \* the kinds of mutation in use
  NoTap,
  TapFlow,   \* the flow of the rider's own taps: one at a time, by `busy`
  TickFlows  \* overlapping runs of the periodic sync

ASSUME ConstantsAssumption ==
  /\ NoTap \notin Taps
  /\ TapFlow \notin TickFlows
  /\ Kinds \subseteq {"DISPATCH_ORDER", "DELIVER_ORDER", "FAIL_ORDER", "CORRECT_ORDER"}

Flows == {TapFlow} \cup TickFlows

VARIABLES
  status,    \* the orders, on the server
  holder,    \* whose an order is: nobody's, this rider's, another's
  closed,    \* its cash is settled, its bag returned, or 30 hours have gone by
  shown,     \* the status the phone's screen shows
  tap,       \* what each tap asked for
  queue,     \* the stored queue
  flow,      \* where each flow of the app is, with its request on the server
  recorded   \* how often the server recorded each tap on an order's event log

phone == <<shown, tap, queue>>
server == <<status, holder, closed, recorded>>
vars == <<status, holder, closed, shown, tap, queue, flow, recorded>>

(* `nth`: how many taps there were before.  It is history, read by no action. *)
Untapped == [kind |-> "NONE", of |-> NoTap, from |-> "NONE", nth |-> 0]

Tapped == {t \in Taps : tap[t].kind # "NONE"}

Results == {"NONE", "APPLIED", "REFUSED", "RETRY"}

Idle ==
  [step |-> "IDLE", new |-> NoTap, snap |-> << >>, batch |-> << >>, at |-> 1,
   read |-> FALSE, result |-> [t \in Taps |-> "NONE"]]

Holds(list, t) == \E i \in 1..Len(list) : list[i] = t

(* scopeFilter for a rider at the order's outlet. *)
InScope(o) == holder[o] = "ME" \/ (holder[o] = "NOBODY" /\ status[o] = "PREPARED")

Outcomes == {"DELIVERED", "FAILED"}

Init ==
  /\ \E start \in [Orders -> {<<"PREPARED", "NOBODY">>, <<"PREPARED", "ME">>,
                              <<"DISPATCHED", "ME">>, <<"DELIVERED", "ME">>}] :
       /\ status = [o \in Orders |-> start[o][1]]
       /\ holder = [o \in Orders |-> start[o][2]]
       /\ shown = [o \in Orders |-> start[o][1]]
  /\ closed = [o \in Orders |-> FALSE]
  /\ tap = [t \in Taps |-> Untapped]
  /\ queue = << >>
  /\ flow = [f \in Flows |-> Idle]
  /\ recorded = [t \in Taps |-> 0]

Target(m) ==
  CASE m.kind = "DISPATCH_ORDER" -> "DISPATCHED"
    [] m.kind = "DELIVER_ORDER"  -> "DELIVERED"
    [] m.kind = "FAIL_ORDER"     -> "FAILED"
    [] m.kind = "CORRECT_ORDER"  -> IF m.from = "DELIVERED" THEN "FAILED" ELSE "DELIVERED"

-----------------------------------------------------------------------------
(* The rider taps what the screen offers: the screen changes at once, and    *)
(* enqueue reads the stored queue.  No second tap until this one's flush     *)
(* has come back.                                                            *)
Offered(kind, from) ==
  \/ kind = "DISPATCH_ORDER" /\ from = "PREPARED"
  \/ kind \in {"DELIVER_ORDER", "FAIL_ORDER"} /\ from = "DISPATCHED"
  \/ kind = "CORRECT_ORDER" /\ from \in Outcomes

Tap(t, o, kind) ==
  LET m == [kind |-> kind, of |-> o, from |-> shown[o], nth |-> Cardinality(Tapped)]
  IN  /\ tap[t].kind = "NONE"
      /\ flow[TapFlow].step = "IDLE"
      /\ Offered(kind, shown[o])
      /\ tap' = [tap EXCEPT ![t] = m]
      /\ shown' = [shown EXCEPT ![o] = Target(m)]
      /\ flow' = [flow EXCEPT ![TapFlow] = [Idle EXCEPT !.step = "ENQUEUE", !.new = t, !.snap = queue]]
      /\ UNCHANGED <<server, queue>>

(* Mutant: the newest tap is put in front. *)
Enqueue_InFront ==
  LET w == flow[TapFlow]
  IN  /\ w.step = "ENQUEUE"
      /\ queue' = <<w.new>> \o w.snap
      /\ flow' = [flow EXCEPT ![TapFlow] = [Idle EXCEPT !.step = "FLUSH"]]
      /\ UNCHANGED <<server, shown, tap>>

Enqueue ==
  LET w == flow[TapFlow]
  IN  /\ w.step = "ENQUEUE"
      /\ queue' = Append(w.snap, w.new)
      /\ flow' = [flow EXCEPT ![TapFlow] = [Idle EXCEPT !.step = "FLUSH"]]
      /\ UNCHANGED <<server, shown, tap>>

(* flushQueue: the whole queue goes as one batch. *)
Flush(f) ==
  /\ flow[f].step = (IF f = TapFlow THEN "FLUSH" ELSE "IDLE")
  /\ flow' = [flow EXCEPT ![f] =
                IF queue = << >> THEN Idle ELSE [Idle EXCEPT !.step = "SENT", !.batch = queue]]
  /\ UNCHANGED <<server, phone>>

Served(w) == w.step = "SENT" /\ w.at > Len(w.batch)

(* No signal, or the server refuses the batch as a whole: the queue stays as it is. *)
Unreached(f) ==
  /\ flow[f].step = "SENT" /\ flow[f].at = 1 /\ ~flow[f].read
  /\ flow' = [flow EXCEPT ![f] = Idle]
  /\ UNCHANGED <<server, phone>>

LoseAnswer(f) ==
  /\ Served(flow[f])
  /\ flow' = [flow EXCEPT ![f] = Idle]
  /\ UNCHANGED <<server, phone>>

(* Mutants: whatever was answered is dropped, the retryable included; only    *)
(* what was applied is, so a refused tap is sent for ever.                    *)
Settled_Answered(w) == {t \in Taps : w.result[t] # "NONE"}

Settled_Applied(w) == {t \in Taps : w.result[t] = "APPLIED"}

Settled(w) == {t \in Taps : w.result[t] \in {"APPLIED", "REFUSED"}}

(* The answer is in: removeFromQueue reads the stored queue. *)
Answer(f) ==
  /\ Served(flow[f])
  /\ flow' = [flow EXCEPT ![f] =
                IF Settled(@) = {} THEN Idle ELSE [@ EXCEPT !.step = "REMOVE", !.snap = queue]]
  /\ UNCHANGED <<server, phone>>

(* What is left of a list, in its order: the k-th that stays is the one with *)
(* k of those that stay up to it.                                            *)
Stay(list, dropped) == {i \in 1..Len(list) : list[i] \notin dropped}

UpTo(kept, i) == Cardinality({j \in kept : j <= i})

Without(list, dropped) ==
  LET kept == Stay(list, dropped)
  IN  [k \in 1..Cardinality(kept) |-> list[CHOOSE i \in kept : UpTo(kept, i) = k]]

(* ... and writes it back without what is settled.                         *)
Remove(f) ==
  LET w == flow[f]
  IN  /\ w.step = "REMOVE"
      /\ queue' = Without(w.snap, Settled(w))
      /\ flow' = [flow EXCEPT ![f] = Idle]
      /\ UNCHANGED <<server, shown, tap>>

(* refresh: the server's list replaces what the screen shows. *)
Refresh(o) ==
  /\ InScope(o)
  /\ shown' = [shown EXCEPT ![o] = status[o]]
  /\ UNCHANGED <<server, tap, queue, flow>>

(* The app is killed and started again: only the stored queue survives. *)
Restart ==
  /\ \A f \in Flows :
       flow[f].step = "SENT" => Served(flow[f]) \/ (flow[f].at = 1 /\ ~flow[f].read)
  /\ flow' = [f \in Flows |-> Idle]
  /\ UNCHANGED <<server, phone>>

-----------------------------------------------------------------------------
(* The server. *)

Item(f) == flow[f].batch[flow[f].at]

(* What is in a batch was tapped. *)
Serving(f, t) ==
  /\ flow[f].step = "SENT" /\ ~Served(flow[f])
  /\ Item(f) = t /\ tap[t].kind # "NONE"

Answered(f, result) ==
  flow' = [flow EXCEPT ![f].result[Item(f)] = result, ![f].at = @ + 1, ![f].read = FALSE]

(* What the first read already answers: not this rider's, or done before. *)
Foreseen(m) ==
  IF ~InScope(m.of) THEN "REFUSED" ELSE IF status[m.of] = Target(m) THEN "APPLIED" ELSE "NONE"

ServeRead(f, t) ==
  /\ Serving(f, t)
  /\ ~flow[f].read
  /\ IF Foreseen(tap[t]) = "NONE"
     THEN flow' = [flow EXCEPT ![f].read = TRUE]
     ELSE Answered(f, Foreseen(tap[t]))
  /\ UNCHANGED <<server, phone>>

(* Mutant: the transaction does not look at the status again. *)
Allowed_AsRead(m) == InScope(m.of)

(* transitionOrder and correctRiderOutcome for a rider. *)
Allowed(m) ==
  /\ InScope(m.of)
  /\ IF m.kind = "CORRECT_ORDER"
     THEN status[m.of] = m.from /\ ~closed[m.of]
     ELSE IsTransitionAllowed(status[m.of], Target(m), "DELIVERY_AGENT")

ServeMove(f, t) ==
  LET m == tap[t]
  IN  /\ Serving(f, t)
      /\ flow[f].read
      /\ IF Allowed(m)
         THEN /\ status' = [status EXCEPT ![m.of] = Target(m)]
              /\ holder' = [holder EXCEPT ![m.of] = "ME"]
              /\ recorded' = [recorded EXCEPT ![t] = @ + 1]
              /\ Answered(f, "APPLIED")
         ELSE /\ Answered(f, "REFUSED")
              /\ UNCHANGED <<status, holder, recorded>>
      /\ UNCHANGED <<closed, phone>>

(* A passing database failure, at the first read of the order or in the      *)
(* transaction: the item is answered as retryable.                           *)
Falter(f, t) ==
  /\ Serving(f, t)
  /\ Answered(f, "RETRY")
  /\ UNCHANGED <<server, phone>>

(* What others do to the order: another rider takes it, the office cancels   *)
(* it or takes this rider off it, the books close on it.                     *)
OtherTakes(o) ==
  /\ status[o] = "PREPARED" /\ holder[o] = "NOBODY"
  /\ status' = [status EXCEPT ![o] = "DISPATCHED"]
  /\ holder' = [holder EXCEPT ![o] = "OTHER"]
  /\ UNCHANGED <<closed, recorded, phone, flow>>

OfficeCancels(o) ==
  /\ status[o] \in Cancellable
  /\ status' = [status EXCEPT ![o] = "CANCELLED"]
  /\ UNCHANGED <<holder, closed, recorded, phone, flow>>

CloseBooks(o) ==
  /\ status[o] \in Outcomes /\ ~closed[o]
  /\ closed' = [closed EXCEPT ![o] = TRUE]
  /\ UNCHANGED <<status, holder, recorded, phone, flow>>

-----------------------------------------------------------------------------
FlowStep(f) == Flush(f) \/ Unreached(f) \/ LoseAnswer(f) \/ Answer(f) \/ Remove(f)

Serve(f, t) == ServeRead(f, t) \/ ServeMove(f, t)

OrderStep(o) == Refresh(o) \/ OtherTakes(o) \/ OfficeCancels(o) \/ CloseBooks(o)

Next ==
  \/ \E t \in Taps, o \in Orders, kind \in Kinds : Tap(t, o, kind)
  \/ Enqueue
  \/ \E f \in Flows : FlowStep(f)
  \/ \E f \in Flows, t \in Taps : Serve(f, t) \/ Falter(f, t)
  \/ \E o \in Orders : OrderStep(o)
  \/ Restart

(* The sync ticks every 30 seconds, and code that has started goes on. *)
Fairness ==
  /\ WF_vars(Enqueue)
  /\ \A f \in Flows : WF_vars(Flush(f)) /\ WF_vars(Answer(f)) /\ WF_vars(Remove(f))
  /\ \A f \in Flows, t \in Taps : WF_vars(Serve(f, t))

Spec == Init /\ [][Next]_vars /\ Fairness

-----------------------------------------------------------------------------
(* However often a batch is sent again, and however two of them overlap, a    *)
(* pick-up, a delivery or a failure is recorded on the order at most once.    *)
DeliveryRecordedOnce ==
  \A t \in Taps : tap[t].kind # "CORRECT_ORDER" => recorded[t] <= 1

(* "A flaky reconnection cannot double-record": the same of every mutation. *)
RecordedOnce == \A t \in Taps : recorded[t] <= 1

(* A list of taps in the order they were made, each once. *)
InTapOrder(list) ==
  \A i, j \in 1..Len(list) : i < j => tap[list[i]].nth < tap[list[j]].nth

(* What is stored and what is sent is in the order the rider tapped, each    *)
(* tap once, though flushes and taps write the queue back from old reads: a  *)
(* delivery never goes out ahead of its pick-up.                             *)
SentInTapOrder == InTapOrder(queue) /\ \A f \in Flows : InTapOrder(flow[f].batch)

(* "A conflict or a permission failure will never succeed on retry": no tap  *)
(* is refused, and so dropped, for want of a pick-up that was sent with it   *)
(* and is kept to be sent again.                                             *)
RefusalIsFinal ==
  \A f \in Flows : \A i, j \in 1..Len(flow[f].batch) :
    LET t == flow[f].batch[i]
        u == flow[f].batch[j]
    IN  /\ i < j /\ tap[t].of = tap[u].of
        /\ tap[t].kind = "DISPATCH_ORDER" /\ flow[f].result[t] = "RETRY"
        /\ status[tap[t].of] = "PREPARED" /\ InScope(tap[t].of)
        => flow[f].result[u] # "REFUSED"

(* "Unsynced deliveries are the agent's work": a tap leaves the stored queue *)
(* only in the write that drops what the server answered as applied or as    *)
(* refused for good.                                                         *)
TapIsKept ==
  [][\A t \in Taps :
       Holds(queue, t) /\ ~Holds(queue', t) =>
         \E f \in Flows : flow[f].step = "REMOVE" /\ flow[f].result[t] \in {"APPLIED", "REFUSED"}]_vars

(* The answer on its way settles something, or there is more to come. *)
Decided(w) == Served(w) => Settled(w) # {}

Fault ==
  \/ \E f \in Flows : Unreached(f) \/ (LoseAnswer(f) /\ Decided(flow[f]))
  \/ \E f \in Flows, t \in Taps : Falter(f, t)
  \/ Restart /\ \E f \in Flows : flow[f].step # "IDLE" /\ Decided(flow[f])

(* No mutation wedges the queue: once requests and answers get through, and   *)
(* the database and the app stay up, whatever is stored leaves it.            *)
QueueDrains ==
  <>[][~Fault]_vars => \A t \in Taps : Holds(queue, t) ~> ~Holds(queue, t)

(* Stored, and in every copy of the queue that is about to be written back.  *)
Kept(t) ==
  /\ Holds(queue, t)
  /\ \A f \in Flows : flow[f].step \in {"ENQUEUE", "REMOVE"} => Holds(flow[f].snap, t)

(* A tap that no write-back in progress is about to lose is lost to none that *)
(* comes later: it is sent, and sent again, until the server settles it.  (A  *)
(* tap stored between the read and the write-back of another flow may be lost *)
(* unsent: see TapIsKept.)                                                    *)
KeptIsSettled ==
  <>[][~Fault]_vars =>
    \A t \in Taps : Kept(t) ~> \E f \in Flows : flow[f].result[t] \in {"APPLIED", "REFUSED"}
=============================================================================
