------------------------ MODULE CancelRequest_proofs ------------------------
(***************************************************************************)
(* Proofs about the cancellation requests, for any orders, users, roles    *)
(* and override targets, and any number of asks.                           *)
(*                                                                         *)
(* The inductive invariant says what an open request to the server still   *)
(* knows of the order it read: one about to be marked is of an order that  *)
(* was cancelled, and no step of the guided pipeline takes that back.      *)
(***************************************************************************)
EXTENDS CancelRequest, TLAPS

(* Cancelled, or filed away since, or off the guided pipeline altogether. *)
CancelledOrOverridden(o) ==
  overridden[o] \/ status[o] \in {"CANCELLED", "RATING_ORDER", "DELETED"}

CallSound(u) ==
  /\ call[u].step # "IDLE" => call[u].of \in Orders
  /\ call[u].step = "ASKING" => call[u].seen \in Cancellable
  /\ call[u].step = "MARKING" => CancelledOrOverridden(call[u].of)

RequestSound(o) == request[o] = "APPROVED" => CancelledOrOverridden(o)

IInv ==
  /\ TypeOK
  /\ \A u \in Users : CallSound(u)
  /\ \A o \in Orders : RequestSound(o)

LEMMA InitSound == Init => IInv
<1> SUFFICES ASSUME Init PROVE IInv
  OBVIOUS
<1>1. TypeOK
  BY ConstantsAssumption
  DEF Init, TypeOK, Call, Idle, Statuses, OrderStatuses, OpenStatuses
<1>2. \A u \in Users : CallSound(u)
  BY DEF Init, CallSound, Idle
<1>3. \A o \in Orders : RequestSound(o)
  BY DEF Init, RequestSound
<1>. QED
  BY <1>1, <1>2, <1>3 DEF IInv

-----------------------------------------------------------------------------
(* The allow-list never leaves a closed status, and cancels only what can    *)
(* be cancelled.                                                             *)
LEMMA ClosedStaysClosed ==
  ASSUME NEW from, NEW to, NEW role, IsTransitionAllowed(from, to, role)
  PROVE  /\ from \in OpenStatuses
         /\ to = "CANCELLED" => from \in Cancellable
BY DEF IsTransitionAllowed, AdminEdges, KitchenEdges, Cancellable, OpenStatuses, SupportOutcomes

LEMMA OpenIsNotClosed ==
  ASSUME NEW from \in OpenStatuses
  PROVE  from \notin {"CANCELLED", "RATING_ORDER", "DELETED", "DELIVERED", "FAILED"}
BY DEF OpenStatuses

(* What a step of anybody but the office users may do to the orders. *)
OrderMoves ==
  /\ TypeOK'
  /\ UNCHANGED <<asks, call>>
  /\ \A o \in Orders : CancelledOrOverridden(o) => CancelledOrOverridden(o)'
  /\ \A o \in Orders : request'[o] = request[o] \/ status'[o] = "DELETED"
  /\ \A o \in Orders : request'[o] = "APPROVED" => request[o] = "APPROVED"

LEMMA SetStatusMoves ==
  ASSUME TypeOK, NEW o \in Orders, NEW to \in Statuses, SetStatus(o, to),
         \/ to \in {"CANCELLED", "RATING_ORDER", "DELETED"}
         \/ status[o] \notin {"CANCELLED", "RATING_ORDER", "DELETED"}
  PROVE  OrderMoves
<1>1. TypeOK'
  BY DEF TypeOK, SetStatus
<1>2. \A p \in Orders : CancelledOrOverridden(p) => CancelledOrOverridden(p)'
  BY DEF TypeOK, SetStatus, CancelledOrOverridden
<1>. QED
  BY <1>1, <1>2 DEF OrderMoves, SetStatus

LEMMA OrderStepMoves ==
  ASSUME TypeOK, NEW o \in Orders, OrderStep(o)
  PROVE  OrderMoves
<1>1. CASE MoveOn(o)
  <2>1. PICK role \in Roles, to \in OrderStatuses :
          IsTransitionAllowed(status[o], to, role) /\ SetStatus(o, to)
    BY <1>1 DEF MoveOn
  <2>2. status[o] \notin {"CANCELLED", "RATING_ORDER", "DELETED"}
    BY <2>1, ClosedStaysClosed, OpenIsNotClosed
  <2>. QED
    BY <2>1, <2>2, SetStatusMoves DEF Statuses
<1>2. CASE FlagRatingOrder(o)
  BY <1>2, SetStatusMoves DEF FlagRatingOrder, Statuses, OrderStatuses, TerminalStatuses
<1>3. CASE Correct(o)
  BY <1>3, SetStatusMoves DEF Correct, Statuses, OrderStatuses, TerminalStatuses
<1>4. CASE Override(o)
  <2>1. TypeOK'
    BY <1>4 DEF Override, TypeOK, Statuses
  <2>2. \A p \in Orders : CancelledOrOverridden(p) => CancelledOrOverridden(p)'
    BY <1>4 DEF Override, TypeOK, CancelledOrOverridden
  <2>. QED
    BY <1>4, <2>1, <2>2 DEF Override, OrderMoves
<1>5. CASE Delete(o)
  <2>1. TypeOK'
    BY <1>5 DEF Delete, TypeOK, Statuses
  <2>2. \A p \in Orders : CancelledOrOverridden(p) => CancelledOrOverridden(p)'
    BY <1>5 DEF Delete, TypeOK, CancelledOrOverridden
  <2>. QED
    BY <1>5, <2>1, <2>2 DEF Delete, OrderMoves, TypeOK
<1>. QED
  BY <1>1, <1>2, <1>3, <1>4, <1>5 DEF OrderStep

-----------------------------------------------------------------------------
(* A step of an office user: only the cancel moves an order, and no other    *)
(* user's request to the server is disturbed.                                *)
UserMoves(u) ==
  /\ TypeOK'
  /\ UNCHANGED overridden
  /\ \A v \in Users \ {u} : call'[v] = call[v]
  /\ \A o \in Orders : CancelledOrOverridden(o) => CancelledOrOverridden(o)'
  /\ CallSound(u)'
  /\ \A o \in Orders : request'[o] = "APPROVED" /\ request[o] # "APPROVED" => CancelledOrOverridden(o)
  /\ \A o \in Orders :
       /\ asks'[o] # asks[o] => status[o] \in Cancellable
       /\ request[o] \in {"APPROVED", "REFUSED"} /\ request'[o] # request[o] =>
            request'[o] = "PENDING" /\ asks'[o] = asks[o] + 1

(* A request is opened: its order is read. *)
LEMMA ReadMoves ==
  ASSUME TypeOK, NEW u \in Users, NEW o \in Orders,
         NEW step \in {"ASKING", "CANCELLING", "REFUSING"}, Reads(u, o, step),
         step = "ASKING" => status[o] \in Cancellable
  PROVE  UserMoves(u)
<1>1. status[o] \in Statuses
  BY DEF TypeOK
<1>2. call'[u] = [step |-> step, of |-> o, seen |-> status[o]]
  BY DEF Reads, TypeOK
<1>3. TypeOK'
  BY <1>1 DEF Reads, TypeOK, Call
<1>4. CallSound(u)'
  BY <1>2 DEF CallSound
<1>. QED
  BY <1>3, <1>4 DEF UserMoves, Reads, TypeOK, CancelledOrOverridden

(* A request ends: nothing is left of it to know. *)
LEMMA EndIsSound ==
  ASSUME TypeOK, NEW u \in Users, Ends(u)
  PROVE  /\ call' \in [Users -> Call]
         /\ \A v \in Users \ {u} : call'[v] = call[v]
         /\ CallSound(u)'
<1>1. Idle \in Call
  BY DEF Idle, Call, Statuses
<1>2. call'[u] = Idle
  BY DEF Ends, TypeOK
<1>. QED
  BY <1>1, <1>2 DEF Ends, TypeOK, CallSound, Idle

LEMMA WriteAskMoves ==
  ASSUME IInv, NEW u \in Users, WriteAsk(u)
  PROVE  UserMoves(u)
<1>. DEFINE o == call[u].of
<1>1. /\ call[u].step = "ASKING" /\ Ends(u) /\ UNCHANGED <<status, overridden>>
      /\ o \in Orders /\ call[u].seen \in Cancellable
      /\ TypeOK
  BY DEF WriteAsk, IInv, CallSound
<1>2. CASE AskMatches(call[u])
  <2>1. /\ request' = [request EXCEPT ![o] = "PENDING"]
        /\ asks' = [asks EXCEPT ![o] = @ + 1]
    BY <1>2 DEF WriteAsk
  <2>2. status[o] \in Cancellable /\ request[o] # "PENDING"
    BY <1>1, <1>2 DEF AskMatches
  <2>3. TypeOK'
    BY <1>1, <2>1, EndIsSound DEF TypeOK
  <2>4. \A p \in Orders \ {o} : request'[p] = request[p] /\ asks'[p] = asks[p]
    BY <2>1 DEF TypeOK
  <2>5. request'[o] = "PENDING" /\ asks'[o] = asks[o] + 1
    BY <1>1, <2>1 DEF TypeOK
  <2>. QED
    BY <1>1, <2>2, <2>3, <2>4, <2>5, EndIsSound DEF UserMoves, CancelledOrOverridden
<1>3. CASE ~AskMatches(call[u])
  <2>1. UNCHANGED <<request, asks>>
    BY <1>3 DEF WriteAsk
  <2>. QED
    BY <1>1, <2>1, EndIsSound DEF UserMoves, TypeOK, CancelledOrOverridden
<1>. QED
  BY <1>2, <1>3

LEMMA CancelMoves ==
  ASSUME IInv, NEW u \in Users, Cancel(u)
  PROVE  UserMoves(u)
<1>. DEFINE o == call[u].of
            allowed == IsTransitionAllowed(status[o], "CANCELLED", RoleOf[u])
<1>1. /\ call[u].step = "CANCELLING" /\ o \in Orders /\ TypeOK
      /\ UNCHANGED <<request, asks, overridden>>
      /\ call' = [call EXCEPT ![u] = AfterCancel(call[u], allowed)]
      /\ status' = IF allowed THEN [status EXCEPT ![o] = "CANCELLED"] ELSE status
  BY DEF Cancel, IInv, CallSound
<1>2. CASE allowed
  <2>1. call' = [call EXCEPT ![u] = [call[u] EXCEPT !.step = "MARKING"]]
    BY <1>1, <1>2 DEF AfterCancel
  <2>2. status' = [status EXCEPT ![o] = "CANCELLED"]
    BY <1>1, <1>2
  <2>3. call[u] \in Call
    BY <1>1 DEF TypeOK
  <2>4. [call[u] EXCEPT !.step = "MARKING"] \in Call
    BY <2>3 DEF Call
  <2>5. call'[u].step = "MARKING" /\ call'[u].of = o
    BY <1>1, <2>1, <2>3 DEF TypeOK, Call
  <2>6. status'[o] = "CANCELLED" /\ (\A p \in Orders \ {o} : status'[p] = status[p])
    BY <1>1, <2>2 DEF TypeOK
  <2>7. TypeOK'
    BY <1>1, <2>1, <2>2, <2>4 DEF TypeOK, Statuses, OrderStatuses, TerminalStatuses
  <2>8. \A p \in Orders : CancelledOrOverridden(p) => CancelledOrOverridden(p)'
    BY <1>1, <2>6 DEF CancelledOrOverridden
  <2>9. CallSound(u)'
    BY <1>1, <2>5, <2>6 DEF CallSound, CancelledOrOverridden
  <2>. QED
    BY <1>1, <2>1, <2>7, <2>8, <2>9 DEF UserMoves, TypeOK
<1>3. CASE ~allowed
  <2>1. Ends(u) /\ UNCHANGED status
    BY <1>1, <1>3 DEF AfterCancel, Ends
  <2>. QED
    BY <1>1, <2>1, EndIsSound DEF UserMoves, TypeOK, CancelledOrOverridden
<1>. QED
  BY <1>2, <1>3

LEMMA MarkMoves ==
  ASSUME IInv, NEW u \in Users, Mark(u)
  PROVE  UserMoves(u)
<1>. DEFINE o == call[u].of
<1>1. /\ call[u].step = "MARKING" /\ o \in Orders /\ CancelledOrOverridden(o) /\ TypeOK
      /\ Ends(u) /\ UNCHANGED <<status, asks, overridden>>
      /\ request' = IF MarkMatches(call[u]) THEN [request EXCEPT ![o] = "APPROVED"] ELSE request
  BY DEF Mark, IInv, CallSound
<1>2. TypeOK'
  BY <1>1, EndIsSound DEF TypeOK
<1>3. \A p \in Orders : request'[p] # request[p] => p = o /\ request[p] = "PENDING"
  BY <1>1 DEF MarkMatches, TypeOK
<1>. QED
  BY <1>1, <1>2, <1>3, EndIsSound DEF UserMoves, CancelledOrOverridden

LEMMA WriteRefusalMoves ==
  ASSUME IInv, NEW u \in Users, WriteRefusal(u)
  PROVE  UserMoves(u)
<1>. DEFINE o == call[u].of
<1>1. /\ call[u].step = "REFUSING" /\ o \in Orders /\ TypeOK
      /\ Ends(u) /\ UNCHANGED <<status, asks, overridden>>
      /\ request' = IF RefusalMatches(call[u]) THEN [request EXCEPT ![o] = "REFUSED"] ELSE request
  BY DEF WriteRefusal, IInv, CallSound
<1>2. TypeOK'
  BY <1>1, EndIsSound DEF TypeOK
<1>3. \A p \in Orders :
        request'[p] # request[p] => request[p] = "PENDING" /\ request'[p] = "REFUSED"
  BY <1>1 DEF RefusalMatches, TypeOK
<1>. QED
  BY <1>1, <1>2, <1>3, EndIsSound DEF UserMoves, CancelledOrOverridden

LEMMA DieMoves ==
  ASSUME IInv, NEW u \in Users, Die(u)
  PROVE  UserMoves(u)
BY EndIsSound DEF IInv, Die, UserMoves, TypeOK, CancelledOrOverridden

LEMMA UserStepMoves ==
  ASSUME IInv, NEW u \in Users, UserStep(u)
  PROVE  UserMoves(u)
<1>. TypeOK
  BY DEF IInv
<1>1. ASSUME NEW o \in Orders, ReadToAsk(u, o) PROVE UserMoves(u)
  <2>1. status[o] \in Cancellable
    BY <1>1, ClosedStaysClosed DEF ReadToAsk, CanRequestCancellation
  <2>. QED
    BY <1>1, <2>1, ReadMoves DEF ReadToAsk
<1>2. ASSUME NEW o \in Orders, ReadToApprove(u, o) PROVE UserMoves(u)
  BY <1>2, ReadMoves DEF ReadToApprove
<1>3. ASSUME NEW o \in Orders, ReadToRefuse(u, o) PROVE UserMoves(u)
  BY <1>3, ReadMoves DEF ReadToRefuse
<1>. QED
  BY <1>1, <1>2, <1>3, WriteAskMoves, CancelMoves, MarkMoves, WriteRefusalMoves, DieMoves
  DEF UserStep

-----------------------------------------------------------------------------
LEMMA NextSound == IInv /\ [Next]_vars => IInv'
<1> SUFFICES ASSUME IInv, [Next]_vars PROVE IInv'
  OBVIOUS
<1>1. ASSUME NEW u \in Users, UserStep(u) PROVE IInv'
  <2>1. UserMoves(u)
    BY <1>1, UserStepMoves
  <2>2. ASSUME NEW v \in Users \ {u} PROVE CallSound(v)'
    BY <2>1, <2>2 DEF UserMoves, IInv, CallSound
  <2>3. ASSUME NEW o \in Orders PROVE RequestSound(o)'
    BY <2>1, <2>3 DEF UserMoves, IInv, RequestSound
  <2>. QED
    BY <2>1, <2>2, <2>3 DEF UserMoves, IInv
<1>2. ASSUME NEW o \in Orders, OrderStep(o) PROVE IInv'
  <2>1. OrderMoves
    BY <1>2, OrderStepMoves DEF IInv
  <2>2. ASSUME NEW u \in Users PROVE CallSound(u)'
    BY <2>1, <2>2 DEF OrderMoves, IInv, CallSound
  <2>3. ASSUME NEW p \in Orders PROVE RequestSound(p)'
    BY <2>1, <2>3 DEF OrderMoves, IInv, RequestSound
  <2>. QED
    BY <2>1, <2>2, <2>3 DEF OrderMoves, IInv
<1>3. CASE UNCHANGED vars
  BY <1>3 DEF vars, IInv, TypeOK, CallSound, RequestSound, CancelledOrOverridden
<1>. QED
  BY <1>1, <1>2, <1>3 DEF Next

(* The inductive invariant holds in every reachable state. *)
THEOREM AllSound == Spec => []IInv
BY InitSound, NextSound, PTL DEF Spec

(* Every reachable state has the shape of the model, whatever the office, the  *)
(* overrides and the number of asks.                                           *)
THEOREM CancelTypeCorrect == Spec => []TypeOK
<1>1. IInv => TypeOK
  BY DEF IInv
<1>. QED
  BY <1>1, AllSound, PTL

(* A request reads APPROVED only on an order that was cancelled: approving     *)
(* marks after it cancels, and nothing on the guided pipeline takes that back. *)
THEOREM ApprovedWasCancelled == Spec => []ApprovedIsCancelled
<1>1. IInv => ApprovedIsCancelled
  BY DEF IInv, RequestSound, ApprovedIsCancelled, CancelledOrOverridden
<1>. QED
  BY <1>1, AllSound, PTL

(* No desk's answer ever becomes another's: the mark and the refusal look at   *)
(* the request again as they write.                                            *)
THEOREM AnswersStand == Spec => AnswerStands
<1>. DEFINE Kept == \A o \in Orders :
                      request[o] \in {"APPROVED", "REFUSED"} /\ request'[o] # request[o] =>
                        \/ request'[o] = "PENDING" /\ asks'[o] = asks[o] + 1
                        \/ status'[o] = "DELETED"
<1>1. IInv /\ [Next]_vars => [Kept]_vars
  <2> SUFFICES ASSUME IInv, Next PROVE Kept
    OBVIOUS
  <2>1. ASSUME NEW u \in Users, UserStep(u) PROVE Kept
    BY <2>1, UserStepMoves DEF UserMoves
  <2>2. ASSUME NEW o \in Orders, OrderStep(o) PROVE Kept
    BY <2>2, OrderStepMoves DEF IInv, OrderMoves
  <2>. QED
    BY <2>1, <2>2 DEF Next
<1>. QED
  BY <1>1, AllSound, PTL DEF Spec, AnswerStands

(* An ask is recorded only while the order can be cancelled, however old the   *)
(* page and the read it rests on: the write's filter repeats the status.       *)
THEOREM AsksAreWorthAnswering == Spec => AsksWhatCanBeCancelled
<1>. DEFINE Worth == \A o \in Orders : asks'[o] # asks[o] => status[o] \in Cancellable
<1>1. IInv /\ [Next]_vars => [Worth]_vars
  <2> SUFFICES ASSUME IInv, Next PROVE Worth
    OBVIOUS
  <2>1. ASSUME NEW u \in Users, UserStep(u) PROVE Worth
    BY <2>1, UserStepMoves DEF UserMoves
  <2>2. ASSUME NEW o \in Orders, OrderStep(o) PROVE Worth
    BY <2>2, OrderStepMoves DEF IInv, OrderMoves
  <2>. QED
    BY <2>1, <2>2 DEF Next
<1>. QED
  BY <1>1, AllSound, PTL DEF Spec, AsksWhatCanBeCancelled

-----------------------------------------------------------------------------
(* How this module fits with OrderLifecycle: through OrderPath, which that   *)
(* one is shown to keep to.                                                  *)
Path == INSTANCE OrderPath

PathSpec == Path!Spec

(* An order moved along its path by somebody who knows nothing of requests:  *)
(* an override is remembered, and the request goes with the document.        *)
MovedByOthers(o) ==
  \/ /\ Path!MoveOn(o) \/ Path!FlagRatingOrder(o) \/ Path!Correct(o)
     /\ UNCHANGED <<request, overridden>>
  \/ /\ Path!Override(o)
     /\ overridden' = [overridden EXCEPT ![o] = TRUE]
     /\ UNCHANGED request
  \/ /\ Path!Delete(o)
     /\ request' = [request EXCEPT ![o] = "NONE"]
     /\ UNCHANGED overridden

(* Nothing an order may do on its path is left out of what may happen to it  *)
(* between two steps of an ask or an answer: an order that exists, and that  *)
(* no rider re-filed under the older server, may take each step here.        *)
THEOREM EnvironmentIsWhole ==
  ASSUME TypeOK, NEW o \in Orders, Path!Exists(o), status[o] # "REFILED"
  PROVE  /\ Path!Step(o) =>
              \/ Path!MoveOn(o) \/ Path!FlagRatingOrder(o) \/ Path!Correct(o)
              \/ Path!Override(o) \/ Path!Delete(o)
         /\ MovedByOthers(o) /\ status' # status /\ UNCHANGED <<asks, call>> => OrderStep(o)
<1>1. status[o] \notin {"ABSENT", "DELETED", "REFILED"}
  BY DEF Path!Exists
<1>2. ASSUME Path!Step(o), ~Path!MoveOn(o), ~Path!FlagRatingOrder(o), ~Path!Correct(o),
             ~Path!Override(o), ~Path!Delete(o)
      PROVE  FALSE
  BY <1>1, <1>2 DEF Path!Step, Path!Born, Path!Refile, Path!Go
<1>3. ASSUME MovedByOthers(o), status' # status, UNCHANGED <<asks, call>>
      PROVE  OrderStep(o)
  <2>1. ASSUME NEW to, status' = [status EXCEPT ![o] = to]
        PROVE  status[o] # to
    BY <1>3, <2>1 DEF TypeOK
  <2>2. CASE Path!MoveOn(o) /\ UNCHANGED <<request, overridden>>
    <3>1. MoveOn(o)
      BY <1>3, <2>2 DEF Path!MoveOn, MoveOn, SetStatus
    <3>. QED
      BY <3>1 DEF OrderStep
  <2>3. CASE Path!FlagRatingOrder(o) /\ UNCHANGED <<request, overridden>>
    <3>1. FlagRatingOrder(o)
      BY <1>1, <1>3, <2>1, <2>3 DEF Path!FlagRatingOrder, FlagRatingOrder, SetStatus
    <3>. QED
      BY <3>1 DEF OrderStep
  <2>4. CASE Path!Correct(o) /\ UNCHANGED <<request, overridden>>
    <3>1. Correct(o)
      BY <1>1, <1>3, <2>4 DEF Path!Correct, Path!Go, Correct, SetStatus
    <3>. QED
      BY <3>1 DEF OrderStep
  <2>5. CASE /\ Path!Override(o) /\ UNCHANGED request
             /\ overridden' = [overridden EXCEPT ![o] = TRUE]
    <3>1. PICK to \in OverrideTargets : status' = [status EXCEPT ![o] = to]
      BY <2>5 DEF Path!Override
    <3>2. Override(o)
      BY <1>1, <1>3, <2>1, <2>5, <3>1 DEF Override
    <3>. QED
      BY <3>2 DEF OrderStep
  <2>6. CASE /\ Path!Delete(o) /\ UNCHANGED overridden
             /\ request' = [request EXCEPT ![o] = "NONE"]
    <3>1. Delete(o)
      BY <1>1, <1>3, <2>6 DEF Path!Delete, Delete
    <3>. QED
      BY <3>1 DEF OrderStep
  <2>. QED
    BY <1>3, <2>2, <2>3, <2>4, <2>5, <2>6 DEF MovedByOthers
<1>. QED
  BY <1>2, <1>3

(* The other way round: the errand itself moves an order only along its      *)
(* path, so OrderLifecycle's theorems hold of orders with requests too.      *)
THEOREM KeepsToPath == Spec => PathSpec
<1>1. Init => Path!Init
  BY DEF Init, Path!Init, Path!Statuses, OrderStatuses, OpenStatuses
<1>2. TypeOK /\ [Next]_vars => [Path!Next]_status
  <2> SUFFICES ASSUME TypeOK, Next, status' # status PROVE Path!Next
    BY DEF vars
  <2>1. ASSUME NEW u \in Users, UserStep(u) PROVE Path!Next
    <3>1. /\ Cancel(u) /\ call[u].step = "CANCELLING"
          /\ IsTransitionAllowed(status[call[u].of], "CANCELLED", RoleOf[u])
          /\ status' = [status EXCEPT ![call[u].of] = "CANCELLED"]
      BY <2>1 DEF UserStep, ReadToAsk, ReadToApprove, ReadToRefuse, Reads, WriteAsk, Mark,
                  WriteRefusal, Die, Cancel
    <3>2. call[u].of \in Orders
      <4>1. call[u].of \notin Orders => status' = status
        BY <3>1 DEF TypeOK
      <4>. QED
        BY <4>1
    <3>3. RoleOf[u] \in Roles /\ "CANCELLED" \in OrderStatuses
      BY ConstantsAssumption DEF Office, Roles, OrderStatuses, TerminalStatuses
    <3>4. Path!MoveOn(call[u].of)
      BY <3>1, <3>3 DEF Path!MoveOn
    <3>. QED
      BY <3>2, <3>4 DEF Path!Next, Path!Step
  <2>2. ASSUME NEW o \in Orders, OrderStep(o) PROVE Path!Next
    <3>1. CASE MoveOn(o)
      BY <3>1 DEF MoveOn, SetStatus, Path!MoveOn, Path!Next, Path!Step
    <3>2. CASE FlagRatingOrder(o) \/ Delete(o) \/ Override(o)
      <4>1. Path!Exists(o)
        BY <2>2, <3>2, ConstantsAssumption
           DEF FlagRatingOrder, Delete, Override, Path!Exists, TypeOK, Statuses, OrderStatuses,
               OpenStatuses, TerminalStatuses
      <4>. QED
        BY <3>2, <4>1
           DEF FlagRatingOrder, Delete, Override, SetStatus, Path!FlagRatingOrder, Path!Delete,
               Path!Override, Path!Next, Path!Step
    <3>3. CASE Correct(o)
      BY <3>3 DEF Correct, SetStatus, Path!Correct, Path!Go, Path!Next, Path!Step
    <3>. QED
      BY <2>2, <3>1, <3>2, <3>3 DEF OrderStep
  <2>. QED
    BY <2>1, <2>2 DEF Next
<1>. QED
  BY <1>1, <1>2, CancelTypeCorrect, PTL DEF Spec, PathSpec, Path!Spec
=============================================================================
