--------------------------- MODULE CancelRequest ---------------------------
(***************************************************************************)
(* A store manager asks for an order to be cancelled; the call desk        *)
(* approves or refuses.  lib/repo/cancelRequestRepo.ts.                    *)
(*                                                                         *)
(* Each operation reads the order, decides, and writes with an await in    *)
(* between, so the steps of several users interleave with each other and   *)
(* with the order's own progress.  Approving is three steps: read the      *)
(* request, cancel the order (one transaction of its own, which does not   *)
(* look at the request), mark the request.  The server may die before any  *)
(* of them.                                                                *)
(***************************************************************************)
EXTENDS Integers, OrderStatus

CONSTANTS
  Orders,
  Users,            \* office users, each with one request to the server open at a time
  NoOrder,
  RoleOf,           \* the role of each user
  OverrideTargets,  \* statuses an admin's free-text override writes
  MaxAsks           \* bound: asks a manager starts on one order

ASSUME ConstantsAssumption ==
  /\ NoOrder \notin Orders
  /\ RoleOf \in [Users -> Office]
  /\ "ABSENT" \notin OverrideTargets /\ "DELETED" \notin OverrideTargets
  /\ MaxAsks \in Nat

VARIABLES
  status,      \* of each order
  request,     \* order.cancelRequest.status, "NONE" when there is no request
  asks,        \* how many asks were recorded: which ask the request is
  overridden,  \* an admin's override has moved the order off the guided pipeline
  call         \* what each user's open request to the server is about to do

vars == <<status, request, asks, overridden, call>>

Statuses == OrderStatuses \cup OverrideTargets \cup {"DELETED"}

Call ==
  [step : {"IDLE", "ASKING", "CANCELLING", "MARKING", "REFUSING"},
   of   : Orders \cup {NoOrder},
   seen : Statuses]                  \* the status the order was read in

Idle == [step |-> "IDLE", of |-> NoOrder, seen |-> "DELETED"]

(* createManualOrder, ingestion and createEnquiry: how an order is born. *)
Init ==
  /\ status \in [Orders -> {"RECEIVED", "ENQUIRY"}]
  /\ request = [o \in Orders |-> "NONE"]
  /\ asks = [o \in Orders |-> 0]
  /\ overridden = [o \in Orders |-> FALSE]
  /\ call = [u \in Users |-> Idle]

Reads(u, o, step) ==
  /\ call[u].step = "IDLE"
  /\ status[o] # "DELETED"
  /\ call' = [call EXCEPT ![u] = [step |-> step, of |-> o, seen |-> status[o]]]
  /\ UNCHANGED <<status, request, asks, overridden>>

Ends(u) == call' = [call EXCEPT ![u] = Idle]

-----------------------------------------------------------------------------
(* requestCancellation. *)
ReadToAsk(u, o) ==
  /\ request[o] # "PENDING"
  /\ CanRequestCancellation(RoleOf[u], status[o])
  /\ asks[o] < MaxAsks
  /\ Reads(u, o, "ASKING")

(* Mutant: the ask is written whatever became of the order since it was read. *)
AskMatches_AnyStatus(c) == request[c.of] # "PENDING"

(* The filter of the write: the order is as it was read, and nobody else has asked. *)
AskMatches(c) == status[c.of] = c.seen /\ request[c.of] # "PENDING"

WriteAsk(u) ==
  LET c == call[u]
  IN  /\ c.step = "ASKING"
      /\ IF AskMatches(c)
         THEN /\ request' = [request EXCEPT ![c.of] = "PENDING"]
              /\ asks' = [asks EXCEPT ![c.of] = @ + 1]
         ELSE UNCHANGED <<request, asks>>
      /\ Ends(u)
      /\ UNCHANGED <<status, overridden>>

-----------------------------------------------------------------------------
(* approveCancellation. *)
ReadToApprove(u, o) ==
  /\ CanDecideCancellation(RoleOf[u])
  /\ request[o] = "PENDING"
  /\ Reads(u, o, "CANCELLING")

(* Mutant: a cancel the allow-list turns down is swallowed, and the request marked all the same. *)
AfterCancel_Swallowed(c, allowed) == [c EXCEPT !.step = "MARKING"]

(* transitionOrder throws when the order may no longer be cancelled: the request stays as it is. *)
AfterCancel(c, allowed) == IF allowed THEN [c EXCEPT !.step = "MARKING"] ELSE Idle

Cancel(u) ==
  LET c       == call[u]
      allowed == IsTransitionAllowed(status[c.of], "CANCELLED", RoleOf[u])
  IN  /\ c.step = "CANCELLING"
      /\ status' = IF allowed THEN [status EXCEPT ![c.of] = "CANCELLED"] ELSE status
      /\ call' = [call EXCEPT ![u] = AfterCancel(c, allowed)]
      /\ UNCHANGED <<request, asks, overridden>>

(* Mutant: the mark does not look whether the request is still waiting. *)
MarkMatches_Always(c) == status[c.of] # "DELETED"

MarkMatches(c) == request[c.of] = "PENDING"

Mark(u) ==
  LET c == call[u]
  IN  /\ c.step = "MARKING"
      /\ request' = IF MarkMatches(c) THEN [request EXCEPT ![c.of] = "APPROVED"] ELSE request
      /\ Ends(u)
      /\ UNCHANGED <<status, asks, overridden>>

-----------------------------------------------------------------------------
(* refuseCancellation. *)
ReadToRefuse(u, o) ==
  /\ CanDecideCancellation(RoleOf[u])
  /\ request[o] = "PENDING"
  /\ Reads(u, o, "REFUSING")

RefusalMatches(c) == status[c.of] = c.seen /\ request[c.of] = "PENDING"

WriteRefusal(u) ==
  LET c == call[u]
  IN  /\ c.step = "REFUSING"
      /\ request' = IF RefusalMatches(c) THEN [request EXCEPT ![c.of] = "REFUSED"] ELSE request
      /\ Ends(u)
      /\ UNCHANGED <<status, asks, overridden>>

(* The server dies, or the database fails, before a step: the rest of the call never happens. *)
Die(u) ==
  /\ call[u].step # "IDLE"
  /\ Ends(u)
  /\ UNCHANGED <<status, request, asks, overridden>>

-----------------------------------------------------------------------------
(* Everything else that moves the order meanwhile. *)

SetStatus(o, to) ==
  /\ status' = [status EXCEPT ![o] = to]
  /\ UNCHANGED <<request, asks, overridden, call>>

(* transitionOrder by anyone: none of its callers looks at the request. *)
MoveOn(o) ==
  \E role \in Roles, to \in OrderStatuses :
    IsTransitionAllowed(status[o], to, role) /\ SetStatus(o, to)

(* flagRatingOrder *)
FlagRatingOrder(o) ==
  /\ status[o] \notin {"RATING_ORDER", "DELETED"}
  /\ SetStatus(o, "RATING_ORDER")

(* correctRiderOutcome: a rider re-files a finished delivery. *)
Correct(o) ==
  \/ status[o] = "DELIVERED" /\ SetStatus(o, "FAILED")
  \/ status[o] = "FAILED" /\ SetStatus(o, "DELIVERED")

(* adminOverrideStatus *)
Override(o) ==
  /\ status[o] # "DELETED"
  /\ \E to \in OverrideTargets \ {status[o]} : status' = [status EXCEPT ![o] = to]
  /\ overridden' = [overridden EXCEPT ![o] = TRUE]
  /\ UNCHANGED <<request, asks, call>>

(* deleteOrder: the request is part of the document. *)
Delete(o) ==
  /\ status[o] # "DELETED"
  /\ status' = [status EXCEPT ![o] = "DELETED"]
  /\ request' = [request EXCEPT ![o] = "NONE"]
  /\ UNCHANGED <<asks, overridden, call>>

UserStep(u) ==
  \/ \E o \in Orders : ReadToAsk(u, o) \/ ReadToApprove(u, o) \/ ReadToRefuse(u, o)
  \/ WriteAsk(u) \/ Cancel(u) \/ Mark(u) \/ WriteRefusal(u) \/ Die(u)

OrderStep(o) == MoveOn(o) \/ FlagRatingOrder(o) \/ Correct(o) \/ Override(o) \/ Delete(o)

Next == (\E u \in Users : UserStep(u)) \/ (\E o \in Orders : OrderStep(o))

Spec == Init /\ [][Next]_vars

-----------------------------------------------------------------------------
TypeOK ==
  /\ status \in [Orders -> Statuses]
  /\ request \in [Orders -> {"NONE", "PENDING", "APPROVED", "REFUSED"}]
  /\ asks \in [Orders -> Nat]
  /\ overridden \in [Orders -> BOOLEAN]
  /\ call \in [Users -> Call]

(* A request reads APPROVED only on an order that was cancelled: unless an   *)
(* admin has overridden its status, it is CANCELLED still, or has been filed *)
(* as a rating order since, or is gone.                                      *)
ApprovedIsCancelled ==
  \A o \in Orders :
    request[o] = "APPROVED" /\ ~overridden[o] =>
      status[o] \in {"CANCELLED", "RATING_ORDER", "DELETED"}

(* An answer stands: an answered request changes only by a new ask of the    *)
(* manager's, or goes with its order.  Two desks answering at once, or a     *)
(* desk whose approval lands after another's refusal, never turn one answer  *)
(* into the other.                                                           *)
AnswerStands ==
  [][\A o \in Orders :
       request[o] \in {"APPROVED", "REFUSED"} /\ request'[o] # request[o] =>
         \/ request'[o] = "PENDING" /\ asks'[o] = asks[o] + 1
         \/ status'[o] = "DELETED"]_vars

(* An ask is recorded only on an order that can still be cancelled at that   *)
(* moment, though the page and the read it rests on are older: what the desk *)
(* is shown was worth asking.                                                *)
AsksWhatCanBeCancelled ==
  [][\A o \in Orders : asks'[o] # asks[o] => status[o] \in Cancellable]_vars
=============================================================================
