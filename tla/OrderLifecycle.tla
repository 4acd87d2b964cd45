--------------------------- MODULE OrderLifecycle ---------------------------
(***************************************************************************)
(* The life of an order document, from creation to the last correction of  *)
(* how it ended: every operation of the server that changes its status,    *)
(* its riders, its return to origin or its cash.                           *)
(*                                                                         *)
(* One action is one handler.  The handlers of lib/repo/transitionOrder.ts *)
(* and settleRiderCash read and write in one MongoDB transaction whose     *)
(* write repeats the status it read, so each of them takes effect          *)
(* atomically or not at all: a request that loses a race throws and leaves *)
(* no trace.  markReturnedToOrigin reads before it writes, but its write   *)
(* repeats the only condition it read (the return is still PENDING).       *)
(*                                                                         *)
(* Office users are told apart by role only: every outlet has a manager    *)
(* and a telecaller, so an office user in scope exists when the order has  *)
(* an outlet at all.  Riders are individuals.                              *)
(***************************************************************************)
EXTENDS Integers, Sequences, FiniteSets, OrderStatus

CONSTANTS
  Orders,           \* order documents
  Riders,           \* users with role DELIVERY_AGENT
  NoOne,            \* a null user id
  Outlets,          \* restaurants
  NoOutlet,         \* a null restaurantId
  WorksAt,          \* the outlets each rider is attached to
  Sources,          \* aggregators
  SourceOf,         \* the aggregator each order came from
  Window,           \* RIDER_CORRECTION_WINDOW_MS, in clock ticks
  OverrideTargets,  \* statuses an admin's free-text override writes
  MaxTime,          \* bound: the last clock reading
  MaxAssigned       \* bound: riders the office puts on one order at once

ASSUME ConstantsAssumption ==
  /\ NoOne \notin Riders
  /\ NoOutlet \notin Outlets
  /\ WorksAt \in [Riders -> SUBSET Outlets]
  /\ SourceOf \in [Orders -> Sources]
  /\ Window \in Nat
  /\ MaxTime \in Nat
  /\ MaxAssigned \in Nat
  /\ "ABSENT" \notin OverrideTargets /\ "DELETED" \notin OverrideTargets

VARIABLES
  order,  \* the document of each order
  now     \* the server clock

vars == <<order, now>>

Never == -1

Statuses == OrderStatuses \cup OverrideTargets

-----------------------------------------------------------------------------
(* The document, cut down to the fields the handlers below read or write. *)

Document ==
  [status      : Statuses \cup {"ABSENT", "DELETED"},
   outlet      : Outlets \cup {NoOutlet},           \* restaurantId
   quoted      : BOOLEAN,                           \* phone, amount, payment mode and ready-by are set
   cod         : BOOLEAN,                           \* paymentMode is COD
   agents      : Seq(Riders),                       \* delivery.agentIds
   assigned    : BOOLEAN,                           \* delivery.assignedAt is set
   closedAt    : Nat \cup {Never},                  \* delivery.closedAt
   delivered   : BOOLEAN,                           \* delivery.deliveredAt is set
   collectedBy : Riders \cup {NoOne},               \* delivery.collectedBy
   settledFor  : Riders \cup {NoOne},               \* codSettledAt is set: the rider whose cash was taken
   rto         : {"NONE", "PENDING", "RETURNED"},   \* delivery.rto.status
   \* What the handlers read back from the event log:
   firstClose  : Nat \cup {Never},                  \* time of the first closing event
   cancelledBy : Riders \cup {NoOne},               \* the rider whose correction the last CANCELLED event is
   \* and two facts the log keeps that no handler reads:
   took        : Riders \cup {NoOne},               \* the rider named when it was last dispatched
   bypassed    : BOOLEAN]                           \* an event is an admin override or a rating flag

Blank ==
  [status |-> "ABSENT", outlet |-> NoOutlet, quoted |-> FALSE, cod |-> FALSE,
   agents |-> << >>, assigned |-> FALSE, closedAt |-> Never, delivered |-> FALSE,
   collectedBy |-> NoOne, settledFor |-> NoOne, rto |-> "NONE", firstClose |-> Never,
   cancelledBy |-> NoOne, took |-> NoOne, bypassed |-> FALSE]

Exists(o) == order[o].status \notin {"ABSENT", "DELETED"}

On(d, r) == \E i \in 1..Len(d.agents) : d.agents[i] = r

(* $addToSet and $pull on delivery.agentIds, which holds a rider at most once. *)
AddToSet(s, r) == IF \E i \in 1..Len(s) : s[i] = r THEN s ELSE Append(s, r)

Pull(s, r) ==
  IF \E i \in 1..Len(s) : s[i] = r
  THEN LET i == CHOOSE j \in 1..Len(s) : s[j] = r
       IN  SubSeq(s, 1, i - 1) \o SubSeq(s, i + 1, Len(s))
  ELSE s

(* The lists of distinct riders the office may put on an order. *)
RiderLists ==
  {s \in UNION {[1..n -> Riders] : n \in 0..MaxAssigned} :
     \A i, j \in 1..Len(s) : s[i] = s[j] => i = j}

(* scopeFilter: the orders a caller's query can match. *)
InScope(role, who, d) ==
  \/ role = "ADMIN"
  \/ role \in {"STORE_MANAGER", "TELECALLER"} /\ d.outlet \in Outlets
  \/ /\ role = "DELIVERY_AGENT"
     /\ d.outlet \in WorksAt[who]
     /\ On(d, who) \/ (d.status = "PREPARED" /\ d.agents = << >>)

(* $push of an event whose toStatus is `to`.  No handler of today's server   *)
(* writes a CANCELLED event that wasCancelledBy would take for a rider's.    *)
Push(d, to) ==
  [d EXCEPT
     !.firstClose  = IF d.firstClose = Never /\ to \in ClosingStatuses THEN now ELSE @,
     !.cancelledBy = IF to = "CANCELLED" THEN NoOne ELSE @]

(* An event that changes no status: assignment, edit, return taken back, cash taken. *)
PushSide(d) == Push(d, d.status)

(* closedAtOf.  Every closed order of the model has a closing event, so the  *)
(* code's further fallbacks, deliveredAt and updatedAt, are not reached.     *)
ClosedAtOf(d) == IF d.closedAt # Never THEN d.closedAt ELSE d.firstClose

(* Mutant: the correction window is not looked at. *)
Correctable_AnyTime(d) == ClosedAtOf(d) # Never

Correctable(d) == ClosedAtOf(d) # Never /\ now < ClosedAtOf(d) + Window

(* Mutant: the first rider on the order is taken for the holder. *)
HolderOf_FirstRider(d) == IF d.agents # << >> THEN d.agents[1] ELSE NoOne

(* holderOf and pendingFilter: whose wallet an order's cash is in, if anyone's. *)
HolderOf(d) ==
  IF d.collectedBy # NoOne THEN d.collectedBy
  ELSE IF d.agents # << >> THEN d.agents[1] ELSE NoOne

InWallet(d, r) ==
  /\ d.status = "DELIVERED" /\ d.cod /\ d.settledFor = NoOne /\ d.delivered
  /\ HolderOf(d) = r

-----------------------------------------------------------------------------
(* An order a rider re-filed as CANCELLED under an older server, which wrote *)
(* that status for a rider; the server of today still lets them correct it.  *)
Refiled(k, c, r) ==
  [Blank EXCEPT !.status = "CANCELLED", !.outlet = k, !.quoted = TRUE, !.cod = c,
                !.agents = <<r>>, !.took = r, !.closedAt = 0, !.firstClose = 0,
                !.cancelledBy = r]

RefiledByRider == {Refiled(k, c, r) : k \in Outlets, c \in BOOLEAN, r \in Riders}

Init ==
  /\ order \in [Orders -> {Blank} \cup RefiledByRider]
  /\ now = 0

(* createManualOrder and ingestion: a retail order is born RECEIVED at a known outlet. *)
Create(o) ==
  /\ order[o].status = "ABSENT"
  /\ \E k \in Outlets, c \in BOOLEAN :
       order' = [order EXCEPT ![o] =
                   [Blank EXCEPT !.status = "RECEIVED", !.outlet = k, !.cod = c]]
  /\ UNCHANGED now

(* createEnquiry: a bulk order is born with everything still unknown. *)
CreateEnquiry(o) ==
  /\ order[o].status = "ABSENT"
  /\ order' = [order EXCEPT ![o] = [Blank EXCEPT !.status = "ENQUIRY"]]
  /\ UNCHANGED now

(* quoteEnquiryAction's field write.  It checks no status, and the move to   *)
(* QUOTED that follows it is a transition of its own that may lose its race. *)
WriteQuote(o) ==
  /\ Exists(o)
  /\ \E k \in Outlets, c \in BOOLEAN :
       order' = [order EXCEPT ![o] = [@ EXCEPT !.outlet = k, !.quoted = TRUE, !.cod = c]]
  /\ UNCHANGED now

(* adminEditOrder: any field of any order, each change logged as a side event. *)
AdminEditOrder(o) ==
  /\ Exists(o)
  /\ \E k \in Outlets \cup {NoOutlet}, q, c \in BOOLEAN :
       order' = [order EXCEPT ![o] =
                   [PushSide(@) EXCEPT !.outlet = k, !.quoted = q, !.cod = c]]
  /\ UNCHANGED now

(* repointOrdersBetweenOutlets: one aggregator's orders follow its listing, unlogged. *)
RepointOrders(from, to, source) ==
  /\ from # to
  /\ order' = [o \in Orders |->
                 IF Exists(o) /\ order[o].outlet = from /\ SourceOf[o] = source
                 THEN [order[o] EXCEPT !.outlet = to]
                 ELSE order[o]]
  /\ UNCHANGED now

(* deleteOrder: the document goes, and its event log with it. *)
DeleteOrder(o) ==
  /\ Exists(o)
  /\ order' = [order EXCEPT ![o] = [Blank EXCEPT !.status = "DELETED"]]
  /\ UNCHANGED now

-----------------------------------------------------------------------------
(* transitionOrder: `who` is the rider when the role is DELIVERY_AGENT;     *)
(* `handedTo` the rider a manager or admin names at the counter, or NoOne.  *)

Carrier(role, who, to, handedTo) ==
  IF to \notin RecordsTheRider THEN NoOne
  ELSE IF role = "DELIVERY_AGENT" THEN who ELSE handedTo

MustNameRider(role, to) ==
  to \in RecordsTheRider /\ role \notin {"DELIVERY_AGENT", "TELECALLER"}

(* A rider putting back an order they took for themselves gives up the claim. *)
GivesBack(d, role, to) ==
  d.status = "DISPATCHED" /\ to = "PREPARED" /\ role = "DELIVERY_AGENT" /\ ~d.assigned

(* Mutant: a rider who puts an order back stays on it. *)
AgentsAfter_KeepsClaim(d, role, who, to, handedTo) ==
  IF Carrier(role, who, to, handedTo) # NoOne
  THEN AddToSet(d.agents, Carrier(role, who, to, handedTo))
  ELSE d.agents

AgentsAfter(d, role, who, to, handedTo) ==
  IF Carrier(role, who, to, handedTo) # NoOne
  THEN AddToSet(d.agents, Carrier(role, who, to, handedTo))
  ELSE IF GivesBack(d, role, to) THEN Pull(d.agents, who) ELSE d.agents

ClosedAtAfter(d, to) == IF IsTerminal(to) /\ d.closedAt = Never THEN now ELSE d.closedAt

(* Whoever the cash of a delivery is with: the rider acting, else the first on the order. *)
CollectorAfter(d, role, who, to, handedTo) ==
  IF to # "DELIVERED" THEN d.collectedBy
  ELSE IF Carrier(role, who, to, handedTo) # NoOne THEN Carrier(role, who, to, handedTo)
  ELSE IF d.agents # << >> THEN d.agents[1] ELSE NoOne

(* Mutant: the reason a return was opened is stored as its status. *)
RtoAfter_StoresReason(d, to) == IF OpensReturn(d.status, to) THEN to ELSE d.rto

(* Mutant: any cancel or failure opens a return, wherever the food is. *)
RtoAfter_AnyFailure(d, to) == IF to \in RtoOpeningStatuses THEN "PENDING" ELSE d.rto

RtoAfter(d, to) == IF OpensReturn(d.status, to) THEN "PENDING" ELSE d.rto

Transitioned(d, role, who, to, handedTo) ==
  Push([d EXCEPT
          !.status      = to,
          !.agents      = AgentsAfter(d, role, who, to, handedTo),
          !.closedAt    = ClosedAtAfter(d, to),
          !.delivered   = @ \/ to = "DELIVERED",
          !.collectedBy = CollectorAfter(d, role, who, to, handedTo),
          !.rto         = RtoAfter(d, to),
          !.took        = IF to = "DISPATCHED" THEN Carrier(role, who, to, handedTo) ELSE @],
       to)

TransitionOrder(o, role, who, to, handedTo) ==
  /\ InScope(role, who, order[o])
  /\ IsTransitionAllowed(order[o].status, to, role)
  /\ MustNameRider(role, to) => handedTo # NoOne
  /\ order[o].status = "QUOTED" /\ to = "RECEIVED" =>
       order[o].quoted /\ order[o].outlet # NoOutlet
  /\ order' = [order EXCEPT ![o] = Transitioned(@, role, who, to, handedTo)]
  /\ UNCHANGED now

(* Everyone at a desk: the boards, the call desk, the enquiry and admin pages. *)
OfficeTransition(o) ==
  \E role \in Office, to \in OrderStatuses : TransitionOrder(o, role, NoOne, to, NoOne)

(* handRunToRider: a manager or an admin hands ready food to a named rider. *)
HandToRider(o) ==
  \E role \in {"STORE_MANAGER", "ADMIN"}, r \in Riders :
    /\ order[o].status = "PREPARED"
    /\ TransitionOrder(o, role, NoOne, "DISPATCHED", r)

(* The rider's app: take, put back, deliver, fail. *)
RiderTransition(o) ==
  \E r \in Riders, to \in OrderStatuses : TransitionOrder(o, "DELIVERY_AGENT", r, to, NoOne)

-----------------------------------------------------------------------------
(* adminOverrideStatus: any status at all, and nothing else of the document. *)
AdminOverrideStatus(o) ==
  /\ Exists(o)
  /\ \E to \in OverrideTargets :
       /\ order[o].status # to
       /\ order' = [order EXCEPT ![o] =
                      Push([@ EXCEPT !.status = to, !.bypassed = TRUE], to)]
  /\ UNCHANGED now

(* flagRatingOrder: a telecaller files an order, whatever its state, as a decoy. *)
FlagRatingOrder(o) ==
  /\ Exists(o)
  /\ InScope("TELECALLER", NoOne, order[o])
  /\ order[o].status # "RATING_ORDER"
  /\ order' = [order EXCEPT ![o] =
                 Push([@ EXCEPT !.status = "RATING_ORDER", !.bypassed = TRUE],
                      "RATING_ORDER")]
  /\ UNCHANGED now

(* Mutants: the delivered order's bag is still owed; the correction counts as a new close. *)
CorrectedDelivered_KeepsReturn(d, r) ==
  [d EXCEPT !.status = "DELIVERED", !.closedAt = ClosedAtOf(d),
            !.delivered = TRUE, !.collectedBy = r]

CorrectedDelivered_Recloses(d, r) ==
  [d EXCEPT !.status = "DELIVERED", !.closedAt = now, !.rto = "NONE",
            !.delivered = TRUE, !.collectedBy = r]

CorrectedDelivered(d, r) ==
  [d EXCEPT !.status = "DELIVERED", !.closedAt = ClosedAtOf(d), !.rto = "NONE",
            !.delivered = TRUE, !.collectedBy = r]

(* Mutants: the collector stays on an undelivered order; its bag is not asked back. *)
CorrectedFailed_KeepsCollector(d) ==
  [d EXCEPT !.status = "FAILED", !.closedAt = ClosedAtOf(d), !.delivered = FALSE,
            !.rto = IF d.status = "DELIVERED" /\ @ = "NONE" THEN "PENDING" ELSE @]

CorrectedFailed_NoReturn(d) ==
  [d EXCEPT !.status = "FAILED", !.closedAt = ClosedAtOf(d), !.delivered = FALSE,
            !.collectedBy = NoOne]

CorrectedFailed(d) ==
  [d EXCEPT !.status = "FAILED", !.closedAt = ClosedAtOf(d), !.delivered = FALSE,
            !.collectedBy = NoOne,
            !.rto = IF d.status = "DELIVERED" /\ @ = "NONE" THEN "PENDING" ELSE @]

(* correctRiderOutcome: a rider who asks for CANCELLED has it recorded as FAILED. *)
CorrectRiderOutcome(o, r, requested) ==
  LET d  == order[o]
      to == IF requested = "CANCELLED" THEN "FAILED" ELSE requested
  IN  /\ d.status \in RiderOutcomes /\ d.status # to
      /\ InScope("DELIVERY_AGENT", r, d)
      /\ Correctable(d)
      /\ d.settledFor = NoOne
      /\ d.status = "CANCELLED" => d.cancelledBy = r
      /\ to = "DELIVERED" => d.rto # "RETURNED"
      /\ order' = [order EXCEPT ![o] =
                     Push(IF to = "DELIVERED" THEN CorrectedDelivered(d, r) ELSE CorrectedFailed(d),
                          to)]
      /\ UNCHANGED now

-----------------------------------------------------------------------------
SetRiders(o, list) ==
  order' = [order EXCEPT ![o] =
              [PushSide(@) EXCEPT !.agents = list, !.assigned = list # << >>]]

(* assignAgents: an admin corrects who an order records, whatever its status. *)
AssignAgents(o) ==
  /\ Exists(o)
  /\ \E list \in RiderLists : SetRiders(o, list)
  /\ UNCHANGED now

(* assignRiders: the office routes an open order; an empty list takes it off every rider. *)
AssignRiders(o) ==
  /\ Exists(o)
  /\ ~IsTerminal(order[o].status)
  /\ \E role \in Office, list \in RiderLists :
       /\ InScope(role, NoOne, order[o])
       /\ role = "ADMIN" \/ \A i \in 1..Len(list) : order[o].outlet \in WorksAt[list[i]]
       /\ SetRiders(o, list)
  /\ UNCHANGED now

(* markReturnedToOrigin: the outlet takes the bag back, once. *)
MarkReturnedToOrigin(o) ==
  /\ Exists(o)
  /\ order[o].rto = "PENDING"
  /\ \E role \in {"ADMIN", "STORE_MANAGER"} : InScope(role, NoOne, order[o])
  /\ order' = [order EXCEPT ![o] = [PushSide(@) EXCEPT !.rto = "RETURNED"]]
  /\ UNCHANGED now

(* settleRiderCash: of the orders the manager was shown, those still in the rider's wallet. *)
SettleRiderCash(shown, r) ==
  /\ \E role \in {"STORE_MANAGER", "ADMIN"} :
       LET mine == {o \in shown : InScope(role, NoOne, order[o]) /\ InWallet(order[o], r)}
       IN  /\ mine # {}
           /\ order' = [o \in Orders |->
                          IF o \in mine THEN [PushSide(order[o]) EXCEPT !.settledFor = r]
                          ELSE order[o]]
  /\ UNCHANGED now

Tick == now < MaxTime /\ now' = now + 1 /\ UNCHANGED order

-----------------------------------------------------------------------------
OrderStep(o) ==
  \/ Create(o) \/ CreateEnquiry(o) \/ WriteQuote(o) \/ AdminEditOrder(o) \/ DeleteOrder(o)
  \/ OfficeTransition(o) \/ HandToRider(o) \/ RiderTransition(o)
  \/ AdminOverrideStatus(o) \/ FlagRatingOrder(o)
  \/ \E r \in Riders, requested \in RiderOutcomes : CorrectRiderOutcome(o, r, requested)
  \/ AssignAgents(o) \/ AssignRiders(o) \/ MarkReturnedToOrigin(o)

Next ==
  \/ \E o \in Orders : OrderStep(o)
  \/ \E from, to \in Outlets, source \in Sources : RepointOrders(from, to, source)
  \/ \E shown \in SUBSET Orders, r \in Riders : SettleRiderCash(shown, r)
  \/ Tick

Spec == Init /\ [][Next]_vars

-----------------------------------------------------------------------------
(* Types. *)
TypeOK ==
  /\ order \in [Orders -> Document]
  /\ now \in Nat

(* The guided pipeline: no admin override and no rating flag on the event log. *)
OnBook(d) == d.status \notin {"ABSENT", "DELETED"} /\ ~d.bypassed

Guided(o) == OnBook(order[o])

(* A return is owed or done only while the order counts as not delivered:    *)
(* a bag is never both coming back and delivered, nor taken back at the      *)
(* counter and delivered, through any mix of corrections and transitions.    *)
ReturnMatchesOutcome ==
  \A o \in Orders :
    Guided(o) /\ order[o].rto # "NONE" => order[o].status \in RtoOpeningStatuses

(* Cash a manager has taken stays accounted for: the order it was taken for  *)
(* remains DELIVERED, and the rider it was taken from is its collector.      *)
SettledStaysDelivered ==
  \A o \in Orders :
    Guided(o) /\ order[o].settledFor # NoOne =>
      /\ order[o].status = "DELIVERED"
      /\ order[o].collectedBy \in {NoOne, order[o].settledFor}

(* Nobody is recorded as holding cash for an order that is not delivered,    *)
(* and its delivery time is gone with it.                                    *)
CashFollowsDelivery ==
  \A o \in Orders :
    Guided(o) /\ order[o].status # "DELIVERED" =>
      order[o].collectedBy = NoOne /\ ~order[o].delivered

(* closedAt is stamped exactly when an order is closed, with the time of its *)
(* first closing event, however often the outcome is corrected afterwards.   *)
ClosedOnce ==
  \A o \in Orders :
    Guided(o) =>
      /\ IsTerminal(order[o].status) <=> order[o].closedAt # Never
      /\ order[o].closedAt = order[o].firstClose

(* An order nobody in the office assigned is held by at most one rider, and  *)
(* by none until it leaves the counter: two riders racing for a ready order  *)
(* never both hold it, and one put back is open to everyone again.           *)
UnassignedHasOneRider ==
  \A o \in Orders :
    Guided(o) /\ ~order[o].assigned =>
      /\ Len(order[o].agents) <= 1
      /\ order[o].status \in OpenStatuses \ {"DISPATCHED"} => order[o].agents = << >>

-----------------------------------------------------------------------------
(* What a step from document d to document e may do to how an order ended.   *)
OutcomeStep(d, e) ==
  OnBook(d) /\ OnBook(e) /\ IsTerminal(d.status) /\ e.status # d.status
  => /\ d.status \in RiderOutcomes
     /\ e.status \in {"DELIVERED", "FAILED"}
     /\ now < d.firstClose + Window
     /\ d.settledFor = NoOne
     /\ e.status = "DELIVERED" => d.rto # "RETURNED"

(* How an order ended changes only by its rider's correction: between        *)
(* delivered and not delivered, within the window counted from its first     *)
(* closing event, never after its cash was taken, never to delivered once    *)
(* the outlet has the bag, and never out of any other ending.                *)
OutcomeIsFinal == [][\A o \in Orders : OutcomeStep(order[o], order'[o])]_vars

(* What it may do to cash in rider r's wallet.                               *)
WalletStep(d, e, r) ==
  OnBook(d) /\ OnBook(e) /\ InWallet(d, r) /\ ~InWallet(e, r)
  => \/ e.settledFor = r
     \/ e.status = "FAILED" /\ e.rto = "PENDING"
     \/ ~e.cod
     \/ d.collectedBy = NoOne

(* Cash does not leave a rider's wallet unexplained: a manager took it from  *)
(* that rider, or the order turned out not delivered and its bag is on its   *)
(* way back, or an admin changed how it is paid.  An order closed with no    *)
(* rider on it names no collector, and is the one case the office can move.  *)
CashLeavesWalletExplained ==
  [][\A o \in Orders, r \in Riders : WalletStep(order[o], order'[o], r)]_vars

(* What models/Order.ts says of the return: opened the moment an order       *)
(* leaves DISPATCHED for one of the opening statuses, so that a cancel while *)
(* the food is out cannot slip past without a return to collect.             *)
ReturnNeverSlipsPast ==
  [][\A o \in Orders :
       OpensReturn(order[o].status, order'[o].status) => order'[o].rto = "PENDING"]_vars

(* What riderCashRepo says of the wallet: collectedBy names the holder.  An  *)
(* order that was dispatched with a rider and delivered is in the wallet of  *)
(* that rider when somebody's.                                               *)
WalletIsTheCarriers ==
  \A o \in Orders, r \in Riders :
    Guided(o) /\ order[o].took # NoOne /\ InWallet(order[o], r)
    => r = order[o].took

(* Where the records say an order's bag is. *)
BagOf(d) ==
  CASE d.status \in {"ABSENT", "DELETED"}        -> "none"
    [] d.status \notin {"ABSENT", "DELETED"} /\ d.bypassed -> "offBook"
    [] OTHER ->
         CASE d.status = "DISPATCHED"                 -> "out"
           [] d.status = "DELIVERED"                  -> "handedOver"
           [] d.status \in {"MISDELIVERY", "REFUNDED"} -> "writtenOff"
           [] d.status \notin {"DISPATCHED", "DELIVERED", "MISDELIVERY", "REFUNDED"} ->
                CASE d.rto = "PENDING"  -> "comingBack"
                  [] d.rto = "RETURNED" -> "returned"
                  [] d.rto = "NONE"     -> "counter"

(* The lifecycle implements the custody promise of BagCustody. *)
Custody == INSTANCE BagCustody WITH bag <- [o \in Orders |-> BagOf(order[o])]

CustodySpec == Custody!Spec
=============================================================================
