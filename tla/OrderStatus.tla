---------------------------- MODULE OrderStatus ----------------------------
(***************************************************************************)
(* The pure rules of the order: the statuses, the transition allow-list    *)
(* with the roles that hold each edge, which statuses end an order, which  *)
(* moves open a return, and which outcomes a rider may correct.            *)
(*                                                                         *)
(* lib/orderStatus.ts, lib/rto.ts and lib/riderRecords.ts.                 *)
(***************************************************************************)

Roles == {"ADMIN", "STORE_MANAGER", "DELIVERY_AGENT", "TELECALLER"}

Office == {"ADMIN", "STORE_MANAGER", "TELECALLER"}

(* The statuses an order works through, in pipeline order. *)
OpenStatuses ==
  {"ENQUIRY", "QUOTED", "RECEIVED", "ACCEPTED", "KOT_PRINTED", "PREPARED", "DISPATCHED"}

TerminalStatuses ==
  {"DELIVERED", "FAILED", "CANCELLED", "LOST", "MISDELIVERY", "MISSED_DELIVERY",
   "REFUNDED", "RATING_ORDER"}

OrderStatuses == OpenStatuses \cup TerminalStatuses

IsTerminal(status) == status \in TerminalStatuses

(* TRANSITIONS: the edges each group of roles holds. *)
AdminEdges ==
  {<<"ENQUIRY", "QUOTED">>, <<"ENQUIRY", "LOST">>,
   <<"QUOTED", "RECEIVED">>, <<"QUOTED", "LOST">>}

KitchenEdges ==
  {<<"RECEIVED", "ACCEPTED">>, <<"ACCEPTED", "KOT_PRINTED">>, <<"KOT_PRINTED", "PREPARED">>}

Cancellable == {"RECEIVED", "ACCEPTED", "KOT_PRINTED", "PREPARED", "DISPATCHED"}

SupportOutcomes == {"MISDELIVERY", "MISSED_DELIVERY", "REFUNDED"}

IsTransitionAllowed(from, to, role) ==
  \/ role = "ADMIN" /\ <<from, to>> \in AdminEdges
  \/ role \in {"ADMIN", "STORE_MANAGER"} /\ <<from, to>> \in KitchenEdges
  \/ role \in {"ADMIN", "TELECALLER"} /\ from \in Cancellable /\ to = "CANCELLED"
  \/ role = "TELECALLER" /\ from \in OpenStatuses /\ to \in SupportOutcomes
  \/ role = "TELECALLER" /\ from = "PREPARED" /\ to \in {"DELIVERED", "FAILED"}
  \/ role # "TELECALLER" /\ role \in Roles /\ from = "PREPARED" /\ to = "DISPATCHED"
  \/ role \in {"DELIVERY_AGENT", "TELECALLER"} /\ from = "DISPATCHED" /\ to \in {"DELIVERED", "FAILED"}
  \/ role = "DELIVERY_AGENT" /\ from = "DISPATCHED" /\ to = "PREPARED"

(* Entering one of these records which rider has, or had, the food. *)
RecordsTheRider == {"DISPATCHED", "DELIVERED", "FAILED"}

(* Leaving DISPATCHED for one of these sends the bag back to its outlet. *)
RtoOpeningStatuses == {"CANCELLED", "FAILED", "MISSED_DELIVERY"}

OpensReturn(from, to) == from = "DISPATCHED" /\ to \in RtoOpeningStatuses

(* The closed statuses a rider's correction may speak of. *)
RiderOutcomes == {"DELIVERED", "FAILED", "CANCELLED"}

(* The event statuses that date an order's first close: not RATING_ORDER. *)
ClosingStatuses == TerminalStatuses \ {"RATING_ORDER"}

(* A store manager may ask for a cancellation exactly where a telecaller could make it. *)
CanRequestCancellation(role, status) ==
  role = "STORE_MANAGER" /\ IsTransitionAllowed(status, "CANCELLED", "TELECALLER")

CanDecideCancellation(role) == role \in {"TELECALLER", "ADMIN"}
=============================================================================
