----------------------------- MODULE OrderPath -----------------------------
(***************************************************************************)
(* The path an order's status takes, whoever moves it: the contract        *)
(* between OrderLifecycle, which shows that the handlers keep to it, and   *)
(* the modules that follow one errand among other people's work, which     *)
(* take an order to go along it at any moment.                             *)
(*                                                                         *)
(* "REFILED" is a CANCELLED order whose last such event a rider wrote, on  *)
(* an older server: it may still be corrected, and no other CANCELLED      *)
(* order may.                                                              *)
(***************************************************************************)
CONSTANTS
  Roles, OrderStatuses, IsTransitionAllowed(_, _, _),    \* the rules, as in OrderStatus
  Orders,
  OverrideTargets    \* statuses an admin's free-text override writes

VARIABLE status

Statuses == OrderStatuses \cup OverrideTargets \cup {"ABSENT", "REFILED", "DELETED"}

Exists(o) == status[o] \notin {"ABSENT", "DELETED"}

Go(o, from, to) == status[o] \in from /\ status' = [status EXCEPT ![o] = to]

Born(o) == \E to \in {"RECEIVED", "ENQUIRY"} : Go(o, {"ABSENT"}, to)

(* The allow-list, by anyone. *)
MoveOn(o) ==
  \E role \in Roles, to \in OrderStatuses :
    IsTransitionAllowed(status[o], to, role) /\ status' = [status EXCEPT ![o] = to]

FlagRatingOrder(o) == Exists(o) /\ status' = [status EXCEPT ![o] = "RATING_ORDER"]

Correct(o) ==
  \/ Go(o, {"DELIVERED", "REFILED"}, "FAILED")
  \/ Go(o, {"FAILED", "REFILED"}, "DELIVERED")

(* Any further event of a re-filed order is the last CANCELLED one, and the office's. *)
Refile(o) == Go(o, {"REFILED"}, "CANCELLED")

Override(o) == Exists(o) /\ \E to \in OverrideTargets : status' = [status EXCEPT ![o] = to]

Delete(o) == Exists(o) /\ status' = [status EXCEPT ![o] = "DELETED"]

Step(o) ==
  \/ Born(o) \/ MoveOn(o) \/ FlagRatingOrder(o) \/ Correct(o) \/ Refile(o)
  \/ Override(o) \/ Delete(o)

(* One may begin to follow an order anywhere on its path. *)
Init == status \in [Orders -> Statuses]

Next == \E o \in Orders : Step(o)

Spec == Init /\ [][Next]_status
=============================================================================
