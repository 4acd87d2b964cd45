----------------------------- MODULE BagCustody -----------------------------
(***************************************************************************)
(* What the order's records promise about the bag of food itself: where    *)
(* they say it is, and how it may get from one place to another.  This is  *)
(* the abstract specification OrderLifecycle implements; it knows nothing  *)
(* of statuses, roles, riders or cash.                                     *)
(*                                                                         *)
(* A bag that went out with a rider is handed over, written off, put back  *)
(* on the counter by that rider, or comes back to its outlet, where        *)
(* somebody says so; once taken back it is never handed over again.  The   *)
(* two ways round the guided pipeline, the admin's free-text override and  *)
(* the decoy flag, take a bag off the books for good.                      *)
(***************************************************************************)
CONSTANT Orders

VARIABLE bag

Places == {"none", "counter", "out", "handedOver", "comingBack", "returned", "writtenOff", "offBook"}

Move(o, from, to) == bag[o] \in from /\ bag' = [bag EXCEPT ![o] = to]

Cook(o)     == Move(o, {"none"}, "counter")
Take(o)     == Move(o, {"counter"}, "out")
PutBack(o)  == Move(o, {"out"}, "counter")
HandOver(o) == Move(o, {"counter", "out", "comingBack"}, "handedOver")
TurnBack(o) == Move(o, {"out", "handedOver"}, "comingBack")
TakeBack(o) == Move(o, {"comingBack"}, "returned")
WriteOff(o) == Move(o, {"counter", "out"}, "writtenOff")
OffBook(o)  == Move(o, Places \ {"none"}, "offBook")
Forget(o)   == Move(o, Places \ {"none"}, "none")

Init == bag \in [Orders -> {"none", "counter"}]

Next ==
  \E o \in Orders :
    \/ Cook(o) \/ Take(o) \/ PutBack(o) \/ HandOver(o) \/ TurnBack(o)
    \/ TakeBack(o) \/ WriteOff(o) \/ OffBook(o) \/ Forget(o)

Spec == Init /\ [][Next]_bag
=============================================================================
