------------------------- MODULE MobileQueue_proofs -------------------------
(***************************************************************************)
(* Proofs about the rider's app and its server, for any orders, any number *)
(* of taps and any number of overlapping flushes.                          *)
(*                                                                         *)
(* That a pick-up, a delivery or a failure is recorded once asks nothing   *)
(* of the queue or the batches: a tap may be served any number of times.   *)
(* What stops a second record is the order, which is past the status the   *)
(* transaction would need and never comes back to it.  That a tap leaves   *)
(* the queue for a reason is about what removeFromQueue keeps, and that    *)
(* taps are sent in order is about every copy of the queue: each was taken *)
(* from it, and a tap is stored behind taps made before it.                *)
(***************************************************************************)
EXTENDS MobileQueue, FiniteSetTheorems, SequenceTheorems, TLAPS

(* Where the statuses the rider moves through stand. *)
PickedUp(o) == status[o] # "PREPARED"

Ended(o) == status[o] \notin {"PREPARED", "DISPATCHED"}

Shape ==
  /\ status \in [Orders -> OrderStatuses]
  /\ tap \in [Taps -> [kind : {"NONE"} \cup Kinds, of : Orders \cup {NoTap}, from : OrderStatuses \cup {"NONE"},
                     nth : Nat]]
  /\ recorded \in [Taps -> Nat]
  /\ shown \in [Orders -> OrderStatuses]

TapSound(t) ==
  /\ tap[t].kind = "NONE" => recorded[t] = 0
  /\ tap[t].kind # "NONE" => tap[t].of \in Orders
  /\ tap[t].kind = "CORRECT_ORDER" => tap[t].from \in Outcomes
  /\ tap[t].kind \in {"DISPATCH_ORDER", "DELIVER_ORDER", "FAIL_ORDER"} => recorded[t] <= 1
  /\ tap[t].kind = "DISPATCH_ORDER" /\ recorded[t] > 0 => PickedUp(tap[t].of)
  /\ tap[t].kind \in {"DELIVER_ORDER", "FAIL_ORDER"} /\ recorded[t] > 0 => Ended(tap[t].of)

(* Every tap is numbered by those before it, and they can be counted. *)
Counted ==
  /\ IsFiniteSet(Tapped)
  /\ \A t \in Tapped : tap[t].nth < Cardinality(Tapped)

IInv == Shape /\ Counted /\ \A t \in Taps : TapSound(t)

LEMMA InitSound == Init => IInv
<1> SUFFICES ASSUME Init PROVE IInv
  OBVIOUS
<1>1. /\ status \in [Orders -> OrderStatuses]
      /\ shown \in [Orders -> OrderStatuses]
  BY DEF Init, OrderStatuses, OpenStatuses, TerminalStatuses
<1>2. tap = [t \in Taps |-> Untapped] /\ recorded = [t \in Taps |-> 0]
  BY DEF Init
<1>3. Shape
  BY <1>1, <1>2 DEF Shape, Untapped
<1>4. \A t \in Taps : TapSound(t)
  BY <1>2 DEF TapSound, Untapped
<1>5. Counted
  <2>1. Tapped = {}
    BY <1>2 DEF Tapped, Untapped
  <2>. QED
    BY <2>1, FS_EmptySet DEF Counted
<1>. QED
  BY <1>3, <1>4, <1>5 DEF IInv

-----------------------------------------------------------------------------
(* An order never comes back to the shelf, nor from its end to the road.     *)

OrdersGoOn ==
  /\ status' \in [Orders -> OrderStatuses]
  /\ \A o \in Orders : (PickedUp(o) => PickedUp(o)') /\ (Ended(o) => Ended(o)')

LEMMA TapsStaySound ==
  ASSUME IInv, OrdersGoOn, UNCHANGED <<tap, recorded>>, shown' \in [Orders -> OrderStatuses]
  PROVE  IInv'
<1>1. Shape' /\ Counted'
  BY DEF IInv, Shape, Counted, Tapped, OrdersGoOn
<1>2. ASSUME NEW t \in Taps PROVE TapSound(t)'
  <2>1. PICK o : o = tap[t].of
    OBVIOUS
  <2>2. tap'[t] = tap[t] /\ recorded'[t] = recorded[t] /\ TapSound(t)
    BY DEF IInv
  <2>3. o \in Orders => (PickedUp(o) => PickedUp(o)') /\ (Ended(o) => Ended(o)')
    BY DEF OrdersGoOn
  <2>. QED
    BY <2>1, <2>2, <2>3 DEF TapSound, PickedUp, Ended
<1>. QED
  BY <1>1, <1>2 DEF IInv

(* What an agent's transaction needs to find, and what it leaves. *)
LEMMA MoveGoesOn ==
  ASSUME NEW t \in Taps, IInv, tap[t].kind # "NONE", Allowed(tap[t])
  PROVE  /\ Target(tap[t]) \in OrderStatuses
         /\ tap[t].kind = "DISPATCH_ORDER" =>
              status[tap[t].of] = "PREPARED" /\ Target(tap[t]) = "DISPATCHED"
         /\ tap[t].kind \in {"DELIVER_ORDER", "FAIL_ORDER"} =>
              status[tap[t].of] = "DISPATCHED" /\ Target(tap[t]) \in Outcomes
         /\ tap[t].kind = "CORRECT_ORDER" =>
              status[tap[t].of] \in Outcomes /\ Target(tap[t]) \in Outcomes
<1>1. tap[t].kind \in {"DISPATCH_ORDER", "DELIVER_ORDER", "FAIL_ORDER", "CORRECT_ORDER"}
  BY ConstantsAssumption DEF IInv, Shape
<1>2. /\ tap[t].kind = "DISPATCH_ORDER" => Target(tap[t]) = "DISPATCHED"
      /\ tap[t].kind = "DELIVER_ORDER" => Target(tap[t]) = "DELIVERED"
      /\ tap[t].kind = "FAIL_ORDER" => Target(tap[t]) = "FAILED"
      /\ tap[t].kind = "CORRECT_ORDER" => Target(tap[t]) \in Outcomes
  BY DEF Target, Outcomes
<1>3. tap[t].kind = "CORRECT_ORDER" => status[tap[t].of] \in Outcomes
  BY DEF Allowed, IInv, TapSound
<1>4. tap[t].kind # "CORRECT_ORDER" =>
        IsTransitionAllowed(status[tap[t].of], Target(tap[t]), "DELIVERY_AGENT")
  BY DEF Allowed
<1>5. \A from, to : IsTransitionAllowed(from, to, "DELIVERY_AGENT") =>
        /\ to = "DISPATCHED" => from = "PREPARED"
        /\ to \in Outcomes => from = "DISPATCHED"
  BY DEF IsTransitionAllowed, AdminEdges, KitchenEdges, SupportOutcomes, Outcomes
<1>. QED
  BY <1>1, <1>2, <1>3, <1>4, <1>5 DEF Outcomes, OrderStatuses, OpenStatuses, TerminalStatuses

LEMMA ServeKeeps ==
  ASSUME IInv, NEW f \in Flows, NEW t \in Taps, ServeMove(f, t), Allowed(tap[t])
  PROVE  IInv'
<1>1. PICK o : o = tap[t].of
  OBVIOUS
<1>2. PICK to : to = Target(tap[t])
  OBVIOUS
<1>3. /\ status' = [status EXCEPT ![o] = to]
      /\ recorded' = [recorded EXCEPT ![t] = @ + 1]
      /\ UNCHANGED <<shown, tap>> /\ tap[t].kind # "NONE"
  BY <1>1, <1>2 DEF ServeMove, Serving, phone
<1>4. /\ to \in OrderStatuses /\ o \in Orders
      /\ tap[t].kind = "DISPATCH_ORDER" => status[o] = "PREPARED" /\ to = "DISPATCHED"
      /\ tap[t].kind \in {"DELIVER_ORDER", "FAIL_ORDER"} => status[o] = "DISPATCHED" /\ to \in Outcomes
      /\ tap[t].kind = "CORRECT_ORDER" => status[o] \in Outcomes /\ to \in Outcomes
  BY <1>1, <1>2, <1>3, MoveGoesOn DEF IInv, TapSound
<1>5. tap[t].kind \in {"DISPATCH_ORDER", "DELIVER_ORDER", "FAIL_ORDER", "CORRECT_ORDER"}
  BY <1>3, ConstantsAssumption DEF IInv, Shape
<1>6. status'[o] = to /\ \A p \in Orders : p # o => status'[p] = status[p]
  BY <1>3, <1>4 DEF IInv, Shape
<1>7. \A p \in Orders : (PickedUp(p) => PickedUp(p)') /\ (Ended(p) => Ended(p)')
  BY <1>4, <1>5, <1>6 DEF PickedUp, Ended, Outcomes
<1>8. Shape' /\ Counted'
  BY <1>3, <1>4 DEF IInv, Shape, Counted, Tapped
<1>9. ASSUME NEW u \in Taps PROVE TapSound(u)'
  <2>1. tap'[u] = tap[u] /\ TapSound(u) /\ recorded[u] \in Nat
    BY <1>3 DEF IInv, Shape
  <2>2. PICK p : p = tap[u].of
    OBVIOUS
  <2>3. p \in Orders => (PickedUp(p) => PickedUp(p)') /\ (Ended(p) => Ended(p)')
    BY <1>7
  <2>4. CASE u # t
    <3>1. recorded'[u] = recorded[u]
      BY <1>3, <2>4 DEF IInv, Shape
    <3>. QED
      BY <2>1, <2>2, <2>3, <3>1 DEF TapSound, PickedUp, Ended
  <2>5. CASE u = t
    <3>1. recorded'[t] = recorded[t] + 1
      BY <1>3 DEF IInv, Shape
    <3>2. tap[t].kind # "CORRECT_ORDER" => recorded[t] = 0
      BY <1>1, <1>4, <1>5, <2>1, <2>5 DEF TapSound, PickedUp, Ended, Outcomes
    <3>3. tap[t].kind = "DISPATCH_ORDER" => PickedUp(o)'
      BY <1>4, <1>6 DEF PickedUp
    <3>4. tap[t].kind \in {"DELIVER_ORDER", "FAIL_ORDER"} => Ended(o)'
      BY <1>4, <1>6 DEF Ended, Outcomes
    <3>5. tap'[t] = tap[t] /\ tap[t].of = o
      BY <1>1, <2>1, <2>5
    <3>. QED
      BY <1>3, <1>4, <2>1, <2>5, <3>1, <3>2, <3>3, <3>4, <3>5 DEF TapSound, PickedUp, Ended
  <2>. QED
    BY <2>4, <2>5
<1>. QED
  BY <1>8, <1>9 DEF IInv

LEMMA TapKeeps ==
  ASSUME IInv, NEW t \in Taps, NEW o \in Orders, NEW kind \in Kinds, Tap(t, o, kind)
  PROVE  IInv'
<1>1. PICK m : m = [kind |-> kind, of |-> o, from |-> shown[o], nth |-> Cardinality(Tapped)]
  OBVIOUS
<1>2. /\ tap[t].kind = "NONE" /\ Offered(kind, shown[o])
      /\ tap' = [tap EXCEPT ![t] = m] /\ shown' = [shown EXCEPT ![o] = Target(m)]
      /\ UNCHANGED <<status, recorded>>
  BY <1>1 DEF Tap, server
<1>3. m.kind = kind /\ m.of = o /\ m.from = shown[o] /\ shown[o] \in OrderStatuses
  BY <1>1 DEF IInv, Shape
<1>4. Target(m) \in OrderStatuses
  BY <1>3, ConstantsAssumption DEF Target, OrderStatuses, OpenStatuses, TerminalStatuses
<1>5. Shape' /\ Counted'
  <2>1. IsFiniteSet(Tapped) /\ Cardinality(Tapped) \in Nat
    BY FS_CardinalityType DEF IInv, Counted
  <2>2. m.kind # "NONE" /\ t \notin Tapped /\ tap'[t] = m /\ \A u \in Taps \ {t} : tap'[u] = tap[u]
    BY <1>2, <1>3, ConstantsAssumption DEF Tapped, IInv, Shape
  <2>3. Tapped' = Tapped \cup {t}
    BY <2>2 DEF Tapped
  <2>4. IsFiniteSet(Tapped') /\ Cardinality(Tapped') = Cardinality(Tapped) + 1
    BY <2>1, <2>2, <2>3, FS_AddElement
  <2>5. Shape'
    BY <1>1, <1>2, <1>3, <1>4, <2>1 DEF IInv, Shape
  <2>6. ASSUME NEW u \in Tapped' PROVE tap'[u].nth < Cardinality(Tapped')
    <3>1. m.nth = Cardinality(Tapped)
      BY <1>1
    <3>2. u \in Taps /\ tap[u].nth \in Nat /\ (u \in Tapped => tap[u].nth < Cardinality(Tapped))
      BY DEF IInv, Shape, Counted, Tapped
    <3>. QED
      BY <2>1, <2>2, <2>3, <2>4, <3>1, <3>2
  <2>. QED
    BY <2>4, <2>5, <2>6 DEF Counted
<1>6. ASSUME NEW u \in Taps PROVE TapSound(u)'
  <2>1. TapSound(u) /\ recorded'[u] = recorded[u]
    BY <1>2 DEF IInv
  <2>2. CASE u # t
    <3>1. tap'[u] = tap[u]
      BY <1>2, <2>2 DEF IInv, Shape
    <3>. QED
      BY <1>2, <2>1, <3>1 DEF TapSound, PickedUp, Ended
  <2>3. CASE u = t
    <3>1. tap'[u] = m /\ recorded[u] = 0
      BY <1>2, <2>1, <2>3 DEF IInv, Shape, TapSound
    <3>2. kind = "CORRECT_ORDER" => shown[o] \in Outcomes
      BY <1>2 DEF Offered
    <3>3. kind # "NONE"
      BY ConstantsAssumption
    <3>. QED
      BY <1>3, <2>1, <3>1, <3>2, <3>3 DEF TapSound
  <2>. QED
    BY <2>2, <2>3
<1>. QED
  BY <1>5, <1>6 DEF IInv

(* What others do to an order. *)
LEMMA OthersKeep ==
  ASSUME IInv, NEW o \in Orders, OrderStep(o)
  PROVE  IInv'
<1>1. UNCHANGED <<tap, recorded>>
  BY DEF OrderStep, Refresh, OtherTakes, OfficeCancels, CloseBooks, server, phone
<1>2. shown' \in [Orders -> OrderStatuses]
  BY DEF OrderStep, Refresh, OtherTakes, OfficeCancels, CloseBooks, phone, IInv, Shape
<1>3. OrdersGoOn
  <2>1. CASE Refresh(o) \/ CloseBooks(o)
    BY <2>1 DEF Refresh, CloseBooks, server, OrdersGoOn, PickedUp, Ended, IInv, Shape
  <2>2. CASE OtherTakes(o)
    BY <2>2 DEF OtherTakes, OrdersGoOn, PickedUp, Ended, IInv, Shape, OrderStatuses, OpenStatuses
  <2>3. CASE OfficeCancels(o)
    BY <2>3 DEF OfficeCancels, OrdersGoOn, PickedUp, Ended, IInv, Shape, OrderStatuses, TerminalStatuses
  <2>. QED
    BY <2>1, <2>2, <2>3 DEF OrderStep
<1>. QED
  BY <1>1, <1>2, <1>3, TapsStaySound

LEMMA StepSound == IInv /\ [Next]_vars => IInv'
<1> SUFFICES ASSUME IInv, [Next]_vars PROVE IInv'
  OBVIOUS
<1>1. CASE UNCHANGED <<status, tap, recorded, shown>>
  BY <1>1, TapsStaySound DEF OrdersGoOn, PickedUp, Ended, IInv, Shape
<1>2. ASSUME NEW t \in Taps, NEW o \in Orders, NEW kind \in Kinds, Tap(t, o, kind) PROVE IInv'
  BY <1>2, TapKeeps
<1>3. ASSUME Enqueue \/ Restart \/ \E f \in Flows : FlowStep(f) PROVE IInv'
  BY <1>1, <1>3
  DEF Enqueue, Restart, FlowStep, Flush, Unreached, LoseAnswer, Answer, Remove, server, phone
<1>4. ASSUME NEW f \in Flows, NEW t \in Taps, Serve(f, t) \/ Falter(f, t) PROVE IInv'
  <2>1. CASE ServeMove(f, t) /\ Allowed(tap[t])
    BY <2>1, ServeKeeps
  <2>2. CASE ~(ServeMove(f, t) /\ Allowed(tap[t]))
    BY <1>1, <1>4, <2>2 DEF Serve, ServeRead, ServeMove, Falter, server, phone
  <2>. QED
    BY <2>1, <2>2
<1>5. ASSUME NEW o \in Orders, OrderStep(o) PROVE IInv'
  BY <1>5, OthersKeep
<1>6. CASE UNCHANGED vars
  BY <1>1, <1>6 DEF vars
<1>. QED
  BY <1>2, <1>3, <1>4, <1>5, <1>6 DEF Next

(* The mutation endpoint and transitionOrder: however often a pick-up, a      *)
(* delivery or a failure is sent, and however two flushes overlap, it is      *)
(* recorded on the order at most once.                                        *)
THEOREM RecordedAtMostOnce == Spec => []DeliveryRecordedOnce
<1>1. Init => IInv
  BY InitSound
<1>2. IInv /\ [Next]_vars => IInv'
  BY StepSound
<1>3. IInv => DeliveryRecordedOnce
  <2> SUFFICES ASSUME IInv, NEW t \in Taps, tap[t].kind # "CORRECT_ORDER" PROVE recorded[t] <= 1
    BY DEF DeliveryRecordedOnce
  <2>1. tap[t].kind \in {"NONE", "DISPATCH_ORDER", "DELIVER_ORDER", "FAIL_ORDER"}
    BY ConstantsAssumption DEF IInv, Shape
  <2>. QED
    BY <2>1 DEF IInv, TapSound
<1>. QED
  BY <1>1, <1>2, <1>3, PTL DEF Spec

-----------------------------------------------------------------------------
(* removeFromQueue: what it keeps, and in which order. *)

LEMMA KeptIsFinite ==
  ASSUME NEW list \in Seq(Taps), NEW dropped
  PROVE  LET kept == Stay(list, dropped)
         IN  /\ kept \in SUBSET (1..Len(list)) /\ IsFiniteSet(kept) /\ Cardinality(kept) \in Nat
             /\ \A i \in kept : IsFiniteSet({j \in kept : j <= i}) /\ UpTo(kept, i) \in 1..Cardinality(kept)
<1>. DEFINE kept == Stay(list, dropped)
<1>1. kept \in SUBSET (1..Len(list)) /\ Len(list) \in Nat
  BY LenProperties DEF Stay
<1>2. IsFiniteSet(kept) /\ Cardinality(kept) \in Nat
  <2>1. IsFiniteSet(1..Len(list))
    BY <1>1, FS_Interval
  <2>2. IsFiniteSet(kept)
    BY <1>1, <2>1, FS_Subset
  <2>. QED
    BY <2>2, FS_CardinalityType
<1>. HIDE DEF kept
<1>3. ASSUME NEW i \in kept
      PROVE  IsFiniteSet({j \in kept : j <= i}) /\ UpTo(kept, i) \in 1..Cardinality(kept)
  <2>. DEFINE upTo == {j \in kept : j <= i}
  <2>1. upTo \in SUBSET kept /\ i \in upTo
    BY <1>1
  <2>2. IsFiniteSet(upTo) /\ Cardinality(upTo) \in Nat /\ Cardinality(upTo) # 0
        /\ Cardinality(upTo) <= Cardinality(kept)
    BY <1>2, <2>1, FS_Subset, FS_CardinalityType, FS_EmptySet
  <2>. QED
    BY <1>2, <2>2 DEF UpTo
<1>. QED
  BY <1>1, <1>2, <1>3 DEF kept

(* Of two that stay the earlier has the smaller rank. *)
LEMMA RanksRise ==
  ASSUME NEW list \in Seq(Taps), NEW dropped,
         NEW i \in Stay(list, dropped), NEW j \in Stay(list, dropped), i < j
  PROVE  UpTo(Stay(list, dropped), i) < UpTo(Stay(list, dropped), j)
<1>. DEFINE kept == Stay(list, dropped)
            toI == {k \in kept : k <= i}
            toJ == {k \in kept : k <= j}
<1>1. kept \in SUBSET Nat /\ i \in Nat /\ j \in Nat
  BY KeptIsFinite
<1>2. IsFiniteSet(toI) /\ IsFiniteSet(toJ)
  BY KeptIsFinite
<1>. HIDE DEF kept
<1>3. toI \in SUBSET toJ /\ j \in toJ /\ j \notin toI
  BY <1>1 DEF kept
<1>4. Cardinality(toI) <= Cardinality(toJ) /\ Cardinality(toI) # Cardinality(toJ)
  BY <1>2, <1>3, FS_Subset
<1>5. Cardinality(toI) \in Nat /\ Cardinality(toJ) \in Nat
  BY <1>2, FS_CardinalityType
<1>. QED
  BY <1>4, <1>5 DEF UpTo, kept

(* Every rank is that of one that stays, and of one only. *)
LEMMA RanksAreTaken ==
  ASSUME NEW list \in Seq(Taps), NEW dropped
  PROVE  LET kept == Stay(list, dropped)
         IN  \A k \in 1..Cardinality(kept) :
               \E i \in kept : UpTo(kept, i) = k /\ \A j \in kept : UpTo(kept, j) = k => j = i
<1>. DEFINE kept == Stay(list, dropped)
            n == Cardinality(kept)
            f == [i \in kept |-> UpTo(kept, i)]
<1>1. kept \in SUBSET Nat /\ n \in Nat /\ \A i \in kept : UpTo(kept, i) \in 1..n
  <2>1. kept \in SUBSET (1..Len(list)) /\ n \in Nat /\ \A i \in kept : UpTo(kept, i) \in 1..n
    BY KeptIsFinite
  <2>. HIDE DEF kept, n
  <2>. QED
    BY <2>1
<1>2. ASSUME NEW i \in kept, NEW j \in kept, i # j PROVE UpTo(kept, i) # UpTo(kept, j)
  <2>1. i < j \/ j < i
    BY <1>1, <1>2
  <2>2. UpTo(kept, i) < UpTo(kept, j) \/ UpTo(kept, j) < UpTo(kept, i)
    BY <2>1, RanksRise
  <2>. QED
    BY <1>1, <2>2
<1>. HIDE DEF kept
<1>3. f \in [kept -> 1..n]
  BY <1>1
<1>4. \A i, j \in kept : f[i] = f[j] => i = j
  BY <1>2
<1>5. f \in Injection(kept, 1..n)
  BY <1>3, <1>4, Zenon DEF Injection, IsInjective
<1>6. IsFiniteSet(1..n) /\ Cardinality(1..n) = n
  BY <1>1, FS_Interval
<1>7. f \in Surjection(kept, 1..n)
  BY <1>5, <1>6, FS_Injection
<1>8. \A k \in 1..n : \E i \in kept : f[i] = k
  BY <1>7 DEF Surjection
<1>. QED
  BY <1>2, <1>8 DEF kept

(* What is written back is a queue again, and holds what was in it before and *)
(* is not dropped, and nothing else.                                         *)
LEMMA WithoutIs ==
  ASSUME NEW list \in Seq(Taps), NEW dropped
  PROVE  /\ Without(list, dropped) \in Seq(Taps)
         /\ \A t \in Taps : Holds(Without(list, dropped), t) <=> Holds(list, t) /\ t \notin dropped
<1>. DEFINE kept == Stay(list, dropped)
            n == Cardinality(kept)
            at(k) == CHOOSE i \in kept : UpTo(kept, i) = k
<1>1. kept \in SUBSET (1..Len(list)) /\ n \in Nat /\ \A i \in kept : UpTo(kept, i) \in 1..n
  BY KeptIsFinite
<1>2. \A k \in 1..n : at(k) \in kept /\ \A j \in kept : UpTo(kept, j) = k => j = at(k)
  BY RanksAreTaken
<1>3. Without(list, dropped) = [k \in 1..n |-> list[at(k)]]
  BY DEF Without
<1>4. \A i \in kept : list[i] \in Taps /\ list[i] \notin dropped
  BY <1>1, ElementOfSeq DEF Stay
<1>5. \A i \in 1..Len(list) : list[i] \notin dropped => i \in kept
  BY DEF Stay
<1>. HIDE DEF kept, n, at
<1>6. Without(list, dropped) \in Seq(Taps) /\ Len(Without(list, dropped)) = n
  <2>1. \A k \in 1..n : list[at(k)] \in Taps
    BY <1>2, <1>4
  <2>2. Without(list, dropped) \in [1..n -> Taps]
    BY <1>3, <2>1
  <2>. QED
    BY <1>1, <2>2
<1>7. ASSUME NEW t \in Taps, Holds(Without(list, dropped), t) PROVE Holds(list, t) /\ t \notin dropped
  <2>1. PICK k \in 1..n : list[at(k)] = t
    BY <1>3, <1>6, <1>7 DEF Holds
  <2>. QED
    BY <1>1, <1>2, <1>4, <2>1 DEF Holds
<1>8. ASSUME NEW t \in Taps, Holds(list, t), t \notin dropped PROVE Holds(Without(list, dropped), t)
  <2>1. PICK i \in kept : list[i] = t
    BY <1>5, <1>8 DEF Holds
  <2>2. UpTo(kept, i) \in 1..n /\ at(UpTo(kept, i)) = i
    BY <1>1, <1>2
  <2>. QED
    BY <1>3, <1>6, <2>1, <2>2 DEF Holds
<1>. QED
  BY <1>6, <1>7, <1>8

(* No two taps change places. *)
LEMMA WithoutKeepsOrder ==
  ASSUME NEW list \in Seq(Taps), NEW dropped,
         NEW k \in 1..Len(Without(list, dropped)), NEW l \in 1..Len(Without(list, dropped)), k < l
  PROVE  \E i, j \in 1..Len(list) :
           i < j /\ Without(list, dropped)[k] = list[i] /\ Without(list, dropped)[l] = list[j]
<1>. DEFINE kept == Stay(list, dropped)
            n == Cardinality(kept)
            at(m) == CHOOSE i \in kept : UpTo(kept, i) = m
<1>1. kept \in SUBSET (1..Len(list)) /\ n \in Nat /\ kept \in SUBSET Nat
  BY KeptIsFinite
<1>2. \A m \in 1..n : at(m) \in kept /\ UpTo(kept, at(m)) = m
  BY RanksAreTaken
<1>3. Without(list, dropped) = [m \in 1..n |-> list[at(m)]]
  BY DEF Without
<1>4. Len(Without(list, dropped)) = n
  <2>1. DOMAIN Without(list, dropped) = 1..n
    BY <1>3
  <2>2. Without(list, dropped) \in Seq(Taps)
    BY WithoutIs
  <2>. HIDE DEF n
  <2>. QED
    BY <1>1, <2>1, <2>2, LenProperties
<1>5. ASSUME NEW i \in kept, NEW j \in kept, i < j PROVE UpTo(kept, i) < UpTo(kept, j)
  BY <1>5, RanksRise
<1>. HIDE DEF kept, n, at
<1>6. at(k) \in kept /\ at(l) \in kept /\ UpTo(kept, at(k)) = k /\ UpTo(kept, at(l)) = l
  BY <1>2, <1>4
<1>7. at(k) < at(l)
  <2>1. at(k) # at(l) /\ ~(UpTo(kept, at(l)) < UpTo(kept, at(k)))
    BY <1>6
  <2>2. at(k) \in Nat /\ at(l) \in Nat
    BY <1>1, <1>6
  <2>. QED
    BY <1>5, <1>6, <2>1, <2>2
<1>. QED
  BY <1>1, <1>3, <1>4, <1>6, <1>7

-----------------------------------------------------------------------------
(* The stored queue and the copies of it the flows hold are lists of taps. *)

FlowState ==
  [step : {"IDLE", "ENQUEUE", "FLUSH", "SENT", "REMOVE"}, new : Taps \cup {NoTap},
   snap : Seq(Taps), batch : Seq(Taps), at : Nat, read : BOOLEAN, result : [Taps -> Results]]

QInv ==
  /\ queue \in Seq(Taps)
  /\ flow \in [Flows -> FlowState]
  /\ flow[TapFlow].step = "ENQUEUE" => flow[TapFlow].new \in Taps

LEMMA IdleIs == Idle \in FlowState /\ Idle.step = "IDLE"
BY DEF Idle, FlowState, Results

LEMMA QInit == Init => QInv
BY IdleIs DEF Init, QInv, Flows

(* One flow moves on. *)
LEMMA FlowMoves ==
  ASSUME QInv, NEW f \in Flows, NEW w \in FlowState, flow' = [flow EXCEPT ![f] = w],
         queue' \in Seq(Taps), w.step = "ENQUEUE" => w.new \in Taps
  PROVE  QInv'
BY DEF QInv, Flows

LEMMA QTap ==
  ASSUME QInv, NEW t \in Taps, NEW o \in Orders, NEW kind \in Kinds, Tap(t, o, kind)
  PROVE  QInv' /\ queue' = queue
<1>. DEFINE w == [Idle EXCEPT !.step = "ENQUEUE", !.new = t, !.snap = queue]
<1>1. flow' = [flow EXCEPT ![TapFlow] = w] /\ queue' = queue
  BY DEF Tap
<1>2. w \in FlowState /\ w.new \in Taps
  BY IdleIs DEF QInv, FlowState
<1>. HIDE DEF w
<1>. QED
  BY <1>1, <1>2, FlowMoves DEF QInv, Flows

LEMMA QEnqueue ==
  ASSUME QInv, Enqueue
  PROVE  QInv'
<1>. DEFINE w == flow[TapFlow]
            v == [Idle EXCEPT !.step = "FLUSH"]
<1>1. /\ w.step = "ENQUEUE" /\ queue' = Append(w.snap, w.new)
      /\ flow' = [flow EXCEPT ![TapFlow] = v]
  BY DEF Enqueue
<1>2. w.snap \in Seq(Taps) /\ w.new \in Taps
  BY <1>1 DEF QInv, Flows, FlowState
<1>3. v \in FlowState /\ v.step = "FLUSH"
  BY IdleIs DEF FlowState
<1>. HIDE DEF w, v
<1>4. queue' \in Seq(Taps)
  BY <1>1, <1>2, AppendProperties
<1>. QED
  BY <1>1, <1>3, <1>4, FlowMoves DEF Flows

LEMMA QRemove ==
  ASSUME QInv, NEW f \in Flows, Remove(f)
  PROVE  QInv'
<1>1. /\ flow[f].step = "REMOVE" /\ queue' = Without(flow[f].snap, Settled(flow[f]))
      /\ flow' = [flow EXCEPT ![f] = Idle]
  BY DEF Remove
<1>2. flow[f].snap \in Seq(Taps)
  BY DEF QInv, FlowState
<1>3. queue' \in Seq(Taps)
  BY <1>1, <1>2, WithoutIs
<1>. QED
  BY <1>1, <1>3, IdleIs, FlowMoves

(* Whatever else a flow does leaves the stored queue alone. *)
LEMMA QFlowStep ==
  ASSUME QInv, NEW f \in Flows, Flush(f) \/ Unreached(f) \/ LoseAnswer(f) \/ Answer(f)
  PROVE  QInv' /\ queue' = queue
<1>. DEFINE sent == [Idle EXCEPT !.step = "SENT", !.batch = queue]
            back == [flow[f] EXCEPT !.step = "REMOVE", !.snap = queue]
<1>1. sent \in FlowState /\ sent.step = "SENT" /\ back \in FlowState /\ back.step = "REMOVE"
  BY IdleIs DEF QInv, FlowState
<1>2. queue' = queue /\ \E w \in {Idle, sent, back} : flow' = [flow EXCEPT ![f] = w]
  BY DEF Flush, Unreached, LoseAnswer, Answer, phone
<1>. HIDE DEF sent, back
<1>3. PICK w \in {Idle, sent, back} : flow' = [flow EXCEPT ![f] = w]
  BY <1>2
<1>4. w \in FlowState /\ w.step # "ENQUEUE"
  BY <1>1, IdleIs
<1>. QED
  BY <1>2, <1>3, <1>4, FlowMoves DEF QInv

LEMMA QServe ==
  ASSUME QInv, NEW f \in Flows, NEW t \in Taps, Serve(f, t) \/ Falter(f, t)
  PROVE  QInv' /\ queue' = queue
<1>. DEFINE answered(r) == [flow[f] EXCEPT !.result[Item(f)] = r, !.at = @ + 1, !.read = FALSE]
            look == [flow[f] EXCEPT !.read = TRUE]
<1>1. flow[f] \in FlowState /\ flow[f].step = "SENT" /\ Item(f) = t /\ queue' = queue
  BY DEF QInv, Serve, ServeRead, ServeMove, Falter, Serving, phone
<1>2. look \in FlowState /\ look.step = "SENT"
  BY <1>1 DEF FlowState
<1>3. ASSUME NEW r \in Results PROVE answered(r) \in FlowState /\ answered(r).step = "SENT"
  <2>1. answered(r) = [flow[f] EXCEPT !.result[t] = r, !.at = @ + 1, !.read = FALSE]
    BY <1>1
  <2>2. [flow[f].result EXCEPT ![t] = r] \in [Taps -> Results] /\ flow[f].at + 1 \in Nat
    BY <1>1 DEF FlowState
  <2>. QED
    BY <1>1, <2>1, <2>2 DEF FlowState
<1>4. flow' = [flow EXCEPT ![f] = look] \/ \E r \in Results : flow' = [flow EXCEPT ![f] = answered(r)]
  <2>. HIDE DEF answered, look
  <2>1. ASSUME NEW r \in Results, Answered(f, r) PROVE flow' = [flow EXCEPT ![f] = answered(r)]
    BY <2>1 DEF Answered, answered, QInv
  <2>2. Foreseen(tap[t]) \in Results
    BY DEF Foreseen, Results
  <2>3. {"APPLIED", "REFUSED", "RETRY"} \subseteq Results
    BY DEF Results
  <2>4. CASE ServeRead(f, t)
    <3>1. Foreseen(tap[t]) = "NONE" => flow' = [flow EXCEPT ![f] = look]
      BY <2>4 DEF ServeRead, look
    <3>2. Foreseen(tap[t]) # "NONE" => Answered(f, Foreseen(tap[t]))
      BY <2>4 DEF ServeRead
    <3>. QED
      BY <2>1, <2>2, <3>1, <3>2
  <2>5. CASE ServeMove(f, t)
    <3>1. Answered(f, "APPLIED") \/ Answered(f, "REFUSED")
      BY <2>5 DEF ServeMove
    <3>. QED
      BY <2>1, <2>3, <3>1
  <2>6. CASE Falter(f, t)
    BY <2>1, <2>3, <2>6 DEF Falter
  <2>. QED
    BY <2>4, <2>5, <2>6 DEF Serve
<1>. HIDE DEF look, answered
<1>. QED
  BY <1>1, <1>2, <1>3, <1>4, FlowMoves DEF QInv

LEMMA QNext ==
  ASSUME QInv, [Next]_vars
  PROVE  QInv'
<1>1. CASE UNCHANGED <<queue, flow>>
  BY <1>1 DEF QInv
<1>2. ASSUME NEW t \in Taps, NEW o \in Orders, NEW kind \in Kinds, Tap(t, o, kind) PROVE QInv'
  BY <1>2, QTap
<1>3. CASE Enqueue
  BY <1>3, QEnqueue
<1>4. ASSUME NEW f \in Flows, FlowStep(f) PROVE QInv'
  BY <1>4, QFlowStep, QRemove DEF FlowStep
<1>5. ASSUME NEW f \in Flows, NEW t \in Taps, Serve(f, t) \/ Falter(f, t) PROVE QInv'
  BY <1>5, QServe
<1>6. CASE Restart
  BY <1>6, IdleIs DEF Restart, phone, QInv, Flows
<1>7. ASSUME NEW o \in Orders, OrderStep(o) PROVE UNCHANGED <<queue, flow>>
  BY <1>7 DEF OrderStep, Refresh, OtherTakes, OfficeCancels, CloseBooks, server, phone
<1>8. CASE UNCHANGED vars
  BY <1>1, <1>8 DEF vars
<1>. QED
  BY <1>1, <1>2, <1>3, <1>4, <1>5, <1>6, <1>7, <1>8 DEF Next

-----------------------------------------------------------------------------
(* The order of the queue, and of every copy of it.                          *)

(* The copies of the queue a flow holds are kept, or are taken from it now. *)
Recopied(f) ==
  /\ flow'[f].snap \in {<< >>, queue, flow[f].snap}
  /\ flow'[f].batch \in {<< >>, queue, flow[f].batch}

LEMMA CopiesAreOfQueue == QInv /\ Next => \A g \in Flows : Recopied(g)
<1> SUFFICES ASSUME QInv, Next, NEW g \in Flows PROVE Recopied(g)
  OBVIOUS
<1>1. flow[g] \in FlowState /\ TapFlow \in Flows
  BY DEF QInv, Flows
<1>2. ASSUME NEW f \in Flows, NEW w, flow' = [flow EXCEPT ![f] = w],
             w.snap \in {<< >>, queue, flow[f].snap}, w.batch \in {<< >>, queue, flow[f].batch}
      PROVE  Recopied(g)
  BY <1>2 DEF QInv, Recopied
<1>3. Idle.snap = << >> /\ Idle.batch = << >>
  BY DEF Idle
<1>4. ASSUME NEW t \in Taps, NEW o \in Orders, NEW kind \in Kinds, Tap(t, o, kind) PROVE Recopied(g)
  <2>. DEFINE w == [Idle EXCEPT !.step = "ENQUEUE", !.new = t, !.snap = queue]
  <2>1. flow' = [flow EXCEPT ![TapFlow] = w]
    BY <1>4 DEF Tap
  <2>2. w.snap = queue /\ w.batch = << >>
    BY DEF Idle
  <2>. HIDE DEF w
  <2>. QED
    BY <1>1, <1>2, <2>1, <2>2
<1>5. CASE Enqueue
  <2>. DEFINE w == [Idle EXCEPT !.step = "FLUSH"]
  <2>1. flow' = [flow EXCEPT ![TapFlow] = w]
    BY <1>5 DEF Enqueue
  <2>2. w.snap = << >> /\ w.batch = << >>
    BY DEF Idle
  <2>. HIDE DEF w
  <2>. QED
    BY <1>1, <1>2, <2>1, <2>2
<1>6. ASSUME NEW f \in Flows, FlowStep(f) PROVE Recopied(g)
  <2>. DEFINE sent == [Idle EXCEPT !.step = "SENT", !.batch = queue]
              back == [flow[f] EXCEPT !.step = "REMOVE", !.snap = queue]
  <2>1. \E w \in {Idle, sent, back} : flow' = [flow EXCEPT ![f] = w]
    BY <1>6 DEF FlowStep, Flush, Unreached, LoseAnswer, Answer, Remove
  <2>2. /\ sent.snap = << >> /\ sent.batch = queue
        /\ back.snap = queue /\ back.batch = flow[f].batch
    <3>1. flow[f] \in FlowState
      BY DEF QInv
    <3>. QED
      BY <3>1 DEF Idle, FlowState
  <2>. HIDE DEF sent, back
  <2>. QED
    BY <1>2, <1>3, <2>1, <2>2
<1>7. ASSUME NEW f \in Flows, NEW t \in Taps, Serve(f, t) \/ Falter(f, t) PROVE Recopied(g)
  <2>1. \/ \E r : Answered(f, r)
        \/ flow' = [flow EXCEPT ![f].read = TRUE]
    BY <1>7 DEF Serve, ServeRead, ServeMove, Falter
  <2>2. flow[f] \in FlowState
    BY DEF QInv
  <2>3. CASE flow' = [flow EXCEPT ![f].read = TRUE]
    <3>. DEFINE w == [flow[f] EXCEPT !.read = TRUE]
    <3>1. flow' = [flow EXCEPT ![f] = w] /\ w.snap = flow[f].snap /\ w.batch = flow[f].batch
      BY <2>2, <2>3 DEF FlowState, QInv
    <3>. HIDE DEF w
    <3>. QED
      BY <1>2, <3>1
  <2>4. ASSUME NEW r, Answered(f, r) PROVE Recopied(g)
    <3>. DEFINE w == [flow[f] EXCEPT !.result[Item(f)] = r, !.at = @ + 1, !.read = FALSE]
    <3>1. flow' = [flow EXCEPT ![f] = w]
      BY <2>4 DEF Answered, QInv
    <3>2. w.snap = flow[f].snap /\ w.batch = flow[f].batch
      BY <2>2 DEF FlowState
    <3>. HIDE DEF w
    <3>. QED
      BY <1>2, <3>1, <3>2
  <2>. QED
    BY <2>1, <2>3, <2>4
<1>8. CASE Restart
  BY <1>3, <1>8 DEF Restart, Recopied
<1>9. ASSUME NEW o \in Orders, OrderStep(o) PROVE Recopied(g)
  BY <1>9 DEF OrderStep, Refresh, OtherTakes, OfficeCancels, CloseBooks, Recopied
<1>. QED
  BY <1>4, <1>5, <1>6, <1>7, <1>8, <1>9 DEF Next

Ordered(list) == InTapOrder(list) /\ \A i \in 1..Len(list) : list[i] \in Tapped

(* The tap about to be stored is newer than all it will be stored behind. *)
NewIsLast(w) ==
  /\ w.new \in Tapped
  /\ \A i \in 1..Len(w.snap) : tap[w.snap[i]].nth < tap[w.new].nth

OInv ==
  /\ Ordered(queue)
  /\ \A f \in Flows : Ordered(flow[f].snap) /\ Ordered(flow[f].batch)
  /\ flow[TapFlow].step = "ENQUEUE" => NewIsLast(flow[TapFlow])

AllInv == IInv /\ QInv /\ OInv

LEMMA NothingIsOrdered == Ordered(<< >>)
BY DEF Ordered, InTapOrder

LEMMA OInit == Init => OInv
BY NothingIsOrdered, IdleIs DEF Init, OInv, Idle, Flows

(* Taking taps out of a list, or the newest one onto its end, keeps its order. *)
LEMMA WithoutOrdered ==
  ASSUME NEW list \in Seq(Taps), NEW dropped, Ordered(list)
  PROVE  Ordered(Without(list, dropped))
<1>. DEFINE left == Without(list, dropped)
<1>1. ASSUME NEW k \in 1..Len(left), NEW l \in 1..Len(left), k < l
      PROVE  tap[left[k]].nth < tap[left[l]].nth
  <2>1. PICK i, j \in 1..Len(list) : i < j /\ left[k] = list[i] /\ left[l] = list[j]
    BY <1>1, WithoutKeepsOrder
  <2>. QED
    BY <2>1 DEF Ordered, InTapOrder
<1>2. ASSUME NEW k \in 1..Len(left) PROVE left[k] \in Tapped
  <2>1. left \in Seq(Taps) /\ \A t \in Taps : Holds(left, t) => Holds(list, t)
    BY WithoutIs
  <2>. HIDE DEF left
  <2>2. left[k] \in Taps
    BY <2>1, ElementOfSeq
  <2>3. Holds(list, left[k])
    BY <2>1, <2>2 DEF Holds
  <2>. QED
    BY <2>3 DEF Holds, Ordered
<1>. QED
  BY <1>1, <1>2 DEF Ordered, InTapOrder

LEMMA AppendOrdered ==
  ASSUME NEW list \in Seq(Taps), NEW t \in Tapped, Ordered(list),
         \A i \in 1..Len(list) : tap[list[i]].nth < tap[t].nth
  PROVE  Ordered(Append(list, t))
<1>1. t \in Taps
  BY DEF Tapped
<1>2. /\ Len(Append(list, t)) = Len(list) + 1 /\ Len(list) \in Nat
      /\ \A i \in 1..Len(list) : Append(list, t)[i] = list[i]
      /\ Append(list, t)[Len(list) + 1] = t
  BY <1>1, AppendProperties, LenProperties
<1>. QED
  BY <1>2 DEF Ordered, InTapOrder

(* While nobody taps, order is a matter of the lists alone. *)
LEMMA ListsStayOrdered ==
  ASSUME AllInv, Next, tap' = tap,
         NEW q, queue' = q, Ordered(q),
         flow'[TapFlow].step = "ENQUEUE" => flow'[TapFlow] = flow[TapFlow]
  PROVE  OInv'
<1>1. Ordered(queue)'
  BY DEF Ordered, InTapOrder, Tapped
<1>2. ASSUME NEW f \in Flows PROVE Ordered(flow[f].snap)' /\ Ordered(flow[f].batch)'
  <2>1. Recopied(f) /\ Ordered(queue) /\ Ordered(flow[f].snap) /\ Ordered(flow[f].batch)
    BY CopiesAreOfQueue DEF AllInv, OInv
  <2>2. Ordered(flow'[f].snap) /\ Ordered(flow'[f].batch)
    BY <2>1, NothingIsOrdered DEF Recopied
  <2>. QED
    BY <2>2 DEF Ordered, InTapOrder, Tapped
<1>3. flow'[TapFlow].step = "ENQUEUE" => NewIsLast(flow[TapFlow])'
  BY DEF AllInv, OInv, NewIsLast, Tapped
<1>. QED
  BY <1>1, <1>2, <1>3 DEF OInv

LEMMA OTap ==
  ASSUME AllInv, NEW t \in Taps, NEW o \in Orders, NEW kind \in Kinds, Tap(t, o, kind)
  PROVE  OInv'
<1>1. /\ tap[t].kind = "NONE" /\ UNCHANGED queue
      /\ tap' = [tap EXCEPT ![t] = [kind |-> kind, of |-> o, from |-> shown[o], nth |-> Cardinality(Tapped)]]
      /\ flow' = [flow EXCEPT ![TapFlow] = [Idle EXCEPT !.step = "ENQUEUE", !.new = t, !.snap = queue]]
  BY DEF Tap
<1>2. kind # "NONE"
  BY ConstantsAssumption
<1>3. /\ t \in Tapped' /\ tap'[t].nth = Cardinality(Tapped)
      /\ \A u \in Tapped : u \in Tapped' /\ tap'[u] = tap[u] /\ tap[u].nth < Cardinality(Tapped)
  BY <1>1, <1>2 DEF AllInv, IInv, Shape, Counted, Tapped
<1>4. ASSUME NEW list, Ordered(list) PROVE Ordered(list)'
  BY <1>3, <1>4 DEF Ordered, InTapOrder
<1>5. Ordered(queue)'
  <2>1. PICK q : q = queue
    OBVIOUS
  <2>2. Ordered(q)'
    BY <1>4, <2>1 DEF AllInv, OInv
  <2>. QED
    BY <1>1, <2>1, <2>2
<1>6. ASSUME NEW f \in Flows PROVE Ordered(flow[f].snap)' /\ Ordered(flow[f].batch)'
  <2>1. Recopied(f)
    BY CopiesAreOfQueue DEF AllInv, Next
  <2>2. PICK snap, batch : snap = flow'[f].snap /\ batch = flow'[f].batch
    OBVIOUS
  <2>3. Ordered(snap) /\ Ordered(batch)
    BY <2>1, <2>2, NothingIsOrdered DEF AllInv, OInv, Recopied
  <2>4. Ordered(snap)' /\ Ordered(batch)'
    BY <1>4, <2>3
  <2>. QED
    BY <2>2, <2>4
<1>7. NewIsLast(flow[TapFlow])'
  <2>1. flow'[TapFlow].new = t /\ flow'[TapFlow].snap = queue
    BY <1>1 DEF AllInv, QInv, Flows, Idle
  <2>2. \A i \in 1..Len(queue) : queue[i] \in Tapped
    BY DEF AllInv, OInv, Ordered
  <2>. QED
    BY <1>3, <2>1, <2>2 DEF NewIsLast
<1>. QED
  BY <1>5, <1>6, <1>7 DEF OInv

LEMMA ONext == AllInv /\ [Next]_vars => OInv'
<1> SUFFICES ASSUME AllInv, [Next]_vars PROVE OInv'
  OBVIOUS
<1>1. TapFlow \in Flows /\ Idle.step = "IDLE" /\ flow \in [Flows -> FlowState] /\ Ordered(queue)
  BY IdleIs DEF AllInv, QInv, OInv, Flows
<1>2. ASSUME NEW t \in Taps, NEW o \in Orders, NEW kind \in Kinds, Tap(t, o, kind) PROVE OInv'
  BY <1>2, OTap
<1>3. CASE Enqueue
  <2>1. PICK w : w = flow[TapFlow]
    OBVIOUS
  <2>2. /\ w.step = "ENQUEUE" /\ queue' = Append(w.snap, w.new) /\ tap' = tap
        /\ flow' = [flow EXCEPT ![TapFlow] = [Idle EXCEPT !.step = "FLUSH"]]
    BY <1>3, <2>1 DEF Enqueue
  <2>3. w.snap \in Seq(Taps) /\ Ordered(w.snap) /\ NewIsLast(w)
    BY <1>1, <2>1, <2>2 DEF AllInv, OInv, FlowState
  <2>4. Ordered(Append(w.snap, w.new))
    BY <2>3, AppendOrdered DEF NewIsLast
  <2>5. flow'[TapFlow].step = "FLUSH"
    BY <1>1, <2>2 DEF Idle
  <2>. QED
    BY <1>3, <2>2, <2>4, <2>5, ListsStayOrdered DEF Next
<1>4. ASSUME NEW f \in Flows, FlowStep(f) PROVE OInv'
  <2>1. tap' = tap /\ (flow'[TapFlow].step = "ENQUEUE" => flow'[TapFlow] = flow[TapFlow])
    BY <1>1, <1>4 DEF FlowStep, Flush, Unreached, LoseAnswer, Answer, Remove, phone, Idle, FlowState
  <2>2. CASE Remove(f)
    <3>1. PICK w : w = flow[f]
      OBVIOUS
    <3>2. queue' = Without(w.snap, Settled(w)) /\ w.snap \in Seq(Taps) /\ Ordered(w.snap)
      BY <1>1, <2>2, <3>1 DEF Remove, AllInv, OInv, FlowState
    <3>3. Ordered(Without(w.snap, Settled(w)))
      BY <3>2, WithoutOrdered
    <3>. QED
      BY <1>4, <2>1, <3>2, <3>3, ListsStayOrdered DEF Next
  <2>3. CASE ~Remove(f)
    <3>1. queue' = queue
      BY <1>4, <2>3 DEF FlowStep, Flush, Unreached, LoseAnswer, Answer, phone
    <3>. QED
      BY <1>1, <1>4, <2>1, <3>1, ListsStayOrdered DEF Next
  <2>. QED
    BY <2>2, <2>3
<1>5. ASSUME NEW f \in Flows, NEW t \in Taps, Serve(f, t) \/ Falter(f, t) PROVE OInv'
  <2>1. tap' = tap /\ queue' = queue
    BY <1>5 DEF Serve, ServeRead, ServeMove, Falter, phone
  <2>2. /\ flow[f].step = "SENT"
        /\ \/ \E r : Answered(f, r)
           \/ flow' = [flow EXCEPT ![f].read = TRUE]
    BY <1>5 DEF Serve, ServeRead, ServeMove, Falter, Serving
  <2>3. flow'[TapFlow].step = "ENQUEUE" => flow'[TapFlow] = flow[TapFlow]
    BY <1>1, <2>2 DEF Answered, FlowState
  <2>. QED
    BY <1>1, <1>5, <2>1, <2>3, ListsStayOrdered DEF Next
<1>6. CASE Restart
  BY <1>1, <1>6, ListsStayOrdered DEF Restart, phone, Next
<1>7. ASSUME NEW o \in Orders, OrderStep(o) PROVE OInv'
  <2>1. UNCHANGED <<tap, queue, flow>>
    BY <1>7 DEF OrderStep, Refresh, OtherTakes, OfficeCancels, CloseBooks, phone
  <2>. QED
    BY <1>1, <1>7, <2>1, ListsStayOrdered DEF Next
<1>8. CASE UNCHANGED vars
  BY <1>8 DEF vars, AllInv, OInv, NewIsLast, Ordered, InTapOrder, Tapped
<1>. QED
  BY <1>2, <1>3, <1>4, <1>5, <1>6, <1>7, <1>8 DEF Next

(* The app's stored queue and the batches it sends: whatever old read a flush *)
(* or a tap writes back, the taps in them are in the order they were made,    *)
(* each once, so that a delivery is never sent ahead of its pick-up.          *)
THEOREM TapsSentInOrder == Spec => []SentInTapOrder
<1>1. Init => AllInv
  BY InitSound, QInit, OInit DEF AllInv
<1>2. AllInv /\ [Next]_vars => AllInv'
  BY StepSound, QNext, ONext DEF AllInv
<1>3. AllInv => SentInTapOrder
  BY DEF AllInv, OInv, Ordered, SentInTapOrder
<1>. QED
  BY <1>1, <1>2, <1>3, PTL DEF Spec

-----------------------------------------------------------------------------
(* How this module fits with OrderLifecycle, which is shown to keep to the   *)
(* same path; no override is among the steps here.                           *)
Path == INSTANCE OrderPath WITH OverrideTargets <- {}

PathSpec == Path!Spec

LEMMA ServedOnPath ==
  ASSUME IInv, NEW f \in Flows, NEW t \in Taps, ServeMove(f, t), status' # status
  PROVE  Path!Next
<1>1. PICK o : o = tap[t].of
  OBVIOUS
<1>2. /\ Allowed(tap[t]) /\ tap[t].kind # "NONE" /\ o \in Orders
      /\ status' = [status EXCEPT ![o] = Target(tap[t])]
  BY <1>1 DEF ServeMove, Serving, IInv, TapSound
<1>3. CASE tap[t].kind = "CORRECT_ORDER"
  <2>1. /\ status[o] = tap[t].from /\ tap[t].from \in Outcomes
        /\ Target(tap[t]) = IF tap[t].from = "DELIVERED" THEN "FAILED" ELSE "DELIVERED"
    BY <1>1, <1>2, <1>3 DEF Allowed, Target, IInv, TapSound
  <2>2. Path!Correct(o)
    BY <1>2, <2>1 DEF Outcomes, Path!Correct, Path!Go
  <2>. QED
    BY <1>2, <2>2 DEF Path!Next, Path!Step
<1>4. CASE tap[t].kind # "CORRECT_ORDER"
  <2>1. IsTransitionAllowed(status[o], Target(tap[t]), "DELIVERY_AGENT")
    BY <1>1, <1>2, <1>4 DEF Allowed
  <2>2. Target(tap[t]) \in OrderStatuses /\ "DELIVERY_AGENT" \in Roles
    BY <1>2, MoveGoesOn DEF Roles
  <2>3. Path!MoveOn(o)
    BY <1>2, <2>1, <2>2 DEF Path!MoveOn
  <2>. QED
    BY <1>2, <2>3 DEF Path!Next, Path!Step
<1>. QED
  BY <1>3, <1>4

LEMMA PathStep == IInv /\ [Next]_vars => [Path!Next]_status
<1> SUFFICES ASSUME IInv, Next, status' # status PROVE Path!Next
  BY DEF vars
<1>1. ASSUME NEW o \in Orders, OrderStep(o) PROVE Path!Next
  <2>1. PICK to \in {"DISPATCHED", "CANCELLED"} :
          /\ status' = [status EXCEPT ![o] = to]
          /\ IsTransitionAllowed(status[o], to, "ADMIN")
    BY <1>1 DEF OrderStep, Refresh, OtherTakes, OfficeCancels, CloseBooks, server,
                IsTransitionAllowed, Roles
  <2>2. to \in OrderStatuses /\ "ADMIN" \in Roles
    BY DEF OrderStatuses, OpenStatuses, TerminalStatuses, Roles
  <2>3. Path!MoveOn(o)
    BY <2>1, <2>2 DEF Path!MoveOn
  <2>. QED
    BY <2>3 DEF Path!Next, Path!Step
<1>2. ASSUME NEW f \in Flows, NEW t \in Taps, Serve(f, t) \/ Falter(f, t) PROVE Path!Next
  BY <1>2, ServedOnPath DEF Serve, ServeRead, Falter, server
<1>3. ASSUME \/ \E t \in Taps, o \in Orders, kind \in Kinds : Tap(t, o, kind)
             \/ Enqueue \/ Restart
             \/ \E f \in Flows : FlowStep(f)
      PROVE  FALSE
  BY <1>3 DEF Tap, Enqueue, Restart, FlowStep, Flush, Unreached, LoseAnswer, Answer, Remove, server
<1>. QED
  BY <1>1, <1>2, <1>3 DEF Next

(* A tap sent late, twice or from a stale screen moves its order only along  *)
(* the path every order takes: what OrderLifecycle's theorems say of orders  *)
(* they say of those a rider works offline, though the server answers from a *)
(* read it made before the write.                                            *)
THEOREM KeepsToPath == Spec => PathSpec
<1>1. Init => Path!Init
  BY DEF Init, Path!Init, Path!Statuses, OrderStatuses, OpenStatuses, TerminalStatuses
<1>. QED
  BY <1>1, PathStep, InitSound, StepSound, PTL DEF Spec, PathSpec, Path!Spec
=============================================================================
