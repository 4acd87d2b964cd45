----------------------- MODULE OrderLifecycle_proofs -----------------------
(***************************************************************************)
(* Machine-checked proofs about OrderLifecycle, for every number of        *)
(* orders, riders, outlets and aggregators, every correction window and    *)
(* every set of override statuses.                                         *)
(*                                                                         *)
(* The invariants of OrderLifecycle each speak of one document, so the     *)
(* inductive invariant is their conjunction on every document, Sound, and  *)
(* each handler is shown to keep a sound document sound.  From it follow   *)
(* the action properties and the refinement of BagCustody, at the end.     *)
(***************************************************************************)
EXTENDS OrderLifecycle, SequenceTheorems, TLAPS

(* The five safety invariants, on one document. *)
Sound(d) ==
  OnBook(d) =>
    /\ d.rto # "NONE" => d.status \in RtoOpeningStatuses
    /\ d.settledFor # NoOne =>
         d.status = "DELIVERED" /\ d.collectedBy \in {NoOne, d.settledFor}
    /\ d.status # "DELIVERED" => d.collectedBy = NoOne /\ ~d.delivered
    /\ IsTerminal(d.status) <=> d.closedAt # Never
    /\ d.closedAt = d.firstClose
    /\ ~d.assigned =>
         /\ Len(d.agents) <= 1
         /\ d.status \in OpenStatuses \ {"DISPATCHED"} => d.agents = << >>

IInv == TypeOK /\ \A o \in Orders : Sound(order[o])

-----------------------------------------------------------------------------
(* The two list operations on delivery.agentIds keep it a list of riders;    *)
(* adding to a list of at most one, and pulling from it, do what they say.   *)
LEMMA AddToSetType ==
  ASSUME NEW s \in Seq(Riders), NEW r \in Riders
  PROVE  AddToSet(s, r) \in Seq(Riders)
BY DEF AddToSet

LEMMA AddToSetLen ==
  ASSUME NEW s \in Seq(Riders), NEW r \in Riders,
         Len(s) <= 1, s = << >> \/ \E i \in 1..Len(s) : s[i] = r
  PROVE  Len(AddToSet(s, r)) <= 1
BY DEF AddToSet

LEMMA PullType ==
  ASSUME NEW s \in Seq(Riders), NEW r \in Riders
  PROVE  Pull(s, r) \in Seq(Riders)
<1>1. CASE ~(\E i \in 1..Len(s) : s[i] = r)
  BY <1>1 DEF Pull
<1>2. CASE \E i \in 1..Len(s) : s[i] = r
  <2>1. PICK k \in 1..Len(s) : Pull(s, r) = SubSeq(s, 1, k - 1) \o SubSeq(s, k + 1, Len(s))
    BY <1>2 DEF Pull
  <2>2. SubSeq(s, 1, k - 1) \in Seq(Riders)
    <3>1. k - 1 \in Int /\ \A i \in 1..(k - 1) : s[i] \in Riders
      OBVIOUS
    <3>. QED
      BY <3>1, SubSeqProperties
  <2>3. SubSeq(s, k + 1, Len(s)) \in Seq(Riders)
    <3>1. /\ k + 1 \in Int /\ Len(s) \in Int
          /\ \A i \in (k + 1)..Len(s) : s[i] \in Riders
      OBVIOUS
    <3>. QED
      BY <3>1, SubSeqProperties
  <2>. QED
    BY <2>1, <2>2, <2>3
<1>. QED
  BY <1>1, <1>2

LEMMA PullLast ==
  ASSUME NEW s \in Seq(Riders), NEW r \in Riders,
         Len(s) <= 1, \E i \in 1..Len(s) : s[i] = r
  PROVE  Pull(s, r) = << >>
<1>1. Len(s) = 1
  <2>1. \A n \in Nat : \A i \in 1..n : n <= 1 => n = 1
    OBVIOUS
  <2>. QED
    BY <2>1, LenProperties
<1>2. PICK k \in 1..Len(s) : Pull(s, r) = SubSeq(s, 1, k - 1) \o SubSeq(s, k + 1, Len(s))
  BY DEF Pull
<1>3. Pull(s, r) = SubSeq(s, 1, 0) \o SubSeq(s, 2, 1)
  BY <1>1, <1>2
<1>4. SubSeq(s, 1, 0) = << >> /\ SubSeq(s, 2, 1) = << >>
  BY SubSeqEmpty
<1>. QED
  BY <1>3, <1>4

-----------------------------------------------------------------------------
(* A document stays one when a field takes another value of that field's.    *)
LEMMA SetField ==
  ASSUME NEW d \in Document
  PROVE  /\ \A v \in Statuses \cup {"ABSENT", "DELETED"} : [d EXCEPT !.status = v] \in Document
         /\ \A v \in Outlets \cup {NoOutlet} : [d EXCEPT !.outlet = v] \in Document
         /\ \A v \in Seq(Riders) : [d EXCEPT !.agents = v] \in Document
         /\ \A v \in Nat \cup {Never} : [d EXCEPT !.closedAt = v] \in Document
         /\ \A v \in {"NONE", "PENDING", "RETURNED"} : [d EXCEPT !.rto = v] \in Document
         /\ \A v \in Riders \cup {NoOne} :
              /\ [d EXCEPT !.collectedBy = v] \in Document
              /\ [d EXCEPT !.settledFor = v] \in Document
              /\ [d EXCEPT !.took = v] \in Document
BY DEF Document

LEMMA SetFlag ==
  ASSUME NEW d \in Document
  PROVE  /\ \A v \in BOOLEAN : [d EXCEPT !.quoted = v] \in Document
         /\ \A v \in BOOLEAN : [d EXCEPT !.cod = v] \in Document
         /\ \A v \in BOOLEAN : [d EXCEPT !.assigned = v] \in Document
         /\ \A v \in BOOLEAN : [d EXCEPT !.delivered = v] \in Document
         /\ \A v \in BOOLEAN : [d EXCEPT !.bypassed = v] \in Document
BY DEF Document

-----------------------------------------------------------------------------
(* Appending an event touches the two fields read back from the log, and a   *)
(* side event leaves a sound document sound: the log's first closing event   *)
(* of a closed order is already there.                                       *)
LEMMA PushType ==
  ASSUME NEW d \in Document, NEW to, now \in Nat
  PROVE  Push(d, to) \in Document
<1>1. ASSUME NEW f \in Nat \cup {Never}, NEW c \in Riders \cup {NoOne}
      PROVE  [d EXCEPT !.firstClose = f, !.cancelledBy = c] \in Document
  BY <1>1 DEF Document
<1>2. d.firstClose \in Nat \cup {Never} /\ d.cancelledBy \in Riders \cup {NoOne}
  BY DEF Document
<1>. QED
  BY <1>1, <1>2 DEF Push

LEMMA PushSideSound ==
  ASSUME NEW d \in Document, Sound(d), now \in Nat
  PROVE  PushSide(d) \in Document /\ Sound(PushSide(d))
<1>1. PushSide(d) \in Document
  BY PushType DEF PushSide
<1>2. ASSUME d.status \notin {"ABSENT", "DELETED"}, ~d.bypassed
      PROVE  PushSide(d).firstClose = d.firstClose
  BY <1>2 DEF PushSide, Push, Document, OnBook, Sound, ClosingStatuses, IsTerminal, Never
<1>3. /\ PushSide(d).status = d.status /\ PushSide(d).bypassed = d.bypassed
      /\ PushSide(d).rto = d.rto /\ PushSide(d).settledFor = d.settledFor
      /\ PushSide(d).collectedBy = d.collectedBy /\ PushSide(d).delivered = d.delivered
      /\ PushSide(d).closedAt = d.closedAt /\ PushSide(d).assigned = d.assigned
      /\ PushSide(d).agents = d.agents
  BY DEF PushSide, Push, Document
<1>. QED
  BY <1>1, <1>2, <1>3 DEF OnBook, Sound

-----------------------------------------------------------------------------
(* A move the allow-list grants starts from an open order and never makes a  *)
(* decoy of it; only its rider moves a dispatched order back, and a rider    *)
(* only takes, puts back, delivers or fails.                                 *)
LEMMA TransitionTable ==
  ASSUME NEW from, NEW to, NEW role \in Roles, IsTransitionAllowed(from, to, role)
  PROVE  /\ from \in OpenStatuses
         /\ to \in OrderStatuses /\ to # "RATING_ORDER"
         /\ to = "DISPATCHED" => from = "PREPARED"
         /\ from = "DISPATCHED" /\ to \in OpenStatuses => to = "PREPARED" /\ role = "DELIVERY_AGENT"
BY DEF IsTransitionAllowed, Roles, AdminEdges, KitchenEdges, Cancellable, SupportOutcomes,
       OpenStatuses, TerminalStatuses, OrderStatuses

(* What transitionOrder has checked by the time it writes. *)
MayMove(d, role, who, to, handedTo) ==
  /\ role \in Roles
  /\ IsTransitionAllowed(d.status, to, role)
  /\ role = "DELIVERY_AGENT" =>
       who \in Riders /\ (On(d, who) \/ (d.status = "PREPARED" /\ d.agents = << >>))
  /\ handedTo \in Riders \cup {NoOne}
  /\ handedTo # NoOne => to = "DISPATCHED"

LEMMA CarrierType ==
  ASSUME NEW d \in Document, NEW role, NEW who, NEW to, NEW handedTo,
         MayMove(d, role, who, to, handedTo)
  PROVE  Carrier(role, who, to, handedTo) \in Riders \cup {NoOne}
BY DEF MayMove, Carrier

LEMMA AgentsAfterType ==
  ASSUME NEW d \in Document, NEW role, NEW who, NEW to, NEW handedTo,
         MayMove(d, role, who, to, handedTo)
  PROVE  AgentsAfter(d, role, who, to, handedTo) \in Seq(Riders)
<1>1. d.agents \in Seq(Riders)
  BY DEF Document
<1>2. CASE Carrier(role, who, to, handedTo) # NoOne
  BY <1>1, <1>2, CarrierType, AddToSetType DEF AgentsAfter
<1>3. CASE Carrier(role, who, to, handedTo) = NoOne /\ GivesBack(d, role, to)
  <2>1. who \in Riders
    BY <1>3 DEF GivesBack, MayMove
  <2>. QED
    BY <1>1, <1>3, <2>1, PullType DEF AgentsAfter
<1>4. CASE Carrier(role, who, to, handedTo) = NoOne /\ ~GivesBack(d, role, to)
  BY <1>1, <1>4 DEF AgentsAfter
<1>. QED
  BY <1>2, <1>3, <1>4

LEMMA TransitionedType ==
  ASSUME NEW d \in Document, NEW role, NEW who, NEW to, NEW handedTo, now \in Nat,
         MayMove(d, role, who, to, handedTo)
  PROVE  Transitioned(d, role, who, to, handedTo) \in Document
<1> DEFINE agents    == AgentsAfter(d, role, who, to, handedTo)
           closedAt  == ClosedAtAfter(d, to)
           delivered == d.delivered \/ to = "DELIVERED"
           collector == CollectorAfter(d, role, who, to, handedTo)
           rto       == RtoAfter(d, to)
           took      == IF to = "DISPATCHED" THEN Carrier(role, who, to, handedTo) ELSE d.took
<1>1. to \in Statuses \cup {"ABSENT", "DELETED"}
  BY TransitionTable DEF MayMove, Statuses
<1>2. agents \in Seq(Riders)
  BY AgentsAfterType
<1>3. closedAt \in Nat \cup {Never}
  BY DEF Document, ClosedAtAfter
<1>4. delivered \in BOOLEAN
  OBVIOUS
<1>5. collector \in Riders \cup {NoOne}
  <2>1. d.agents # << >> => d.agents[1] \in Riders
    BY DEF Document
  <2>2. d.collectedBy \in Riders \cup {NoOne}
    BY DEF Document
  <2>. QED
    BY <2>1, <2>2, CarrierType DEF CollectorAfter
<1>6. rto \in {"NONE", "PENDING", "RETURNED"}
  BY DEF Document, RtoAfter
<1>7. took \in Riders \cup {NoOne}
  BY CarrierType DEF Document
<1>8. [d EXCEPT !.status = to, !.agents = agents, !.closedAt = closedAt, !.delivered = delivered,
                !.collectedBy = collector, !.rto = rto, !.took = took] \in Document
  <2> DEFINE d1 == [d EXCEPT !.status = to]
             d2 == [d1 EXCEPT !.agents = agents]
             d3 == [d2 EXCEPT !.closedAt = closedAt]
             d4 == [d3 EXCEPT !.delivered = delivered]
             d5 == [d4 EXCEPT !.collectedBy = collector]
             d6 == [d5 EXCEPT !.rto = rto]
             d7 == [d6 EXCEPT !.took = took]
  <2> HIDE DEF agents, closedAt, delivered, collector, rto, took
  <2>1. d1 \in Document
    BY <1>1, SetField
  <2>2. d2 \in Document
    BY <2>1, <1>2, SetField
  <2>3. d3 \in Document
    BY <2>2, <1>3, SetField
  <2>4. d4 \in Document
    BY <2>3, <1>4, SetFlag
  <2>5. d5 \in Document
    BY <2>4, <1>5, SetField
  <2>6. d6 \in Document
    BY <2>5, <1>6, SetField
  <2>7. d7 \in Document
    BY <2>6, <1>7, SetField
  <2>. QED
    BY <2>7
<1>. QED
  BY <1>8, PushType DEF Transitioned

LEMMA TransitionedFields ==
  ASSUME NEW d \in Document, NEW role, NEW who, NEW to, NEW handedTo,
         NEW e, e = Transitioned(d, role, who, to, handedTo)
  PROVE  /\ e.status = to /\ e.bypassed = d.bypassed
         /\ e.rto = RtoAfter(d, to) /\ e.settledFor = d.settledFor
         /\ e.collectedBy = CollectorAfter(d, role, who, to, handedTo)
         /\ e.delivered <=> d.delivered \/ to = "DELIVERED"
         /\ e.closedAt = ClosedAtAfter(d, to)
         /\ e.firstClose = IF d.firstClose = Never /\ to \in ClosingStatuses THEN now
                           ELSE d.firstClose
         /\ e.assigned = d.assigned
         /\ e.agents = AgentsAfter(d, role, who, to, handedTo)
BY DEF Transitioned, Push, Document

(* Nobody assigned the order: whoever it is handed to is alone on it, and a  *)
(* rider who puts it back leaves it to everyone.                             *)
LEMMA UnassignedMove ==
  ASSUME NEW d \in Document, NEW role, NEW who, NEW to, NEW handedTo,
         MayMove(d, role, who, to, handedTo), Sound(d), ~d.bypassed, ~d.assigned
  PROVE  /\ Len(AgentsAfter(d, role, who, to, handedTo)) <= 1
         /\ to \in OpenStatuses \ {"DISPATCHED"} => AgentsAfter(d, role, who, to, handedTo) = << >>
<1>1. /\ d.status \in OpenStatuses
      /\ to = "DISPATCHED" => d.status = "PREPARED"
      /\ d.status = "DISPATCHED" /\ to \in OpenStatuses => to = "PREPARED" /\ role = "DELIVERY_AGENT"
  BY TransitionTable DEF MayMove
<1>2. /\ d.agents \in Seq(Riders)
      /\ Len(d.agents) <= 1
      /\ d.status # "DISPATCHED" => d.agents = << >>
  BY <1>1 DEF Document, OnBook, Sound, OpenStatuses
<1>3. CASE Carrier(role, who, to, handedTo) # NoOne
  <2>1. to \in RecordsTheRider /\ Carrier(role, who, to, handedTo) \in Riders
    BY <1>3, CarrierType DEF Carrier
  <2>2. d.agents = << >> \/ On(d, Carrier(role, who, to, handedTo))
    <3>1. CASE role = "DELIVERY_AGENT"
      BY <2>1, <3>1 DEF Carrier, MayMove
    <3>2. CASE role # "DELIVERY_AGENT"
      BY <1>1, <1>2, <1>3, <3>2 DEF Carrier, MayMove
    <3>. QED
      BY <3>1, <3>2
  <2>3. Len(AddToSet(d.agents, Carrier(role, who, to, handedTo))) <= 1
    BY <1>2, <2>1, <2>2, AddToSetLen DEF On
  <2>. QED
    BY <1>3, <2>1, <2>3 DEF AgentsAfter, RecordsTheRider, OpenStatuses
<1>4. CASE Carrier(role, who, to, handedTo) = NoOne /\ GivesBack(d, role, to)
  <2>1. who \in Riders /\ On(d, who)
    BY <1>4 DEF GivesBack, MayMove
  <2>2. Pull(d.agents, who) = << >>
    BY <1>2, <2>1, PullLast DEF On
  <2>3. AgentsAfter(d, role, who, to, handedTo) = << >>
    BY <1>4, <2>2 DEF AgentsAfter
  <2>. QED
    BY <2>3
<1>5. CASE Carrier(role, who, to, handedTo) = NoOne /\ ~GivesBack(d, role, to)
  <2>1. AgentsAfter(d, role, who, to, handedTo) = d.agents
    BY <1>5 DEF AgentsAfter
  <2>2. to \in OpenStatuses \ {"DISPATCHED"} => d.status # "DISPATCHED"
    BY <1>1, <1>5 DEF GivesBack
  <2>. QED
    BY <1>2, <2>1, <2>2
<1>. QED
  BY <1>3, <1>4, <1>5

LEMMA TransitionedSound ==
  ASSUME NEW d \in Document, NEW role, NEW who, NEW to, NEW handedTo, now \in Nat,
         MayMove(d, role, who, to, handedTo), Sound(d)
  PROVE  Sound(Transitioned(d, role, who, to, handedTo))
<1> DEFINE e == Transitioned(d, role, who, to, handedTo)
<1>1. /\ e.status = to /\ e.bypassed = d.bypassed
      /\ e.rto = RtoAfter(d, to) /\ e.settledFor = d.settledFor
      /\ e.collectedBy = CollectorAfter(d, role, who, to, handedTo)
      /\ e.delivered <=> d.delivered \/ to = "DELIVERED"
      /\ e.closedAt = ClosedAtAfter(d, to)
      /\ e.firstClose = IF d.firstClose = Never /\ to \in ClosingStatuses THEN now
                        ELSE d.firstClose
      /\ e.assigned = d.assigned
      /\ e.agents = AgentsAfter(d, role, who, to, handedTo)
  BY TransitionedFields
<1>2. d.status \in OpenStatuses /\ to \in OrderStatuses /\ to # "RATING_ORDER"
  BY TransitionTable DEF MayMove
<1> HIDE DEF e
<1>3. SUFFICES ASSUME ~d.bypassed
               PROVE  Sound(e)
  BY <1>1 DEF OnBook, Sound, e
<1>4. /\ d.rto = "NONE" /\ d.settledFor = NoOne
      /\ d.collectedBy = NoOne /\ ~d.delivered
      /\ d.closedAt = Never /\ d.firstClose = Never
  BY <1>2, <1>3 DEF OnBook, Sound, Document, OpenStatuses, TerminalStatuses, IsTerminal, RtoOpeningStatuses
<1>5. e.rto # "NONE" => to \in RtoOpeningStatuses
  BY <1>1, <1>4 DEF RtoAfter, OpensReturn
<1>6. to # "DELIVERED" => e.collectedBy = NoOne /\ ~e.delivered
  BY <1>1, <1>4 DEF CollectorAfter
<1>7. /\ IsTerminal(to) <=> e.closedAt # Never
      /\ e.closedAt = e.firstClose
  BY <1>1, <1>2, <1>4 DEF ClosedAtAfter, IsTerminal, ClosingStatuses, Never
<1>8. ~e.assigned =>
        /\ Len(e.agents) <= 1
        /\ to \in OpenStatuses \ {"DISPATCHED"} => e.agents = << >>
  BY <1>1, <1>3, UnassignedMove
<1>. QED
  BY <1>1, <1>4, <1>5, <1>6, <1>7, <1>8 DEF OnBook, Sound

-----------------------------------------------------------------------------
(* The handlers that change no status, and the correction.                   *)
LEMMA SetTermsSound ==
  ASSUME NEW d \in Document, Sound(d), NEW k \in Outlets \cup {NoOutlet},
         NEW q \in BOOLEAN, NEW c \in BOOLEAN
  PROVE  LET e == [d EXCEPT !.outlet = k, !.quoted = q, !.cod = c]
         IN  e \in Document /\ Sound(e)
<1> DEFINE d1 == [d EXCEPT !.outlet = k]
           d2 == [d1 EXCEPT !.quoted = q]
           d3 == [d2 EXCEPT !.cod = c]
<1>1. d1 \in Document
  BY SetField
<1>2. d2 \in Document
  BY <1>1, SetFlag
<1>3. d3 \in Document
  BY <1>2, SetFlag
<1>4. Sound(d3)
  BY DEF OnBook, Sound, Document
<1>. QED
  BY <1>3, <1>4

LEMMA RiderListsType == RiderLists \subseteq Seq(Riders)
BY DEF RiderLists

LEMMA SetRidersSound ==
  ASSUME NEW d \in Document, Sound(d), NEW list \in RiderLists
  PROVE  LET e == [d EXCEPT !.agents = list, !.assigned = list # << >>]
         IN  e \in Document /\ Sound(e)
<1> DEFINE d1 == [d EXCEPT !.agents = list]
           d2 == [d1 EXCEPT !.assigned = list # << >>]
<1>1. d1 \in Document
  BY RiderListsType, SetField
<1>2. d2 \in Document
  BY <1>1, SetFlag
<1>3. /\ d2.status = d.status /\ d2.bypassed = d.bypassed /\ d2.rto = d.rto
      /\ d2.settledFor = d.settledFor /\ d2.collectedBy = d.collectedBy
      /\ d2.delivered = d.delivered /\ d2.closedAt = d.closedAt /\ d2.firstClose = d.firstClose
      /\ d2.agents = list
  BY DEF Document
<1>4. ~d2.assigned => list = << >>
  BY DEF Document
<1>5. ~d2.assigned => Len(list) <= 1
  BY <1>4
<1> HIDE DEF d2
<1>6. Sound(d2)
  BY <1>3, <1>4, <1>5 DEF OnBook, Sound
<1>. QED
  BY <1>2, <1>6 DEF d2

LEMMA ReturnedSound ==
  ASSUME NEW d \in Document, Sound(d), d.rto = "PENDING"
  PROVE  LET e == [d EXCEPT !.rto = "RETURNED"]
         IN  e \in Document /\ Sound(e)
BY SetField DEF OnBook, Sound, Document

LEMMA SettledSound ==
  ASSUME NEW d \in Document, Sound(d), NEW r \in Riders, InWallet(d, r)
  PROVE  LET e == [d EXCEPT !.settledFor = r]
         IN  e \in Document /\ Sound(e)
<1>1. [d EXCEPT !.settledFor = r] \in Document
  BY SetField
<1>2. d.status = "DELIVERED" /\ d.collectedBy \in {NoOne, r}
  BY DEF InWallet, HolderOf
<1>3. Sound([d EXCEPT !.settledFor = r])
  BY <1>2 DEF OnBook, Sound, Document
<1>. QED
  BY <1>1, <1>3

(* A correction dates the close by closedAt, which a closed order already has. *)
LEMMA ClosedAtOfType ==
  ASSUME NEW d \in Document
  PROVE  ClosedAtOf(d) \in Nat \cup {Never}
BY DEF Document, ClosedAtOf

LEMMA CorrectedDeliveredSound ==
  ASSUME NEW d \in Document, Sound(d), NEW r \in Riders,
         d.status \in RiderOutcomes, d.settledFor = NoOne, now \in Nat
  PROVE  LET e == Push(CorrectedDelivered(d, r), "DELIVERED")
         IN  e \in Document /\ Sound(e)
<1> DEFINE e == Push(CorrectedDelivered(d, r), "DELIVERED")
<1>1. CorrectedDelivered(d, r) \in Document
  <2> DEFINE c  == ClosedAtOf(d)
             d1 == [d EXCEPT !.status = "DELIVERED"]
             d2 == [d1 EXCEPT !.closedAt = c]
             d3 == [d2 EXCEPT !.rto = "NONE"]
             d4 == [d3 EXCEPT !.delivered = TRUE]
             d5 == [d4 EXCEPT !.collectedBy = r]
  <2>1. c \in Nat \cup {Never}
    BY ClosedAtOfType
  <2> HIDE DEF c
  <2>2. d1 \in Document
    BY SetField DEF Statuses, OrderStatuses, TerminalStatuses
  <2>3. d2 \in Document
    BY <2>1, <2>2, SetField
  <2>4. d3 \in Document
    BY <2>3, SetField
  <2>5. d4 \in Document
    BY <2>4, SetFlag
  <2>6. d5 \in Document
    BY <2>5, SetField
  <2>. QED
    BY <2>6 DEF CorrectedDelivered, c
<1>2. e \in Document
  BY <1>1, PushType
<1>3. ~d.bypassed => d.closedAt # Never /\ d.firstClose = d.closedAt /\ ClosedAtOf(d) = d.closedAt
  BY DEF OnBook, Sound, RiderOutcomes, IsTerminal, TerminalStatuses, ClosedAtOf
<1>4. /\ e.status = "DELIVERED" /\ e.bypassed = d.bypassed /\ e.rto = "NONE"
      /\ e.settledFor = d.settledFor /\ e.closedAt = ClosedAtOf(d)
      /\ e.assigned = d.assigned /\ e.agents = d.agents
      /\ d.firstClose # Never => e.firstClose = d.firstClose
  BY DEF CorrectedDelivered, Push, Document
<1> HIDE DEF e
<1>5. Sound(e)
  BY <1>3, <1>4 DEF OnBook, Sound, RiderOutcomes, IsTerminal, TerminalStatuses, OpenStatuses
<1>. QED
  BY <1>2, <1>5 DEF e

LEMMA CorrectedFailedSound ==
  ASSUME NEW d \in Document, Sound(d),
         d.status \in RiderOutcomes, d.settledFor = NoOne, now \in Nat
  PROVE  LET e == Push(CorrectedFailed(d), "FAILED")
         IN  e \in Document /\ Sound(e)
<1> DEFINE e == Push(CorrectedFailed(d), "FAILED")
           b == IF d.status = "DELIVERED" /\ d.rto = "NONE" THEN "PENDING" ELSE d.rto
<1>1. CorrectedFailed(d) \in Document
  <2> DEFINE c  == ClosedAtOf(d)
             d1 == [d EXCEPT !.status = "FAILED"]
             d2 == [d1 EXCEPT !.closedAt = c]
             d3 == [d2 EXCEPT !.delivered = FALSE]
             d4 == [d3 EXCEPT !.collectedBy = NoOne]
             d5 == [d4 EXCEPT !.rto = b]
  <2>1. c \in Nat \cup {Never}
    BY ClosedAtOfType
  <2>2. b \in {"NONE", "PENDING", "RETURNED"}
    BY DEF Document
  <2>3. CorrectedFailed(d) = d5
    BY DEF CorrectedFailed, Document
  <2> HIDE DEF b, c
  <2>4. d1 \in Document
    BY SetField DEF Statuses, OrderStatuses, TerminalStatuses
  <2>5. d2 \in Document
    BY <2>1, <2>4, SetField
  <2>6. d3 \in Document
    BY <2>5, SetFlag
  <2>7. d4 \in Document
    BY <2>6, SetField
  <2>8. d5 \in Document
    BY <2>2, <2>7, SetField
  <2>. QED
    BY <2>3, <2>8
<1>2. e \in Document
  BY <1>1, PushType
<1>3. ~d.bypassed => d.closedAt # Never /\ d.firstClose = d.closedAt /\ ClosedAtOf(d) = d.closedAt
  BY DEF OnBook, Sound, RiderOutcomes, IsTerminal, TerminalStatuses, ClosedAtOf
<1>4. /\ e.status = "FAILED" /\ e.bypassed = d.bypassed /\ ~e.delivered
      /\ e.collectedBy = NoOne /\ e.settledFor = d.settledFor /\ e.closedAt = ClosedAtOf(d)
      /\ e.assigned = d.assigned /\ e.agents = d.agents
      /\ d.firstClose # Never => e.firstClose = d.firstClose
  BY DEF CorrectedFailed, Push, Document
<1> HIDE DEF e
<1>5. Sound(e)
  BY <1>3, <1>4 DEF OnBook, Sound, RiderOutcomes, IsTerminal, TerminalStatuses, OpenStatuses, RtoOpeningStatuses
<1>. QED
  BY <1>2, <1>5 DEF e

-----------------------------------------------------------------------------
(* From one document to the state.                                           *)
LEMMA BlankSound ==
  ASSUME NEW s \in {"ABSENT", "DELETED", "ENQUIRY", "RECEIVED"}
  PROVE  LET e == [Blank EXCEPT !.status = s]
         IN  e \in Document /\ Sound(e)
<1> DEFINE e == [Blank EXCEPT !.status = s]
<1>1. Blank \in Document
  BY DEF Blank, Document
<1>2. e \in Document
  BY <1>1, SetField DEF Statuses, OrderStatuses, OpenStatuses
<1>3. /\ e.status = s /\ e.rto = "NONE" /\ e.settledFor = NoOne /\ e.collectedBy = NoOne
      /\ ~e.delivered /\ e.closedAt = Never /\ e.firstClose = Never /\ e.agents = << >>
  BY DEF Blank
<1>4. Len(e.agents) <= 1
  BY <1>3
<1> HIDE DEF e
<1>5. Sound(e)
  BY <1>3, <1>4 DEF OnBook, Sound, IsTerminal, TerminalStatuses
<1>. QED
  BY <1>2, <1>5 DEF e

LEMMA ReceivedSound ==
  ASSUME NEW k \in Outlets, NEW c \in BOOLEAN
  PROVE  LET e == [Blank EXCEPT !.status = "RECEIVED", !.outlet = k, !.cod = c]
         IN  e \in Document /\ Sound(e)
<1> DEFINE d1 == [Blank EXCEPT !.status = "RECEIVED"]
           d2 == [d1 EXCEPT !.outlet = k]
           d3 == [d2 EXCEPT !.cod = c]
<1>1. d1 \in Document /\ Sound(d1)
  BY BlankSound
<1> HIDE DEF d1
<1>2. d2 \in Document
  BY <1>1, SetField
<1>3. d3 \in Document
  BY <1>2, SetFlag
<1>4. Sound(d3)
  BY <1>1 DEF OnBook, Sound, Document
<1>. QED
  BY <1>3, <1>4 DEF d1

LEMMA RefiledSound ==
  ASSUME NEW e \in RefiledByRider
  PROVE  e \in Document /\ Sound(e)
<1>1. PICK k \in Outlets, c \in BOOLEAN, r \in Riders : e = Refiled(k, c, r)
  BY DEF RefiledByRider
<1>2. e = [status |-> "CANCELLED", outlet |-> k, quoted |-> TRUE, cod |-> c,
           agents |-> <<r>>, assigned |-> FALSE, closedAt |-> 0, delivered |-> FALSE,
           collectedBy |-> NoOne, settledFor |-> NoOne, rto |-> "NONE", firstClose |-> 0,
           cancelledBy |-> r, took |-> r, bypassed |-> FALSE]
  BY <1>1 DEF Refiled, Blank
<1>3. <<r>> \in Seq(Riders) /\ Len(<<r>>) = 1
  OBVIOUS
<1>4. e \in Document
  BY <1>2, <1>3 DEF Document, Statuses, OrderStatuses, TerminalStatuses
<1>5. Sound(e)
  BY <1>2, <1>3 DEF OnBook, Sound, IsTerminal, TerminalStatuses, OpenStatuses, Never
<1>. QED
  BY <1>4, <1>5

LEMMA InitSound == Init => IInv
<1> SUFFICES ASSUME Init
             PROVE  IInv
  OBVIOUS
<1>1. Blank \in Document /\ Sound(Blank)
  BY DEF Blank, Document, OnBook, Sound
<1>2. \A o \in Orders : order[o] \in Document /\ Sound(order[o])
  BY <1>1, RefiledSound DEF Init
<1>3. order \in [Orders -> Document]
  <2>1. order = [o \in Orders |-> order[o]]
    BY DEF Init
  <2>. QED
    BY <1>2, <2>1
<1>. QED
  BY <1>2, <1>3 DEF Init, IInv, TypeOK

LEMMA OneDocument ==
  ASSUME IInv, NEW o \in Orders, NEW e \in Document, Sound(e),
         order' = [order EXCEPT ![o] = e], UNCHANGED now
  PROVE  IInv'
BY DEF IInv, TypeOK, OnBook, Sound

LEMMA AllDocuments ==
  ASSUME IInv, order' \in [Orders -> Document], UNCHANGED now,
         \A o \in Orders : Sound(order'[o])
  PROVE  IInv'
BY DEF IInv, TypeOK, OnBook, Sound

LEMMA DocumentOf ==
  ASSUME IInv, NEW o \in Orders
  PROVE  order[o] \in Document /\ Sound(order[o]) /\ now \in Nat
BY DEF IInv, TypeOK

-----------------------------------------------------------------------------
(* One lemma per action.                                                     *)
LEMMA CreateKeeps ==
  ASSUME IInv, NEW o \in Orders, Create(o) \/ CreateEnquiry(o) \/ DeleteOrder(o)
  PROVE  IInv'
<1>1. CASE Create(o)
  <2>1. PICK k \in Outlets, c \in BOOLEAN :
          order' = [order EXCEPT ![o] =
                      [Blank EXCEPT !.status = "RECEIVED", !.outlet = k, !.cod = c]]
    BY <1>1 DEF Create
  <2>. QED
    BY <1>1, <2>1, ReceivedSound, OneDocument DEF Create
<1>2. CASE CreateEnquiry(o)
  BY <1>2, BlankSound, OneDocument DEF CreateEnquiry
<1>3. CASE DeleteOrder(o)
  BY <1>3, BlankSound, OneDocument DEF DeleteOrder
<1>. QED
  BY <1>1, <1>2, <1>3

LEMMA WriteQuoteKeeps ==
  ASSUME IInv, NEW o \in Orders, WriteQuote(o)
  PROVE  IInv'
<1>1. PICK k \in Outlets, c \in BOOLEAN :
        order' = [order EXCEPT ![o] =
                    [order[o] EXCEPT !.outlet = k, !.quoted = TRUE, !.cod = c]]
  BY DEF WriteQuote
<1> DEFINE e == [order[o] EXCEPT !.outlet = k, !.quoted = TRUE, !.cod = c]
<1>2. e \in Document /\ Sound(e)
  BY DocumentOf, SetTermsSound
<1> HIDE DEF e
<1>. QED
  BY <1>1, <1>2, OneDocument DEF WriteQuote, e

LEMMA AdminEditOrderKeeps ==
  ASSUME IInv, NEW o \in Orders, AdminEditOrder(o)
  PROVE  IInv'
<1>1. PICK k \in Outlets \cup {NoOutlet}, q \in BOOLEAN, c \in BOOLEAN :
        order' = [order EXCEPT ![o] =
                    [PushSide(order[o]) EXCEPT !.outlet = k, !.quoted = q, !.cod = c]]
  BY DEF AdminEditOrder
<1> DEFINE e == [PushSide(order[o]) EXCEPT !.outlet = k, !.quoted = q, !.cod = c]
<1>2. e \in Document /\ Sound(e)
  BY DocumentOf, PushSideSound, SetTermsSound
<1> HIDE DEF e
<1>. QED
  BY <1>1, <1>2, OneDocument DEF AdminEditOrder, e

LEMMA RepointOrdersKeeps ==
  ASSUME IInv, NEW from \in Outlets, NEW to \in Outlets, NEW source \in Sources,
         RepointOrders(from, to, source)
  PROVE  IInv'
<1>1. ASSUME NEW o \in Orders
      PROVE  [order[o] EXCEPT !.outlet = to] \in Document /\ Sound([order[o] EXCEPT !.outlet = to])
  <2>1. order[o] \in Document /\ Sound(order[o])
    BY <1>1, DocumentOf
  <2>2. [order[o] EXCEPT !.outlet = to] \in Document
    BY <2>1, SetField
  <2>3. Sound([order[o] EXCEPT !.outlet = to])
    BY <2>1 DEF OnBook, Sound, Document
  <2>. QED
    BY <2>2, <2>3
<1>2. ASSUME NEW o \in Orders
      PROVE  order'[o] \in Document /\ Sound(order'[o])
  BY <1>1, <1>2, DocumentOf DEF RepointOrders
<1>3. order' \in [Orders -> Document]
  BY <1>2 DEF RepointOrders
<1>. QED
  BY <1>2, <1>3, AllDocuments DEF RepointOrders

LEMMA TransitionOrderKeeps ==
  ASSUME IInv, NEW o \in Orders, NEW role \in Roles, NEW who, NEW to,
         NEW handedTo \in Riders \cup {NoOne},
         role = "DELIVERY_AGENT" => who \in Riders,
         handedTo # NoOne => to = "DISPATCHED",
         TransitionOrder(o, role, who, to, handedTo)
  PROVE  IInv'
<1> DEFINE e == Transitioned(order[o], role, who, to, handedTo)
<1>1. order[o] \in Document /\ Sound(order[o]) /\ now \in Nat
  BY DocumentOf
<1>2. MayMove(order[o], role, who, to, handedTo)
  BY DEF MayMove, TransitionOrder, InScope
<1>3. e \in Document /\ Sound(e)
  BY <1>1, <1>2, TransitionedType, TransitionedSound
<1>4. order' = [order EXCEPT ![o] = e] /\ UNCHANGED now
  BY DEF TransitionOrder
<1> HIDE DEF e
<1>. QED
  BY <1>3, <1>4, OneDocument

LEMMA AnyTransitionKeeps ==
  ASSUME IInv, NEW o \in Orders,
         OfficeTransition(o) \/ HandToRider(o) \/ RiderTransition(o)
  PROVE  IInv'
<1>1. CASE OfficeTransition(o)
  BY <1>1, TransitionOrderKeeps DEF OfficeTransition, Office, Roles
<1>2. CASE HandToRider(o)
  BY <1>2, TransitionOrderKeeps DEF HandToRider, Roles
<1>3. CASE RiderTransition(o)
  BY <1>3, TransitionOrderKeeps DEF RiderTransition, Roles
<1>. QED
  BY <1>1, <1>2, <1>3

(* Both ways round the pipeline leave the mark that takes the order off it.  *)
LEMMA BypassKeeps ==
  ASSUME IInv, NEW o \in Orders, AdminOverrideStatus(o) \/ FlagRatingOrder(o)
  PROVE  IInv'
<1>1. ASSUME NEW to \in Statuses
      PROVE  LET e == Push([order[o] EXCEPT !.status = to, !.bypassed = TRUE], to)
             IN  e \in Document /\ Sound(e)
  <2> DEFINE d1 == [order[o] EXCEPT !.status = to]
             d2 == [d1 EXCEPT !.bypassed = TRUE]
  <2>1. d1 \in Document
    BY <1>1, DocumentOf, SetField
  <2>2. d2 \in Document
    BY <2>1, SetFlag
  <2>3. Push(d2, to) \in Document
    BY <2>2, DocumentOf, PushType
  <2>4. Push(d2, to).bypassed
    BY <2>1 DEF Push, Document
  <2>. QED
    BY <2>3, <2>4 DEF OnBook, Sound
<1>2. CASE AdminOverrideStatus(o)
  <2>1. PICK to \in OverrideTargets :
          order' = [order EXCEPT ![o] = Push([order[o] EXCEPT !.status = to, !.bypassed = TRUE], to)]
    BY <1>2 DEF AdminOverrideStatus
  <2>. QED
    BY <1>1, <1>2, <2>1, OneDocument DEF AdminOverrideStatus, Statuses
<1>3. CASE FlagRatingOrder(o)
  <2>1. "RATING_ORDER" \in Statuses
    BY DEF Statuses, OrderStatuses, TerminalStatuses
  <2>. QED
    BY <1>1, <1>3, <2>1, OneDocument DEF FlagRatingOrder
<1>. QED
  BY <1>2, <1>3

LEMMA CorrectRiderOutcomeKeeps ==
  ASSUME IInv, NEW o \in Orders, NEW r \in Riders, NEW requested \in RiderOutcomes,
         CorrectRiderOutcome(o, r, requested)
  PROVE  IInv'
<1>1. /\ order[o] \in Document /\ Sound(order[o]) /\ now \in Nat
      /\ order[o].status \in RiderOutcomes /\ order[o].settledFor = NoOne
      /\ UNCHANGED now
  BY DocumentOf DEF CorrectRiderOutcome
<1>2. CASE requested = "DELIVERED"
  BY <1>1, <1>2, CorrectedDeliveredSound, OneDocument DEF CorrectRiderOutcome
<1>3. CASE requested # "DELIVERED"
  BY <1>1, <1>3, CorrectedFailedSound, OneDocument DEF CorrectRiderOutcome, RiderOutcomes
<1>. QED
  BY <1>2, <1>3

LEMMA AssignKeeps ==
  ASSUME IInv, NEW o \in Orders, AssignAgents(o) \/ AssignRiders(o)
  PROVE  IInv'
<1>1. PICK list \in RiderLists : SetRiders(o, list) /\ UNCHANGED now
  BY DEF AssignAgents, AssignRiders
<1> DEFINE e == [PushSide(order[o]) EXCEPT !.agents = list, !.assigned = list # << >>]
<1>2. e \in Document /\ Sound(e)
  BY DocumentOf, PushSideSound, SetRidersSound
<1>3. order' = [order EXCEPT ![o] = e]
  BY <1>1 DEF SetRiders
<1> HIDE DEF e
<1>. QED
  BY <1>1, <1>2, <1>3, OneDocument

LEMMA MarkReturnedKeeps ==
  ASSUME IInv, NEW o \in Orders, MarkReturnedToOrigin(o)
  PROVE  IInv'
<1>1. PushSide(order[o]).rto = "PENDING"
  BY DocumentOf DEF MarkReturnedToOrigin, PushSide, Push, Document
<1>2. LET e == [PushSide(order[o]) EXCEPT !.rto = "RETURNED"]
      IN  e \in Document /\ Sound(e)
  BY <1>1, DocumentOf, PushSideSound, ReturnedSound
<1>. QED
  BY <1>2, OneDocument DEF MarkReturnedToOrigin

LEMMA SettleRiderCashKeeps ==
  ASSUME IInv, NEW shown \in SUBSET Orders, NEW r \in Riders, SettleRiderCash(shown, r)
  PROVE  IInv'
<1>1. PICK mine \in SUBSET Orders :
        /\ \A o \in mine : InWallet(order[o], r)
        /\ order' = [o \in Orders |->
                       IF o \in mine THEN [PushSide(order[o]) EXCEPT !.settledFor = r]
                       ELSE order[o]]
  BY DEF SettleRiderCash
<1>2. ASSUME NEW o \in mine
      PROVE  LET e == [PushSide(order[o]) EXCEPT !.settledFor = r]
             IN  e \in Document /\ Sound(e)
  <2> DEFINE d == order[o]
             p == PushSide(order[o])
  <2>1. /\ p.status = d.status /\ p.cod = d.cod /\ p.settledFor = d.settledFor
        /\ p.delivered = d.delivered /\ p.collectedBy = d.collectedBy /\ p.agents = d.agents
    BY DocumentOf DEF PushSide, Push, Document
  <2>2. InWallet(d, r)
    BY <1>1
  <2> HIDE DEF d, p
  <2>3. InWallet(p, r)
    BY <2>1, <2>2 DEF InWallet, HolderOf
  <2>. QED
    BY <2>3, DocumentOf, PushSideSound, SettledSound DEF d, p
<1>3. ASSUME NEW o \in Orders
      PROVE  order'[o] \in Document /\ Sound(order'[o])
  BY <1>1, <1>2, <1>3, DocumentOf
<1>4. order' \in [Orders -> Document]
  BY <1>1, <1>3
<1>. QED
  BY <1>3, <1>4, AllDocuments DEF SettleRiderCash

LEMMA TickKeeps ==
  ASSUME IInv, Tick
  PROVE  IInv'
BY DEF IInv, TypeOK, Tick, OnBook, Sound

LEMMA StepKeeps == IInv /\ [Next]_vars => IInv'
<1> SUFFICES ASSUME IInv, [Next]_vars
             PROVE  IInv'
  OBVIOUS
<1>1. ASSUME NEW o \in Orders, OrderStep(o)
      PROVE  IInv'
  BY <1>1, CreateKeeps, WriteQuoteKeeps, AdminEditOrderKeeps, AnyTransitionKeeps, BypassKeeps,
     CorrectRiderOutcomeKeeps, AssignKeeps, MarkReturnedKeeps
     DEF OrderStep
<1>2. CASE UNCHANGED vars
  BY <1>2 DEF vars, IInv, TypeOK, OnBook, Sound
<1>. QED
  BY <1>1, <1>2, RepointOrdersKeeps, SettleRiderCashKeeps, TickKeeps DEF Next

-----------------------------------------------------------------------------
(* In every reachable state every document and the clock have their types.   *)
THEOREM TypeCorrect == Spec => []TypeOK
<1>1. IInv => TypeOK
  BY DEF IInv
<1>. QED
  BY <1>1, InitSound, StepKeeps, PTL DEF Spec

(* The inductive invariant, of which the safety invariants are the conjuncts. *)
THEOREM AllSound == Spec => []IInv
BY InitSound, StepKeeps, PTL DEF Spec

(* A bag on its way back, or back, belongs to an order that is not delivered. *)
THEOREM ReturnsMatch == Spec => []ReturnMatchesOutcome
<1>1. IInv => ReturnMatchesOutcome
  BY DEF IInv, OnBook, Sound, ReturnMatchesOutcome, Guided
<1>. QED
  BY <1>1, AllSound, PTL

(* Cash taken from a rider is for an order that stays delivered.             *)
THEOREM SettledStays == Spec => []SettledStaysDelivered
<1>1. IInv => SettledStaysDelivered
  BY DEF IInv, OnBook, Sound, SettledStaysDelivered, Guided
<1>. QED
  BY <1>1, AllSound, PTL

(* Nobody is on record as holding cash for an order that is not delivered.   *)
THEOREM CashFollows == Spec => []CashFollowsDelivery
<1>1. IInv => CashFollowsDelivery
  BY DEF IInv, OnBook, Sound, CashFollowsDelivery, Guided
<1>. QED
  BY <1>1, AllSound, PTL

(* closedAt is the time of the first close and is set exactly on closed orders. *)
THEOREM ClosesOnce == Spec => []ClosedOnce
<1>1. IInv => ClosedOnce
  BY DEF IInv, OnBook, Sound, ClosedOnce, Guided
<1>. QED
  BY <1>1, AllSound, PTL

(* Two riders never both hold an order the office assigned to nobody.        *)
THEOREM OneRiderEach == Spec => []UnassignedHasOneRider
<1>1. IInv => UnassignedHasOneRider
  BY DEF IInv, OnBook, Sound, UnassignedHasOneRider, Guided
<1>. QED
  BY <1>1, AllSound, PTL

-----------------------------------------------------------------------------
(* The action properties: how an order ended changes only by its rider's     *)
(* correction, and cash leaves a rider's wallet only for a reason.           *)

(* What both properties ask of one document's step. *)
Explained(d, e) == OutcomeStep(d, e) /\ \A r \in Riders : WalletStep(d, e, r)

ExplainedStep == \A o \in Orders : Explained(order[o], order'[o])

-----------------------------------------------------------------------------
(* Off the books, before or after, nothing is promised.                      *)
LEMMA OffTheBooks ==
  ASSUME NEW d, NEW e, ~OnBook(d) \/ ~OnBook(e)
  PROVE  Explained(d, e)
BY DEF Explained, OutcomeStep, WalletStep

(* A step that leaves status and cash fields alone leaves named cash where   *)
(* it was, unless it changes how the order is paid.                          *)
LEMMA SideExplained ==
  ASSUME NEW d, NEW e,
         e.status = d.status, e.settledFor = d.settledFor, e.delivered <=> d.delivered,
         e.collectedBy = d.collectedBy
  PROVE  Explained(d, e)
<1>1. d.collectedBy # NoOne => HolderOf(e) = HolderOf(d)
  BY DEF HolderOf
<1>2. \A r \in Riders : WalletStep(d, e, r)
  BY <1>1 DEF WalletStep, InWallet
<1>. QED
  BY <1>2 DEF Explained, OutcomeStep

LEMMA PushSideFields ==
  ASSUME NEW d \in Document
  PROVE  /\ PushSide(d).status = d.status /\ PushSide(d).settledFor = d.settledFor
         /\ PushSide(d).delivered <=> d.delivered
         /\ PushSide(d).collectedBy = d.collectedBy
BY DEF PushSide, Push, Document

(* One document's step, explained, explains the step of them all.            *)
LEMMA OneExplained ==
  ASSUME TypeOK, NEW o \in Orders, NEW e, order' = [order EXCEPT ![o] = e],
         Explained(order[o], e)
  PROVE  ExplainedStep
<1>1. \A p \in Orders : order'[p] = IF p = o THEN e ELSE order[p]
  BY DEF TypeOK
<1>2. \A p \in Orders : Explained(order[p], order[p])
  BY SideExplained
<1>. QED
  BY <1>1, <1>2 DEF ExplainedStep

-----------------------------------------------------------------------------
LEMMA BirthExplained ==
  ASSUME IInv, NEW o \in Orders,
         \/ Create(o) \/ CreateEnquiry(o) \/ DeleteOrder(o)
         \/ AdminOverrideStatus(o) \/ FlagRatingOrder(o)
  PROVE  ExplainedStep
<1>1. TypeOK /\ order[o] \in Document
  BY DocumentOf DEF IInv
<1>2. ASSUME NEW e, order' = [order EXCEPT ![o] = e], ~OnBook(order[o]) \/ ~OnBook(e)
      PROVE  ExplainedStep
  BY <1>1, <1>2, OffTheBooks, OneExplained
<1>3. CASE Create(o) \/ CreateEnquiry(o)
  <2>1. ~OnBook(order[o])
    BY <1>3 DEF Create, CreateEnquiry, OnBook
  <2>. QED
    BY <1>2, <1>3, <2>1 DEF Create, CreateEnquiry
<1>4. CASE DeleteOrder(o)
  <2>1. ~OnBook([Blank EXCEPT !.status = "DELETED"])
    BY DEF OnBook, Blank
  <2>. QED
    BY <1>2, <1>4, <2>1 DEF DeleteOrder
<1>5. ASSUME NEW to
      PROVE  ~OnBook(Push([order[o] EXCEPT !.status = to, !.bypassed = TRUE], to))
  BY <1>1 DEF OnBook, Push, Document
<1>6. CASE AdminOverrideStatus(o)
  BY <1>2, <1>5, <1>6 DEF AdminOverrideStatus
<1>7. CASE FlagRatingOrder(o)
  BY <1>2, <1>5, <1>7 DEF FlagRatingOrder
<1>. QED
  BY <1>3, <1>4, <1>6, <1>7

LEMMA TermsExplained ==
  ASSUME IInv, NEW o \in Orders,
         \/ WriteQuote(o) \/ AdminEditOrder(o) \/ AssignAgents(o) \/ AssignRiders(o)
         \/ MarkReturnedToOrigin(o)
  PROVE  ExplainedStep
<1> DEFINE d == order[o]
<1>1. d \in Document /\ PushSide(d) \in Document /\ TypeOK
  BY DocumentOf, PushSideSound DEF IInv
<1>2. /\ PushSide(d).status = d.status /\ PushSide(d).settledFor = d.settledFor
      /\ PushSide(d).delivered <=> d.delivered
      /\ PushSide(d).collectedBy = d.collectedBy
  BY <1>1, PushSideFields
<1>3. ASSUME NEW e, order' = [order EXCEPT ![o] = e],
             e.status = d.status, e.settledFor = d.settledFor, e.delivered <=> d.delivered,
             e.collectedBy = d.collectedBy
      PROVE  ExplainedStep
  BY <1>1, <1>3, SideExplained, OneExplained
<1> HIDE DEF d
<1>4. CASE WriteQuote(o)
  <2>1. PICK k \in Outlets, c \in BOOLEAN :
          order' = [order EXCEPT ![o] = [d EXCEPT !.outlet = k, !.quoted = TRUE, !.cod = c]]
    BY <1>4 DEF WriteQuote, d
  <2> DEFINE e == [d EXCEPT !.outlet = k, !.quoted = TRUE, !.cod = c]
  <2>2. /\ e.status = d.status /\ e.settledFor = d.settledFor /\ (e.delivered <=> d.delivered)
        /\ e.collectedBy = d.collectedBy
    BY <1>1 DEF Document
  <2> HIDE DEF e
  <2>. QED
    BY <1>3, <2>1, <2>2 DEF e
<1>5. CASE AdminEditOrder(o)
  <2>1. PICK k \in Outlets \cup {NoOutlet}, q \in BOOLEAN, c \in BOOLEAN :
          order' = [order EXCEPT ![o] =
                      [PushSide(d) EXCEPT !.outlet = k, !.quoted = q, !.cod = c]]
    BY <1>5 DEF AdminEditOrder, d
  <2> DEFINE e == [PushSide(d) EXCEPT !.outlet = k, !.quoted = q, !.cod = c]
  <2>2. /\ e.status = d.status /\ e.settledFor = d.settledFor /\ (e.delivered <=> d.delivered)
        /\ e.collectedBy = d.collectedBy
    BY <1>1, <1>2 DEF Document
  <2> HIDE DEF e
  <2>. QED
    BY <1>3, <2>1, <2>2 DEF e
<1>6. CASE AssignAgents(o) \/ AssignRiders(o)
  <2>1. PICK list \in RiderLists : SetRiders(o, list)
    BY <1>6 DEF AssignAgents, AssignRiders
  <2> DEFINE e == [PushSide(d) EXCEPT !.agents = list, !.assigned = list # << >>]
  <2>2. /\ e.status = d.status /\ e.settledFor = d.settledFor /\ (e.delivered <=> d.delivered)
        /\ e.collectedBy = d.collectedBy
    BY <1>1, <1>2 DEF Document
  <2>3. order' = [order EXCEPT ![o] = e]
    BY <2>1 DEF SetRiders, d
  <2> HIDE DEF e
  <2>. QED
    BY <1>3, <2>2, <2>3
<1>7. CASE MarkReturnedToOrigin(o)
  <2> DEFINE e == [PushSide(d) EXCEPT !.rto = "RETURNED"]
  <2>1. /\ e.status = d.status /\ e.settledFor = d.settledFor /\ (e.delivered <=> d.delivered)
        /\ e.collectedBy = d.collectedBy
    BY <1>1, <1>2 DEF Document
  <2>2. order' = [order EXCEPT ![o] = e]
    BY <1>7 DEF MarkReturnedToOrigin, d
  <2> HIDE DEF e
  <2>. QED
    BY <1>3, <2>1, <2>2
<1>. QED
  BY <1>4, <1>5, <1>6, <1>7

(* A transition never starts from a closed order.                            *)
LEMMA TransitionExplained ==
  ASSUME IInv, NEW o \in Orders, OfficeTransition(o) \/ HandToRider(o) \/ RiderTransition(o)
  PROVE  ExplainedStep
<1>1. ASSUME NEW role \in Roles, NEW who, NEW to, NEW handedTo,
             TransitionOrder(o, role, who, to, handedTo)
      PROVE  ExplainedStep
  <2>1. order[o].status \in OpenStatuses
    BY <1>1, TransitionTable DEF TransitionOrder
  <2>2. ~IsTerminal(order[o].status) /\ order[o].status # "DELIVERED"
    BY <2>1 DEF IsTerminal, OpenStatuses, TerminalStatuses
  <2>3. Explained(order[o], Transitioned(order[o], role, who, to, handedTo))
    BY <2>2 DEF Explained, OutcomeStep, WalletStep, InWallet
  <2>4. TypeOK
    BY DEF IInv
  <2>. QED
    BY <1>1, <2>3, <2>4, OneExplained DEF TransitionOrder
<1>. QED
  BY <1>1 DEF OfficeTransition, HandToRider, RiderTransition, Office, Roles

(* The correction: its guards are what OutcomeStep asks for, and it opens a  *)
(* return for every delivery it takes back.                                  *)
LEMMA CorrectionExplained ==
  ASSUME IInv, NEW o \in Orders, NEW r \in Riders, NEW requested \in RiderOutcomes,
         CorrectRiderOutcome(o, r, requested)
  PROVE  ExplainedStep
<1> DEFINE d == order[o]
<1>1. /\ d \in Document /\ Sound(d) /\ TypeOK
      /\ d.status \in RiderOutcomes /\ d.settledFor = NoOne /\ Correctable(d)
      /\ now \in Nat
  BY DocumentOf DEF IInv, CorrectRiderOutcome
<1>2. OnBook(d) => now < d.firstClose + Window /\ (d.status = "DELIVERED" => d.rto = "NONE")
  BY <1>1 DEF Sound, Correctable, ClosedAtOf, RiderOutcomes, RtoOpeningStatuses, IsTerminal,
              TerminalStatuses
<1> HIDE DEF d
<1>3. CASE requested = "DELIVERED"
  <2> DEFINE e == Push(CorrectedDelivered(d, r), "DELIVERED")
  <2>1. order' = [order EXCEPT ![o] = e] /\ d.status # "DELIVERED" /\ d.rto # "RETURNED"
    BY <1>3 DEF CorrectRiderOutcome, d
  <2>2. e.status = "DELIVERED"
    BY <1>1 DEF CorrectedDelivered, Push, Document
  <2> HIDE DEF e
  <2>3. Explained(d, e)
    BY <1>1, <1>2, <2>1, <2>2 DEF Explained, OutcomeStep, WalletStep, InWallet
  <2>. QED
    BY <1>1, <2>1, <2>3, OneExplained DEF d
<1>4. CASE requested # "DELIVERED"
  <2> DEFINE e == Push(CorrectedFailed(d), "FAILED")
  <2>1. order' = [order EXCEPT ![o] = e]
    BY <1>4 DEF CorrectRiderOutcome, RiderOutcomes, d
  <2>2. /\ e.status = "FAILED"
        /\ e.rto = IF d.status = "DELIVERED" /\ d.rto = "NONE" THEN "PENDING" ELSE d.rto
    BY <1>1 DEF CorrectedFailed, Push, Document
  <2> HIDE DEF e
  <2>3. Explained(d, e)
    BY <1>1, <1>2, <2>2 DEF Explained, OutcomeStep, WalletStep, InWallet
  <2>. QED
    BY <1>1, <2>1, <2>3, OneExplained DEF d
<1>. QED
  BY <1>3, <1>4

(* Cash taken is taken from the rider whose wallet it was in.                *)
LEMMA SettlementExplained ==
  ASSUME IInv, NEW shown \in SUBSET Orders, NEW r \in Riders, SettleRiderCash(shown, r)
  PROVE  ExplainedStep
<1>1. PICK mine \in SUBSET Orders :
        /\ \A o \in mine : InWallet(order[o], r)
        /\ order' = [o \in Orders |->
                       IF o \in mine THEN [PushSide(order[o]) EXCEPT !.settledFor = r]
                       ELSE order[o]]
  BY DEF SettleRiderCash
<1>2. ASSUME NEW o \in mine
      PROVE  Explained(order[o], [PushSide(order[o]) EXCEPT !.settledFor = r])
  <2> DEFINE d == order[o]
             e == [PushSide(d) EXCEPT !.settledFor = r]
  <2>1. d \in Document /\ PushSide(d) \in Document
    BY DocumentOf, PushSideSound
  <2>2. PushSide(d).status = d.status
    BY <2>1, PushSideFields
  <2>3. e.status = d.status /\ e.settledFor = r
    BY <2>1, <2>2 DEF Document
  <2>4. InWallet(d, r)
    BY <1>1
  <2> HIDE DEF d, e
  <2>5. \A q \in Riders : InWallet(d, q) => q = r
    BY <2>4 DEF InWallet
  <2>6. Explained(d, e)
    BY <2>3, <2>5 DEF Explained, OutcomeStep, WalletStep
  <2>. QED
    BY <2>6 DEF d, e
<1>3. \A o \in Orders : Explained(order[o], order[o])
  BY SideExplained
<1>. QED
  BY <1>1, <1>2, <1>3 DEF ExplainedStep

LEMMA ListingExplained ==
  ASSUME IInv, NEW from \in Outlets, NEW to \in Outlets, NEW source \in Sources,
         RepointOrders(from, to, source)
  PROVE  ExplainedStep
<1>1. ASSUME NEW o \in Orders
      PROVE  Explained(order[o], [order[o] EXCEPT !.outlet = to])
  BY <1>1, DocumentOf, SideExplained DEF Document
<1>2. \A o \in Orders : Explained(order[o], order[o])
  BY SideExplained
<1>3. \A o \in Orders : order'[o] \in {order[o], [order[o] EXCEPT !.outlet = to]}
  BY DEF RepointOrders
<1>. QED
  BY <1>1, <1>2, <1>3 DEF ExplainedStep

LEMMA StepExplained == IInv /\ Next => ExplainedStep
<1> SUFFICES ASSUME IInv, Next
             PROVE  ExplainedStep
  OBVIOUS
<1>1. ASSUME NEW o \in Orders, OrderStep(o)
      PROVE  ExplainedStep
  BY <1>1, BirthExplained, TermsExplained, TransitionExplained, CorrectionExplained
     DEF OrderStep
<1>2. CASE Tick
  <2>1. \A o \in Orders : Explained(order[o], order[o])
    BY SideExplained
  <2>. QED
    BY <1>2, <2>1 DEF Tick, ExplainedStep
<1>3. CASE \E shown \in SUBSET Orders, r \in Riders : SettleRiderCash(shown, r)
  BY <1>3, SettlementExplained
<1>4. CASE \E from, to \in Outlets, source \in Sources : RepointOrders(from, to, source)
  BY <1>4, ListingExplained
<1>. QED
  BY <1>1, <1>2, <1>3, <1>4 DEF Next

-----------------------------------------------------------------------------
(* How an order ended changes only by its rider's correction, inside the     *)
(* window, before its cash is taken, and not to delivered once the bag is    *)
(* back.                                                                     *)
THEOREM OutcomeFinal == Spec => OutcomeIsFinal
<1>1. IInv /\ [Next]_vars => [\A o \in Orders : OutcomeStep(order[o], order'[o])]_vars
  BY StepExplained DEF ExplainedStep, Explained
<1>. QED
  BY <1>1, AllSound, PTL DEF Spec, OutcomeIsFinal

(* Cash leaves a rider's wallet only for one of the reasons WalletStep names. *)
THEOREM CashExplained == Spec => CashLeavesWalletExplained
<1>1. IInv /\ [Next]_vars => [\A o \in Orders, r \in Riders : WalletStep(order[o], order'[o], r)]_vars
  BY StepExplained DEF ExplainedStep, Explained
<1>. QED
  BY <1>1, AllSound, PTL DEF Spec, CashLeavesWalletExplained

-----------------------------------------------------------------------------
(* OrderLifecycle implements BagCustody: every handler moves an order's bag   *)
(* as the custody specification allows, or not at all.                        *)

(* How one step may change where a bag is. *)
MayGo(from, to) ==
  \/ from = to
  \/ from = "none" /\ to = "counter"
  \/ from = "counter" /\ to = "out"
  \/ from = "out" /\ to = "counter"
  \/ from \in {"counter", "out", "comingBack"} /\ to = "handedOver"
  \/ from \in {"out", "handedOver"} /\ to = "comingBack"
  \/ from = "comingBack" /\ to = "returned"
  \/ from \in {"counter", "out"} /\ to = "writtenOff"
  \/ from \in Custody!Places \ {"none"} /\ to \in {"offBook", "none"}

-----------------------------------------------------------------------------
(* Where a document's bag is, case by case.                                  *)
LEMMA BagCases ==
  ASSUME NEW d \in Document
  PROVE  /\ BagOf(d) \in Custody!Places
         /\ BagOf(d) = "none" <=> d.status \in {"ABSENT", "DELETED"}
         /\ d.status \notin {"ABSENT", "DELETED"} /\ d.bypassed => BagOf(d) = "offBook"
BY DEF BagOf, Document, Custody!Places

LEMMA BagOnBook ==
  ASSUME NEW d, d.status \notin {"ABSENT", "DELETED"}, ~d.bypassed
  PROVE  /\ d.status = "DISPATCHED" => BagOf(d) = "out"
         /\ d.status = "DELIVERED" => BagOf(d) = "handedOver"
         /\ d.status \in {"MISDELIVERY", "REFUNDED"} => BagOf(d) = "writtenOff"
         /\ d.status \notin {"DISPATCHED", "DELIVERED", "MISDELIVERY", "REFUNDED"} =>
              /\ d.rto = "PENDING" => BagOf(d) = "comingBack"
              /\ d.rto = "RETURNED" => BagOf(d) = "returned"
              /\ d.rto = "NONE" => BagOf(d) = "counter"
BY DEF BagOf

LEMMA BagSame ==
  ASSUME NEW d, NEW e, e.status = d.status, e.bypassed = d.bypassed, e.rto = d.rto
  PROVE  BagOf(e) = BagOf(d)
BY DEF BagOf

-----------------------------------------------------------------------------
(* How the handlers that move a bag move it.                                 *)
LEMMA TransitionMoves ==
  ASSUME NEW d \in Document, Sound(d), NEW role, NEW who, NEW to, NEW handedTo, now \in Nat,
         MayMove(d, role, who, to, handedTo)
  PROVE  MayGo(BagOf(d), BagOf(Transitioned(d, role, who, to, handedTo)))
<1> DEFINE e == Transitioned(d, role, who, to, handedTo)
<1>1. /\ e.status = to /\ e.bypassed = d.bypassed /\ e.rto = RtoAfter(d, to)
  BY TransitionedFields
<1>2. /\ d.status \in OpenStatuses /\ to \in OrderStatuses
      /\ to = "DISPATCHED" => d.status = "PREPARED"
      /\ d.status = "DISPATCHED" /\ to \in OpenStatuses => to = "PREPARED"
  BY TransitionTable DEF MayMove
<1>3. /\ d.status \notin {"ABSENT", "DELETED"} /\ to \notin {"ABSENT", "DELETED"}
      /\ d.status \notin {"DELIVERED", "MISDELIVERY", "REFUNDED"} \cup RtoOpeningStatuses
  BY <1>2 DEF OpenStatuses, OrderStatuses, TerminalStatuses, RtoOpeningStatuses
<1>4. e \in Document
  BY TransitionedType
<1> HIDE DEF e
<1>5. CASE d.bypassed
  <2>1. BagOf(d) = "offBook" /\ BagOf(e) = "offBook"
    BY <1>1, <1>3, <1>4, <1>5, BagCases
  <2>. QED
    BY <2>1 DEF MayGo, e
<1>6. CASE ~d.bypassed
  <2>1. d.rto = "NONE"
    BY <1>3, <1>6 DEF OnBook, Sound, Document
  <2>2. CASE d.status = "DISPATCHED"
    <3>1. BagOf(d) = "out"
      BY <1>3, <1>6, <2>2, BagOnBook
    <3>2. to = "PREPARED" \/ to \in TerminalStatuses
      BY <1>2, <2>2 DEF OrderStatuses
    <3>3. CASE to \in RtoOpeningStatuses
      <4>1. BagOf(e) = "comingBack"
        BY <1>1, <1>3, <1>6, <2>2, <3>3, BagOnBook DEF RtoAfter, OpensReturn, RtoOpeningStatuses
      <4>. QED
        BY <3>1, <4>1 DEF MayGo, e
    <3>4. CASE to \notin RtoOpeningStatuses
      <4>1. e.rto = "NONE" /\ to # "DISPATCHED"
        BY <1>1, <2>1, <3>2, <3>4 DEF RtoAfter, OpensReturn, TerminalStatuses
      <4>2. BagOf(e) \in {"counter", "handedOver", "writtenOff"}
        BY <1>1, <1>3, <1>6, <4>1, BagOnBook
      <4>. QED
        BY <3>1, <4>2 DEF MayGo, e
    <3>. QED
      BY <3>3, <3>4
  <2>3. CASE d.status # "DISPATCHED"
    <3>1. BagOf(d) = "counter"
      BY <1>3, <1>6, <2>1, <2>3, BagOnBook
    <3>2. e.rto = "NONE"
      BY <1>1, <2>1, <2>3 DEF RtoAfter, OpensReturn
    <3>3. BagOf(e) \in {"out", "counter", "handedOver", "writtenOff"}
      BY <1>1, <1>3, <1>6, <3>2, BagOnBook
    <3>. QED
      BY <3>1, <3>3 DEF MayGo, e
  <2>. QED
    BY <2>2, <2>3
<1>. QED
  BY <1>5, <1>6 DEF e

LEMMA CorrectionMoves ==
  ASSUME NEW d \in Document, Sound(d), NEW r \in Riders, now \in Nat,
         d.status \in RiderOutcomes, d.settledFor = NoOne
  PROVE  /\ d.status # "DELIVERED" /\ d.rto # "RETURNED" =>
              MayGo(BagOf(d), BagOf(Push(CorrectedDelivered(d, r), "DELIVERED")))
         /\ d.status # "FAILED" => MayGo(BagOf(d), BagOf(Push(CorrectedFailed(d), "FAILED")))
<1> DEFINE delivered == Push(CorrectedDelivered(d, r), "DELIVERED")
           failed    == Push(CorrectedFailed(d), "FAILED")
<1>1. /\ delivered.status = "DELIVERED" /\ delivered.bypassed = d.bypassed
      /\ failed.status = "FAILED" /\ failed.bypassed = d.bypassed
      /\ failed.rto = IF d.status = "DELIVERED" /\ d.rto = "NONE" THEN "PENDING" ELSE d.rto
  BY DEF CorrectedDelivered, CorrectedFailed, Push, Document
<1>2. delivered \in Document /\ failed \in Document
  BY CorrectedDeliveredSound, CorrectedFailedSound
<1>3. d.status \notin {"ABSENT", "DELETED", "DISPATCHED", "MISDELIVERY", "REFUNDED"}
  BY DEF RiderOutcomes
<1> HIDE DEF delivered, failed
<1>4. CASE d.bypassed
  BY <1>1, <1>2, <1>3, <1>4, BagCases DEF MayGo, delivered, failed
<1>5. CASE ~d.bypassed
  <2>1. BagOf(delivered) = "handedOver"
    BY <1>1, <1>5, BagOnBook
  <2>2. d.status # "DELIVERED" /\ d.rto # "RETURNED" => BagOf(d) \in {"counter", "comingBack"}
    BY <1>3, <1>5, BagOnBook DEF Document
  <2>3. CASE d.status = "DELIVERED"
    <3>1. d.rto = "NONE"
      BY <1>3, <1>5, <2>3 DEF OnBook, Sound, RtoOpeningStatuses
    <3>2. BagOf(d) = "handedOver" /\ BagOf(failed) = "comingBack"
      BY <1>1, <1>3, <1>5, <2>3, <3>1, BagOnBook
    <3>. QED
      BY <2>3, <3>2 DEF MayGo, failed
  <2>4. CASE d.status # "DELIVERED"
    <3>1. failed.rto = d.rto
      BY <1>1, <2>4
    <3>2. BagOf(failed) = BagOf(d)
      BY <1>1, <1>3, <1>5, <2>4, <3>1, BagOnBook DEF Document
    <3>. QED
      BY <2>1, <2>2, <3>2 DEF MayGo, delivered, failed
  <2>. QED
    BY <2>3, <2>4
<1>. QED
  BY <1>4, <1>5 DEF delivered, failed

-----------------------------------------------------------------------------
(* One document moved is one custody step, or none.                          *)
Bags == [o \in Orders |-> BagOf(order[o])]

LEMMA OneBag ==
  ASSUME TypeOK, NEW o \in Orders, NEW e, order' = [order EXCEPT ![o] = e],
         MayGo(BagOf(order[o]), BagOf(e))
  PROVE  [Custody!Next]_Bags
<1>1. Bags' = [Bags EXCEPT ![o] = BagOf(e)]
  <2>1. Bags' = [p \in Orders |-> BagOf(order'[p])]
    BY DEF Bags, BagOf
  <2>2. \A p \in Orders : order'[p] = IF p = o THEN e ELSE order[p]
    BY DEF TypeOK
  <2>3. \A p \in Orders : BagOf(order'[p]) = IF p = o THEN BagOf(e) ELSE BagOf(order[p])
    BY <2>2
  <2>4. Bags' = [p \in Orders |-> IF p = o THEN BagOf(e) ELSE BagOf(order[p])]
    BY <2>1, <2>3
  <2>5. Bags = [p \in Orders |-> BagOf(order[p])]
    BY DEF Bags
  <2>. QED
    BY <2>4, <2>5
<1>2. CASE BagOf(e) = BagOf(order[o])
  <2>1. Bags' = Bags
    BY <1>1, <1>2 DEF Bags
  <2>. QED
    BY <2>1
<1>3. CASE BagOf(e) # BagOf(order[o])
  <2>1. Bags[o] = BagOf(order[o])
    BY DEF Bags
  <2>. QED
    BY <1>1, <1>3, <2>1
       DEF MayGo, Bags, Custody!Next, Custody!Move, Custody!Cook, Custody!Take, Custody!PutBack,
           Custody!HandOver, Custody!TurnBack, Custody!TakeBack, Custody!WriteOff,
           Custody!OffBook, Custody!Forget
<1>. QED
  BY <1>2, <1>3

LEMMA SameBags ==
  ASSUME \A o \in Orders : BagOf(order'[o]) = BagOf(order[o])
  PROVE  [Custody!Next]_Bags
<1>1. Bags' = [o \in Orders |-> BagOf(order'[o])]
  BY DEF Bags, BagOf
<1>2. Bags' = Bags
  BY <1>1 DEF Bags
<1>. QED
  BY <1>2

LEMMA DocumentBag ==
  ASSUME IInv, NEW o \in Orders
  PROVE  /\ BagOf(order[o]) \in Custody!Places
         /\ Exists(o) => BagOf(order[o]) # "none"
BY DocumentOf, BagCases DEF Exists

-----------------------------------------------------------------------------
(* One step per action.                                                      *)
LEMMA BornAndGone ==
  ASSUME IInv, NEW o \in Orders, Create(o) \/ CreateEnquiry(o) \/ DeleteOrder(o)
  PROVE  [Custody!Next]_Bags
<1>1. TypeOK
  BY DEF IInv
<1>2. ASSUME NEW e, order[o].status = "ABSENT", order' = [order EXCEPT ![o] = e],
             e.status \in {"RECEIVED", "ENQUIRY"}, ~e.bypassed, e.rto = "NONE"
      PROVE  [Custody!Next]_Bags
  <2>1. BagOf(order[o]) = "none"
    BY <1>2, DocumentOf, BagCases
  <2>2. BagOf(e) = "counter"
    BY <1>2, BagOnBook
  <2>. QED
    BY <1>1, <1>2, <2>1, <2>2, OneBag DEF MayGo
<1>3. CASE Create(o)
  <2>1. PICK k \in Outlets, c \in BOOLEAN :
          order' = [order EXCEPT ![o] =
                      [Blank EXCEPT !.status = "RECEIVED", !.outlet = k, !.cod = c]]
    BY <1>3 DEF Create
  <2> DEFINE e == [Blank EXCEPT !.status = "RECEIVED", !.outlet = k, !.cod = c]
  <2>2. e.status = "RECEIVED" /\ ~e.bypassed /\ e.rto = "NONE"
    BY DEF Blank
  <2> HIDE DEF e
  <2>. QED
    BY <1>2, <1>3, <2>1, <2>2 DEF Create, e
<1>4. CASE CreateEnquiry(o)
  <2> DEFINE e == [Blank EXCEPT !.status = "ENQUIRY"]
  <2>1. e.status = "ENQUIRY" /\ ~e.bypassed /\ e.rto = "NONE"
    BY DEF Blank
  <2>2. order' = [order EXCEPT ![o] = e]
    BY <1>4 DEF CreateEnquiry
  <2> HIDE DEF e
  <2>. QED
    BY <1>2, <1>4, <2>1, <2>2 DEF CreateEnquiry
<1>5. CASE DeleteOrder(o)
  <2> DEFINE e == [Blank EXCEPT !.status = "DELETED"]
  <2>1. BagOf(e) = "none"
    BY BlankSound, BagCases DEF Blank
  <2>2. order' = [order EXCEPT ![o] = e]
    BY <1>5 DEF DeleteOrder
  <2>3. BagOf(order[o]) \in Custody!Places \ {"none"}
    BY <1>5, DocumentBag DEF DeleteOrder
  <2> HIDE DEF e
  <2>. QED
    BY <1>1, <2>1, <2>2, <2>3, OneBag DEF MayGo
<1>. QED
  BY <1>3, <1>4, <1>5

LEMMA TermsKeepBag ==
  ASSUME IInv, NEW o \in Orders, WriteQuote(o) \/ AdminEditOrder(o) \/ AssignAgents(o) \/ AssignRiders(o)
  PROVE  [Custody!Next]_Bags
<1> DEFINE d == order[o]
<1>1. d \in Document /\ PushSide(d) \in Document /\ TypeOK
  BY DocumentOf, PushSideSound DEF IInv
<1>2. PushSide(d).status = d.status /\ PushSide(d).bypassed = d.bypassed /\ PushSide(d).rto = d.rto
  BY <1>1 DEF PushSide, Push, Document
<1>3. ASSUME NEW e, order' = [order EXCEPT ![o] = e],
             e.status = d.status, e.bypassed = d.bypassed, e.rto = d.rto
      PROVE  [Custody!Next]_Bags
  <2>1. BagOf(e) = BagOf(order[o])
    BY <1>3, BagSame
  <2>. QED
    BY <1>1, <1>3, <2>1, OneBag DEF MayGo
<1> HIDE DEF d
<1>4. CASE WriteQuote(o)
  <2>1. PICK k \in Outlets, c \in BOOLEAN :
          order' = [order EXCEPT ![o] = [d EXCEPT !.outlet = k, !.quoted = TRUE, !.cod = c]]
    BY <1>4 DEF WriteQuote, d
  <2> DEFINE e == [d EXCEPT !.outlet = k, !.quoted = TRUE, !.cod = c]
  <2>2. e.status = d.status /\ e.bypassed = d.bypassed /\ e.rto = d.rto
    BY <1>1 DEF Document
  <2> HIDE DEF e
  <2>. QED
    BY <1>3, <2>1, <2>2 DEF e
<1>5. CASE AdminEditOrder(o)
  <2>1. PICK k \in Outlets \cup {NoOutlet}, q \in BOOLEAN, c \in BOOLEAN :
          order' = [order EXCEPT ![o] =
                      [PushSide(d) EXCEPT !.outlet = k, !.quoted = q, !.cod = c]]
    BY <1>5 DEF AdminEditOrder, d
  <2> DEFINE e == [PushSide(d) EXCEPT !.outlet = k, !.quoted = q, !.cod = c]
  <2>2. e.status = d.status /\ e.bypassed = d.bypassed /\ e.rto = d.rto
    BY <1>1, <1>2 DEF Document
  <2> HIDE DEF e
  <2>. QED
    BY <1>3, <2>1, <2>2 DEF e
<1>6. CASE AssignAgents(o) \/ AssignRiders(o)
  <2>1. PICK list \in RiderLists : SetRiders(o, list)
    BY <1>6 DEF AssignAgents, AssignRiders
  <2> DEFINE e == [PushSide(d) EXCEPT !.agents = list, !.assigned = list # << >>]
  <2>2. e.status = d.status /\ e.bypassed = d.bypassed /\ e.rto = d.rto
    BY <1>1, <1>2 DEF Document
  <2>3. order' = [order EXCEPT ![o] = e]
    BY <2>1 DEF SetRiders, d
  <2> HIDE DEF e
  <2>. QED
    BY <1>3, <2>2, <2>3
<1>. QED
  BY <1>4, <1>5, <1>6

LEMMA TransitionBag ==
  ASSUME IInv, NEW o \in Orders, OfficeTransition(o) \/ HandToRider(o) \/ RiderTransition(o)
  PROVE  [Custody!Next]_Bags
<1>1. ASSUME NEW role \in Roles, NEW who, NEW to, NEW handedTo \in Riders \cup {NoOne},
             role = "DELIVERY_AGENT" => who \in Riders,
             handedTo # NoOne => to = "DISPATCHED",
             TransitionOrder(o, role, who, to, handedTo)
      PROVE  [Custody!Next]_Bags
  <2>1. MayMove(order[o], role, who, to, handedTo)
    BY <1>1 DEF MayMove, TransitionOrder, InScope
  <2>2. MayGo(BagOf(order[o]), BagOf(Transitioned(order[o], role, who, to, handedTo)))
    BY <2>1, DocumentOf, TransitionMoves
  <2>3. TypeOK
    BY DEF IInv
  <2>. QED
    BY <1>1, <2>2, <2>3, OneBag DEF TransitionOrder
<1>2. CASE OfficeTransition(o)
  BY <1>1, <1>2 DEF OfficeTransition, Office, Roles
<1>3. CASE HandToRider(o)
  BY <1>1, <1>3 DEF HandToRider, Roles
<1>4. CASE RiderTransition(o)
  BY <1>1, <1>4 DEF RiderTransition, Roles
<1>. QED
  BY <1>2, <1>3, <1>4

LEMMA BypassBag ==
  ASSUME IInv, NEW o \in Orders, AdminOverrideStatus(o) \/ FlagRatingOrder(o)
  PROVE  [Custody!Next]_Bags
<1>1. ASSUME NEW to \in Statuses,
             order' = [order EXCEPT ![o] =
                         Push([order[o] EXCEPT !.status = to, !.bypassed = TRUE], to)]
      PROVE  BagOf(order[o]) \in Custody!Places \ {"none"} => [Custody!Next]_Bags
  <2> DEFINE e == Push([order[o] EXCEPT !.status = to, !.bypassed = TRUE], to)
  <2>1. e.status = to /\ e.bypassed
    BY DocumentOf DEF Push, Document
  <2>2. to \notin {"ABSENT", "DELETED"}
    BY ConstantsAssumption DEF Statuses, OrderStatuses, OpenStatuses, TerminalStatuses
  <2>3. order' = [order EXCEPT ![o] = e] /\ TypeOK
    BY <1>1 DEF IInv
  <2> HIDE DEF e
  <2>4. BagOf(e) = "offBook"
    BY <2>1, <2>2 DEF BagOf
  <2>. QED
    BY <2>3, <2>4, OneBag DEF MayGo
<1>2. BagOf(order[o]) \in Custody!Places \ {"none"}
  BY DocumentBag DEF AdminOverrideStatus, FlagRatingOrder
<1>3. CASE AdminOverrideStatus(o)
  BY <1>1, <1>2, <1>3 DEF AdminOverrideStatus, Statuses
<1>4. CASE FlagRatingOrder(o)
  BY <1>1, <1>2, <1>4 DEF FlagRatingOrder, Statuses, OrderStatuses, TerminalStatuses
<1>. QED
  BY <1>3, <1>4

LEMMA CorrectionBag ==
  ASSUME IInv, NEW o \in Orders, NEW r \in Riders, NEW requested \in RiderOutcomes,
         CorrectRiderOutcome(o, r, requested)
  PROVE  [Custody!Next]_Bags
<1>1. /\ order[o] \in Document /\ Sound(order[o]) /\ now \in Nat /\ TypeOK
      /\ order[o].status \in RiderOutcomes /\ order[o].settledFor = NoOne
  BY DocumentOf DEF IInv, CorrectRiderOutcome
<1>2. CASE requested = "DELIVERED"
  <2>1. order[o].status # "DELIVERED" /\ order[o].rto # "RETURNED"
    BY <1>2 DEF CorrectRiderOutcome
  <2>2. MayGo(BagOf(order[o]), BagOf(Push(CorrectedDelivered(order[o], r), "DELIVERED")))
    BY <1>1, <2>1, CorrectionMoves
  <2>. QED
    BY <1>1, <1>2, <2>2, OneBag DEF CorrectRiderOutcome
<1>3. CASE requested # "DELIVERED"
  <2>1. order[o].status # "FAILED"
    BY <1>3 DEF CorrectRiderOutcome, RiderOutcomes
  <2>2. MayGo(BagOf(order[o]), BagOf(Push(CorrectedFailed(order[o]), "FAILED")))
    BY <1>1, <2>1, CorrectionMoves
  <2>. QED
    BY <1>1, <1>3, <2>2, OneBag DEF CorrectRiderOutcome, RiderOutcomes
<1>. QED
  BY <1>2, <1>3

LEMMA ReturnBag ==
  ASSUME IInv, NEW o \in Orders, MarkReturnedToOrigin(o)
  PROVE  [Custody!Next]_Bags
<1> DEFINE d == order[o]
           e == [PushSide(d) EXCEPT !.rto = "RETURNED"]
<1>1. /\ d \in Document /\ Sound(d) /\ TypeOK /\ d.rto = "PENDING"
      /\ d.status \notin {"ABSENT", "DELETED"}
      /\ order' = [order EXCEPT ![o] = e]
  BY DocumentOf DEF IInv, MarkReturnedToOrigin, Exists
<1>2. e.status = d.status /\ e.bypassed = d.bypassed /\ e.rto = "RETURNED"
  BY <1>1 DEF PushSide, Push, Document
<1> HIDE DEF d, e
<1>3. CASE d.bypassed
  <2>1. BagOf(d) = "offBook" /\ BagOf(e) = "offBook"
    BY <1>1, <1>2, <1>3 DEF BagOf
  <2>. QED
    BY <1>1, <2>1, OneBag DEF MayGo, d
<1>4. CASE ~d.bypassed
  <2>1. d.status \in RtoOpeningStatuses
    BY <1>1, <1>4 DEF OnBook, Sound
  <2>2. BagOf(d) = "comingBack" /\ BagOf(e) = "returned"
    BY <1>1, <1>2, <1>4, <2>1, BagOnBook DEF RtoOpeningStatuses
  <2>. QED
    BY <1>1, <2>2, OneBag DEF MayGo, d
<1>. QED
  BY <1>3, <1>4

LEMMA CashKeepsBags ==
  ASSUME IInv, NEW shown \in SUBSET Orders, NEW r \in Riders, SettleRiderCash(shown, r)
  PROVE  [Custody!Next]_Bags
<1>1. ASSUME NEW o \in Orders
      PROVE  BagOf([PushSide(order[o]) EXCEPT !.settledFor = r]) = BagOf(order[o])
  <2> DEFINE d == order[o]
             s == [PushSide(d) EXCEPT !.settledFor = r]
  <2>1. d \in Document /\ PushSide(d) \in Document
    BY <1>1, DocumentOf, PushSideSound
  <2>2. s.status = d.status /\ s.bypassed = d.bypassed /\ s.rto = d.rto
    BY <2>1 DEF PushSide, Push, Document
  <2> HIDE DEF s, d
  <2>3. BagOf(s) = BagOf(d)
    BY <2>2, BagSame
  <2>. QED
    BY <2>3 DEF s, d
<1>2. \A o \in Orders : order'[o] \in {order[o], [PushSide(order[o]) EXCEPT !.settledFor = r]}
  BY DEF SettleRiderCash
<1>. QED
  BY <1>1, <1>2, SameBags

LEMMA ListingKeepsBags ==
  ASSUME IInv, NEW from \in Outlets, NEW to \in Outlets, NEW source \in Sources,
         RepointOrders(from, to, source)
  PROVE  [Custody!Next]_Bags
<1>1. ASSUME NEW o \in Orders
      PROVE  BagOf([order[o] EXCEPT !.outlet = to]) = BagOf(order[o])
  <2> DEFINE l == [order[o] EXCEPT !.outlet = to]
  <2>1. l.status = order[o].status /\ l.bypassed = order[o].bypassed /\ l.rto = order[o].rto
    BY <1>1, DocumentOf DEF Document
  <2> HIDE DEF l
  <2>2. BagOf(l) = BagOf(order[o])
    BY <2>1, BagSame
  <2>. QED
    BY <2>2 DEF l
<1>2. \A o \in Orders : order'[o] \in {order[o], [order[o] EXCEPT !.outlet = to]}
  BY DEF RepointOrders
<1>. QED
  BY <1>1, <1>2, SameBags

LEMMA CustodyInit == Init => Custody!Init
<1> SUFFICES ASSUME Init
             PROVE  Custody!Init
  OBVIOUS
<1>1. BagOf(Blank) = "none"
  BY DEF Blank, BagOf
<1>2. ASSUME NEW e \in RefiledByRider
      PROVE  BagOf(e) = "counter"
  <2>1. PICK k \in Outlets, c \in BOOLEAN, r \in Riders : e = Refiled(k, c, r)
    BY <1>2 DEF RefiledByRider
  <2>2. e.status = "CANCELLED" /\ ~e.bypassed /\ e.rto = "NONE"
    BY <2>1 DEF Refiled, Blank
  <2>. QED
    BY <2>2, BagOnBook
<1>3. \A o \in Orders : BagOf(order[o]) \in {"none", "counter"}
  BY <1>1, <1>2 DEF Init
<1>. QED
  BY <1>3 DEF Custody!Init

LEMMA CustodyStep == IInv /\ [Next]_vars => [Custody!Next]_Bags
<1> SUFFICES ASSUME IInv, [Next]_vars
             PROVE  [Custody!Next]_Bags
  OBVIOUS
<1>1. ASSUME NEW o \in Orders, OrderStep(o)
      PROVE  [Custody!Next]_Bags
  BY <1>1, BornAndGone, TermsKeepBag, TransitionBag, BypassBag, CorrectionBag, ReturnBag
     DEF OrderStep
<1>2. CASE UNCHANGED order
  BY <1>2, SameBags
<1>3. CASE \E shown \in SUBSET Orders, r \in Riders : SettleRiderCash(shown, r)
  <2>1. PICK shown \in SUBSET Orders, r \in Riders : SettleRiderCash(shown, r)
    BY <1>3
  <2>. QED
    BY <2>1, CashKeepsBags
<1>4. CASE \E from, to \in Outlets, source \in Sources : RepointOrders(from, to, source)
  <2>1. PICK from \in Outlets, to \in Outlets, source \in Sources : RepointOrders(from, to, source)
    BY <1>4
  <2>. QED
    BY <2>1, ListingKeepsBags
<1>. QED
  BY <1>1, <1>2, <1>3, <1>4 DEF Next, vars, Tick

(* The order lifecycle implements the custody of bags: whatever the handlers *)
(* do, a bag on the books moves only as BagCustody lets it.                  *)
THEOREM ImplementsCustody == Spec => CustodySpec
<1>1. IInv /\ [Next]_vars => [Custody!Next]_([o \in Orders |-> BagOf(order[o])])
  BY CustodyStep DEF Bags
<1>. QED
  BY <1>1, CustodyInit, AllSound, PTL DEF Spec, CustodySpec, Custody!Spec

-----------------------------------------------------------------------------
(* OrderLifecycle keeps to OrderPath: whatever the handlers do to the rest   *)
(* of a document, its status goes where the modules that follow an order     *)
(* from outside take it to go.                                               *)
PathOf(d) == IF d.status = "CANCELLED" /\ d.cancelledBy # NoOne THEN "REFILED" ELSE d.status

Paths == [o \in Orders |-> PathOf(order[o])]

Path == INSTANCE OrderPath WITH status <- [o \in Orders |-> PathOf(order[o])]

PathSpec == Path!Spec

LEMMA OnePath ==
  ASSUME TypeOK, NEW o \in Orders, NEW e, order' = [order EXCEPT ![o] = e]
  PROVE  /\ Paths' = [Paths EXCEPT ![o] = PathOf(e)]
         /\ Paths[o] = PathOf(order[o])
         /\ PathOf(e) = PathOf(order[o]) => Paths' = Paths
<1>1. Paths' = [p \in Orders |-> PathOf(order'[p])]
  BY DEF Paths, PathOf
<1>2. \A p \in Orders : order'[p] = IF p = o THEN e ELSE order[p]
  BY DEF TypeOK
<1>3. \A p \in Orders : PathOf(order'[p]) = IF p = o THEN PathOf(e) ELSE PathOf(order[p])
  BY <1>2
<1>4. Paths' = [p \in Orders |-> IF p = o THEN PathOf(e) ELSE PathOf(order[p])]
  BY <1>1, <1>3
<1>5. Paths = [p \in Orders |-> PathOf(order[p])]
  BY DEF Paths
<1>. QED
  BY <1>4, <1>5

(* The status a side event leaves is the one it found, except that a         *)
(* re-filed order is the office's from then on.                              *)
LEMMA SideEventPath ==
  ASSUME NEW d \in Document, NEW e, e.status = d.status, e.cancelledBy = PushSide(d).cancelledBy
  PROVE  PathOf(e) = PathOf(d) \/ (PathOf(d) = "REFILED" /\ PathOf(e) = "CANCELLED")
BY DEF PathOf, PushSide, Push, Document

(* An event of another status takes the order there.                         *)
LEMMA EventPath ==
  ASSUME NEW d \in Document, NEW to, d.status = to
  PROVE  PathOf(Push(d, to)) = to
BY DEF PathOf, Push, Document

LEMMA ExistsOnPath ==
  ASSUME TypeOK, NEW o \in Orders, Exists(o)
  PROVE  PathOf(order[o]) \notin {"ABSENT", "DELETED"}
BY DEF Exists, PathOf

LEMMA SidePath ==
  ASSUME TypeOK, NEW o \in Orders, NEW e, order' = [order EXCEPT ![o] = e],
         \/ PathOf(e) = PathOf(order[o])
         \/ PathOf(order[o]) = "REFILED" /\ PathOf(e) = "CANCELLED"
  PROVE  [Path!Next]_Paths
BY OnePath DEF Paths, Path!Next, Path!Step, Path!Refile, Path!Go

-----------------------------------------------------------------------------
LEMMA BornAndGonePath ==
  ASSUME TypeOK, NEW o \in Orders, Create(o) \/ CreateEnquiry(o) \/ DeleteOrder(o)
  PROVE  [Path!Next]_Paths
<1>1. ASSUME NEW e, order[o].status = "ABSENT", order' = [order EXCEPT ![o] = e],
             e.status \in {"RECEIVED", "ENQUIRY"}
      PROVE  [Path!Next]_Paths
  <2>1. PathOf(order[o]) = "ABSENT" /\ PathOf(e) = e.status
    BY <1>1 DEF PathOf
  <2>. QED
    BY <1>1, <2>1, OnePath DEF Paths, Path!Next, Path!Step, Path!Born, Path!Go
<1>2. CASE Create(o)
  <2>1. PICK k \in Outlets, c \in BOOLEAN :
          order' = [order EXCEPT ![o] =
                      [Blank EXCEPT !.status = "RECEIVED", !.outlet = k, !.cod = c]]
    BY <1>2 DEF Create
  <2>2. [Blank EXCEPT !.status = "RECEIVED", !.outlet = k, !.cod = c].status = "RECEIVED"
    BY DEF Blank
  <2>. QED
    BY <1>1, <1>2, <2>1, <2>2 DEF Create
<1>3. CASE CreateEnquiry(o)
  <2>1. [Blank EXCEPT !.status = "ENQUIRY"].status = "ENQUIRY"
    BY DEF Blank
  <2>. QED
    BY <1>1, <1>3, <2>1 DEF CreateEnquiry
<1>4. CASE DeleteOrder(o)
  <2>1. PathOf([Blank EXCEPT !.status = "DELETED"]) = "DELETED"
    BY DEF Blank, PathOf
  <2>2. PathOf(order[o]) \notin {"ABSENT", "DELETED"}
    BY <1>4, ExistsOnPath DEF DeleteOrder
  <2>3. order' = [order EXCEPT ![o] = [Blank EXCEPT !.status = "DELETED"]]
    BY <1>4 DEF DeleteOrder
  <2>. QED
    BY <2>1, <2>2, <2>3, OnePath DEF Paths, Path!Next, Path!Step, Path!Delete, Path!Exists
<1>. QED
  BY <1>2, <1>3, <1>4

LEMMA TermsPath ==
  ASSUME TypeOK, NEW o \in Orders,
         WriteQuote(o) \/ AdminEditOrder(o) \/ AssignAgents(o) \/ AssignRiders(o)
         \/ MarkReturnedToOrigin(o)
  PROVE  [Path!Next]_Paths
<1> DEFINE d == order[o]
           s == PushSide(d)
<1>1. d \in Document /\ s.status = d.status /\ s \in Document
  <2>1. d \in Document /\ now \in Nat
    BY DEF TypeOK
  <2>2. s.status = d.status
    BY <2>1 DEF PushSide, Push, Document
  <2>. QED
    BY <2>1, <2>2, PushType DEF PushSide
<1> HIDE DEF d, s
<1>2. ASSUME NEW e, order' = [order EXCEPT ![o] = e], e.status = s.status, e.cancelledBy = s.cancelledBy
      PROVE  [Path!Next]_Paths
  <2>1. PathOf(e) = PathOf(d) \/ (PathOf(d) = "REFILED" /\ PathOf(e) = "CANCELLED")
    BY <1>1, <1>2, SideEventPath DEF s
  <2>. QED
    BY <1>2, <2>1, SidePath DEF d
<1>3. CASE WriteQuote(o)
  <2>1. PICK k \in Outlets, c \in BOOLEAN :
          order' = [order EXCEPT ![o] = [d EXCEPT !.outlet = k, !.quoted = TRUE, !.cod = c]]
    BY <1>3 DEF WriteQuote, d
  <2>2. PathOf([d EXCEPT !.outlet = k, !.quoted = TRUE, !.cod = c]) = PathOf(d)
    BY <1>1 DEF PathOf, Document
  <2>. QED
    BY <2>1, <2>2, SidePath DEF d
<1>4. CASE AdminEditOrder(o)
  <2>1. PICK k \in Outlets \cup {NoOutlet}, q \in BOOLEAN, c \in BOOLEAN :
          order' = [order EXCEPT ![o] = [s EXCEPT !.outlet = k, !.quoted = q, !.cod = c]]
    BY <1>4 DEF AdminEditOrder, d, s
  <2> DEFINE e == [s EXCEPT !.outlet = k, !.quoted = q, !.cod = c]
  <2>2. e.status = s.status /\ e.cancelledBy = s.cancelledBy
    BY <1>1 DEF Document
  <2> HIDE DEF e
  <2>. QED
    BY <1>2, <2>1, <2>2 DEF e
<1>5. CASE AssignAgents(o) \/ AssignRiders(o)
  <2>1. PICK list \in RiderLists : SetRiders(o, list)
    BY <1>5 DEF AssignAgents, AssignRiders
  <2> DEFINE e == [s EXCEPT !.agents = list, !.assigned = list # << >>]
  <2>2. e.status = s.status /\ e.cancelledBy = s.cancelledBy
    BY <1>1 DEF Document
  <2>3. order' = [order EXCEPT ![o] = e]
    BY <2>1 DEF SetRiders, d, s
  <2> HIDE DEF e
  <2>. QED
    BY <1>2, <2>2, <2>3
<1>6. CASE MarkReturnedToOrigin(o)
  <2> DEFINE e == [s EXCEPT !.rto = "RETURNED"]
  <2>1. e.status = s.status /\ e.cancelledBy = s.cancelledBy
    BY <1>1 DEF Document
  <2>2. order' = [order EXCEPT ![o] = e]
    BY <1>6 DEF MarkReturnedToOrigin, d, s
  <2> HIDE DEF e
  <2>. QED
    BY <1>2, <2>1, <2>2
<1>. QED
  BY <1>3, <1>4, <1>5, <1>6

LEMMA TransitionPath ==
  ASSUME TypeOK, NEW o \in Orders, NEW role \in Roles, NEW who, NEW to \in OrderStatuses,
         NEW handedTo, TransitionOrder(o, role, who, to, handedTo)
  PROVE  [Path!Next]_Paths
<1> DEFINE d == order[o]
           e == Transitioned(d, role, who, to, handedTo)
<1>1. /\ d \in Document /\ IsTransitionAllowed(d.status, to, role)
      /\ order' = [order EXCEPT ![o] = e]
  BY DEF TransitionOrder, TypeOK
<1>2. e.status = to /\ (to = "CANCELLED" => e.cancelledBy = NoOne)
  BY <1>1 DEF Transitioned, Push, Document
<1> HIDE DEF d, e
<1>3. d.status # "CANCELLED"
  BY <1>1 DEF IsTransitionAllowed, AdminEdges, KitchenEdges, Cancellable, OpenStatuses
<1>4. PathOf(d) = d.status /\ PathOf(e) = to
  BY <1>2, <1>3 DEF PathOf
<1>5. Paths' = [Paths EXCEPT ![o] = to] /\ Paths[o] = d.status
  BY <1>1, <1>4, OnePath DEF d
<1>. QED
  BY <1>1, <1>5 DEF Paths, Path!Next, Path!Step, Path!MoveOn

LEMMA BypassPath ==
  ASSUME TypeOK, NEW o \in Orders, AdminOverrideStatus(o) \/ FlagRatingOrder(o)
  PROVE  [Path!Next]_Paths
<1>1. ASSUME NEW to,
             order' = [order EXCEPT ![o] =
                         Push([order[o] EXCEPT !.status = to, !.bypassed = TRUE], to)]
      PROVE  Paths' = [Paths EXCEPT ![o] = to] /\ Paths[o] = PathOf(order[o])
  <2> DEFINE e == Push([order[o] EXCEPT !.status = to, !.bypassed = TRUE], to)
  <2>1. PathOf(e) = to
    BY DEF TypeOK, Document, PathOf, Push
  <2>2. order' = [order EXCEPT ![o] = e]
    BY <1>1
  <2> HIDE DEF e
  <2>. QED
    BY <2>1, <2>2, OnePath
<1>2. PathOf(order[o]) \notin {"ABSENT", "DELETED"}
  BY ExistsOnPath DEF AdminOverrideStatus, FlagRatingOrder
<1>3. CASE AdminOverrideStatus(o)
  <2>1. PICK to \in OverrideTargets :
          order' = [order EXCEPT ![o] =
                      Push([order[o] EXCEPT !.status = to, !.bypassed = TRUE], to)]
    BY <1>3 DEF AdminOverrideStatus
  <2>2. Paths' = [Paths EXCEPT ![o] = to] /\ Paths[o] = PathOf(order[o])
    BY <1>1, <2>1
  <2>. QED
    BY <1>2, <2>2 DEF Paths, Path!Next, Path!Step, Path!Override, Path!Exists
<1>4. CASE FlagRatingOrder(o)
  <2>1. Paths' = [Paths EXCEPT ![o] = "RATING_ORDER"] /\ Paths[o] = PathOf(order[o])
    BY <1>1, <1>4 DEF FlagRatingOrder
  <2>. QED
    BY <1>2, <2>1 DEF Paths, Path!Next, Path!Step, Path!FlagRatingOrder, Path!Exists
<1>. QED
  BY <1>3, <1>4

LEMMA CorrectionPath ==
  ASSUME TypeOK, NEW o \in Orders, NEW r \in Riders, NEW requested \in RiderOutcomes,
         CorrectRiderOutcome(o, r, requested)
  PROVE  [Path!Next]_Paths
<1> DEFINE d == order[o]
<1>1. /\ d \in Document /\ d.status \in RiderOutcomes
      /\ d.status = "CANCELLED" => d.cancelledBy = r
  BY DEF CorrectRiderOutcome, TypeOK
<1>2. PathOf(d) = IF d.status = "CANCELLED" THEN "REFILED" ELSE d.status
  BY <1>1, ConstantsAssumption DEF PathOf
<1>3. CASE requested = "DELIVERED"
  <2>1. /\ d.status # "DELIVERED"
        /\ order' = [order EXCEPT ![o] = Push(CorrectedDelivered(d, r), "DELIVERED")]
    BY <1>3 DEF CorrectRiderOutcome
  <2>2. PathOf(Push(CorrectedDelivered(d, r), "DELIVERED")) = "DELIVERED"
    BY <1>1 DEF PathOf, Push, CorrectedDelivered, Document
  <2>3. PathOf(d) \in {"FAILED", "REFILED"}
    BY <1>1, <1>2, <2>1 DEF RiderOutcomes
  <2>. QED
    BY <2>1, <2>2, <2>3, OnePath DEF Paths, Path!Next, Path!Step, Path!Correct, Path!Go
<1>4. CASE requested # "DELIVERED"
  <2>1. /\ d.status # "FAILED"
        /\ order' = [order EXCEPT ![o] = Push(CorrectedFailed(d), "FAILED")]
    BY <1>4 DEF CorrectRiderOutcome, RiderOutcomes
  <2>2. PathOf(Push(CorrectedFailed(d), "FAILED")) = "FAILED"
    BY <1>1 DEF PathOf, Push, CorrectedFailed, Document
  <2>3. PathOf(d) \in {"DELIVERED", "REFILED"}
    BY <1>1, <1>2, <2>1 DEF RiderOutcomes
  <2>. QED
    BY <2>1, <2>2, <2>3, OnePath DEF Paths, Path!Next, Path!Step, Path!Correct, Path!Go
<1>. QED
  BY <1>3, <1>4

LEMMA OrderStepPath ==
  ASSUME TypeOK, NEW o \in Orders, OrderStep(o)
  PROVE  [Path!Next]_Paths
<1>1. CASE OfficeTransition(o)
  BY <1>1, TransitionPath DEF OfficeTransition, Office, Roles
<1>2. CASE HandToRider(o)
  <2>1. "DISPATCHED" \in OrderStatuses
    BY DEF OrderStatuses, OpenStatuses
  <2>. QED
    BY <1>2, <2>1, TransitionPath DEF HandToRider, Roles
<1>3. CASE RiderTransition(o)
  BY <1>3, TransitionPath DEF RiderTransition, Roles
<1>. QED
  BY <1>1, <1>2, <1>3, BornAndGonePath, TermsPath, BypassPath, CorrectionPath DEF OrderStep

LEMMA SamePaths ==
  ASSUME \A o \in Orders : PathOf(order'[o]) = PathOf(order[o])
  PROVE  [Path!Next]_Paths
<1>1. Paths' = [o \in Orders |-> PathOf(order'[o])]
  BY DEF Paths, PathOf
<1>2. Paths' = Paths
  BY <1>1 DEF Paths
<1>. QED
  BY <1>2

LEMMA PathStep == TypeOK /\ [Next]_vars => [Path!Next]_Paths
<1> SUFFICES ASSUME TypeOK, [Next]_vars PROVE [Path!Next]_Paths
  OBVIOUS
<1>1. CASE \E o \in Orders : OrderStep(o)
  BY <1>1, OrderStepPath
<1>2. CASE UNCHANGED order
  BY <1>2, SamePaths
<1>3. ASSUME NEW shown \in SUBSET Orders, NEW r \in Riders, SettleRiderCash(shown, r)
      PROVE  [Path!Next]_Paths
  <2>1. ASSUME NEW o \in Orders PROVE PathOf(order'[o]) = PathOf(order[o])
    <3>1. \/ order'[o] = order[o]
          \/ /\ order[o].status = "DELIVERED"
             /\ order'[o] = [PushSide(order[o]) EXCEPT !.settledFor = r]
      BY <1>3 DEF SettleRiderCash, InWallet
    <3>2. order[o] \in Document
      BY DEF TypeOK
    <3>. QED
      BY <3>1, <3>2 DEF PathOf, PushSide, Push, Document
  <2>. QED
    BY <2>1, SamePaths
<1>4. ASSUME NEW from \in Outlets, NEW to \in Outlets, NEW source \in Sources,
             RepointOrders(from, to, source)
      PROVE  [Path!Next]_Paths
  <2>1. \A o \in Orders : order'[o] \in {order[o], [order[o] EXCEPT !.outlet = to]}
    BY <1>4 DEF RepointOrders
  <2>2. ASSUME NEW o \in Orders PROVE PathOf([order[o] EXCEPT !.outlet = to]) = PathOf(order[o])
    BY DEF PathOf, TypeOK, Document
  <2>. QED
    BY <2>1, <2>2, SamePaths
<1>. QED
  BY <1>1, <1>2, <1>3, <1>4 DEF Next, vars, Tick

LEMMA PathInit == Init => Path!Init
<1> SUFFICES ASSUME Init, NEW o \in Orders PROVE PathOf(order[o]) \in Path!Statuses
  BY DEF Path!Init
<1>1. CASE order[o] = Blank
  BY <1>1 DEF Blank, PathOf, Path!Statuses
<1>2. CASE order[o] \in RefiledByRider
  <2>1. PICK k \in Outlets, c \in BOOLEAN, r \in Riders : order[o] = Refiled(k, c, r)
    BY <1>2 DEF RefiledByRider
  <2>2. order[o].status = "CANCELLED"
    BY <2>1 DEF Refiled, Blank
  <2>. QED
    BY <2>2 DEF PathOf, Path!Statuses, OrderStatuses, TerminalStatuses
<1>. QED
  BY <1>1, <1>2 DEF Init

(* The order lifecycle keeps to the path: no handler, whatever else of the   *)
(* document it changes, moves a status but as OrderPath lets it, nor two     *)
(* orders at once.                                                           *)
THEOREM ImplementsOrderPath == Spec => PathSpec
<1>1. TypeOK /\ [Next]_vars => [Path!Next]_([o \in Orders |-> PathOf(order[o])])
  BY PathStep DEF Paths
<1>. QED
  BY <1>1, PathInit, TypeCorrect, PTL DEF Spec, PathSpec, Path!Spec
=============================================================================
