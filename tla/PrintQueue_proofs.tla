-------------------------- MODULE PrintQueue_proofs --------------------------
(***************************************************************************)
(* Proofs about the kitchen's print queue, for any number of tickets,      *)
(* agents, polls, trains and sweeps, and any limits that satisfy           *)
(* PrintAssumption: first what its records say of a ticket, then the order *)
(* in which tickets come out and how often one does, and last that every   *)
(* step is one TicketPaper allows.                                         *)
(***************************************************************************)
EXTENDS PrintQueue, WellFoundedInduction, SequenceTheorems, FiniteSetTheorems, TLAPS

(* Every set of tickets has an oldest. *)
LessThan == {p \in Nat \X Nat : p[1] < p[2]}

LEMMA NotLessThan ==
  ASSUME NEW x \in Nat, NEW y \in Nat, <<y, x>> \notin LessThan
  PROVE  x <= y
<1>1. <<y, x>> \in Nat \X Nat
  OBVIOUS
<1>. QED
  BY <1>1 DEF LessThan

LEMMA SetHasLeast ==
  ASSUME NEW T \in SUBSET Nat, T # {}
  PROVE  \E x \in T : \A y \in T : x <= y
<1>1. OpToRel(<, Nat) = LessThan
  BY Zenon DEF OpToRel, LessThan
<1>2. IsWellFoundedOn(LessThan, Nat)
  BY Zenon, <1>1, NatLessThanWellFounded
<1>3. \E x \in T : \A y \in T : ~ (<<y, x>> \in LessThan)
  BY Zenon, <1>2, WFMin
<1>4. T \subseteq Nat
  OBVIOUS
<1>. QED
  BY Zenon, <1>3, <1>4, NotLessThan

LEMMA OldestIsOldest ==
  ASSUME NEW S \in SUBSET Jobs, S # {}
  PROVE  Oldest(S) \in S /\ \A i \in S : Oldest(S) <= i
<1>1. S \in SUBSET Nat
  BY PrintAssumption DEF Jobs
<1>2. \E x \in S : \A y \in S : x <= y
  BY <1>1, SetHasLeast
<1>. QED
  BY Zenon, <1>2 DEF Oldest

-----------------------------------------------------------------------------
(* What each operation on one document does to it. *)

LEMMA Limits ==
  /\ AgeCap \in Nat /\ MaxAge \in Nat /\ Hold \in Nat /\ Lease \in Nat /\ MaxCopies \in Nat
  /\ MaxCopies > 0 /\ MaxJobs \in Nat /\ AgeCap = MaxAge + Hold + 1
BY PrintAssumption DEF AgeCap

LEMMA CappedIsBounded ==
  ASSUME NEW n \in Nat, NEW cap \in Nat
  PROVE  /\ Capped(n, cap) \in 0..cap
         /\ n <= cap => Capped(n, cap) = n
         /\ n > cap => Capped(n, cap) = cap
BY DEF Capped

(* Everything but the field named stays as it was. *)
SameBut(d, e, changed) ==
  /\ "status" \in changed \/ e.status = d.status
  /\ "age" \in changed \/ e.age = d.age
  /\ "held" \in changed \/ e.held = d.held
  /\ "copies" \in changed \/ e.copies = d.copies
  /\ "dropped" \in changed \/ e.dropped = d.dropped
  /\ "requeued" \in changed \/ e.requeued = d.requeued

LEMMA StatusSet ==
  ASSUME NEW d \in PrintJob, NEW st \in {"none", "pending", "claimed", "done", "failed"}
  PROVE  LET e == [d EXCEPT !.status = st]
         IN  e \in PrintJob /\ e.status = st /\ SameBut(d, e, {"status"})
BY DEF PrintJob, SameBut

LEMMA AgeSet ==
  ASSUME NEW d \in PrintJob, NEW n \in 0..AgeCap
  PROVE  LET e == [d EXCEPT !.age = n]
         IN  e \in PrintJob /\ e.age = n /\ SameBut(d, e, {"age"})
BY DEF PrintJob, SameBut

LEMMA HeldSet ==
  ASSUME NEW d \in PrintJob, NEW n \in 0..(Lease + 1)
  PROVE  LET e == [d EXCEPT !.held = n]
         IN  e \in PrintJob /\ e.held = n /\ SameBut(d, e, {"held"})
BY DEF PrintJob, SameBut

LEMMA CopiesSet ==
  ASSUME NEW d \in PrintJob, NEW n \in 0..MaxCopies
  PROVE  LET e == [d EXCEPT !.copies = n]
         IN  e \in PrintJob /\ e.copies = n /\ SameBut(d, e, {"copies"})
BY DEF PrintJob, SameBut

LEMMA DroppedSet ==
  ASSUME NEW d \in PrintJob
  PROVE  LET e == [d EXCEPT !.dropped = TRUE]
         IN  e \in PrintJob /\ e.dropped /\ SameBut(d, e, {"dropped"})
BY DEF PrintJob, SameBut

LEMMA RequeuedSet ==
  ASSUME NEW d \in PrintJob, NEW n \in 0..MaxCopies
  PROVE  LET e == [d EXCEPT !.requeued = n]
         IN  e \in PrintJob /\ e.requeued = n /\ SameBut(d, e, {"requeued"})
BY DEF PrintJob, SameBut

LEMMA PrintedIs ==
  ASSUME NEW d \in PrintJob
  PROVE  /\ Printed(d) \in PrintJob
         /\ SameBut(d, Printed(d), {"copies"})
         /\ Printed(d).copies > 0
         /\ Printed(d).copies <= d.copies + 1
<1>1. d.copies \in 0..MaxCopies
  BY DEF PrintJob
<1>2. Capped(d.copies + 1, MaxCopies) \in 1..MaxCopies /\ Capped(d.copies + 1, MaxCopies) <= d.copies + 1
  BY <1>1, Limits DEF Capped
<1>. QED
  BY <1>2, CopiesSet, Limits DEF Printed

LEMMA EndedIs ==
  ASSUME NEW d \in PrintJob, NEW st \in {"done", "failed"}
  PROVE  /\ Ended(d, st) \in PrintJob
         /\ Ended(d, st).status = st /\ Ended(d, st).age = 0
         /\ SameBut(d, Ended(d, st), {"status", "age", "held"})
<1>1. Ended(d, st) = [[[d EXCEPT !.status = st] EXCEPT !.age = 0] EXCEPT !.held = 0]
  BY DEF Ended
<1>. DEFINE d1 == [d EXCEPT !.status = st]
            d2 == [d1 EXCEPT !.age = 0]
            d3 == [d2 EXCEPT !.held = 0]
<1>2. d1 \in PrintJob /\ d1.status = st /\ SameBut(d, d1, {"status"})
  BY StatusSet
<1>3. Ended(d, st) = d3
  BY <1>1
<1>. HIDE DEF d1
<1>4. d2 \in PrintJob /\ d2.age = 0 /\ SameBut(d1, d2, {"age"})
  BY <1>2, AgeSet, Limits
<1>. HIDE DEF d2
<1>5. d3 \in PrintJob /\ d3.held = 0 /\ SameBut(d2, d3, {"held"})
  BY <1>4, HeldSet, Limits
<1>. QED
  BY <1>2, <1>3, <1>4, <1>5 DEF SameBut

LEMMA ExpiredIs ==
  ASSUME NEW d \in PrintJob
  PROVE  /\ Expired(d) \in PrintJob
         /\ \/ Expired(d) = d /\ ~(d.status = "pending" /\ d.age > MaxAge)
            \/ /\ d.status = "pending" /\ d.age > MaxAge
               /\ Expired(d).status = "failed"
               /\ SameBut(d, Expired(d), {"status", "age", "held"})
BY EndedIs DEF Expired

LEMMA AckedIs ==
  ASSUME NEW d \in PrintJob, NEW st \in {"done", "failed"}
  PROVE  /\ Acked(d, st) \in PrintJob
         /\ \/ Acked(d, st) = d
            \/ /\ d.status = "claimed" /\ Acked(d, st).status = st
               /\ SameBut(d, Acked(d, st), {"status", "age", "held"})
BY EndedIs DEF Acked

LEMMA ReclaimedIs ==
  ASSUME NEW d \in PrintJob
  PROVE  /\ Reclaimed(d) \in PrintJob
         /\ \/ Reclaimed(d) = d
            \/ /\ d.status = "claimed" /\ Reclaimed(d).status = "pending"
               /\ Reclaimed(d).requeued = Capped(d.requeued + 1, MaxCopies)
               /\ Reclaimed(d).requeued > 0
               /\ SameBut(d, Reclaimed(d), {"status", "held", "requeued"})
<1>1. CASE d.status = "claimed" /\ d.held > Lease
  <2>. DEFINE n  == Capped(d.requeued + 1, MaxCopies)
              d1 == [d EXCEPT !.status = "pending"]
              d2 == [d1 EXCEPT !.held = 0]
              d3 == [d2 EXCEPT !.requeued = n]
  <2>1. d1 \in PrintJob /\ d1.status = "pending" /\ SameBut(d, d1, {"status"})
    BY StatusSet
  <2>2. Reclaimed(d) = d3
    BY <1>1 DEF Reclaimed
  <2>3. n \in 1..MaxCopies
    BY Limits DEF PrintJob, Capped
  <2>. HIDE DEF d1, n
  <2>4. d2 \in PrintJob /\ d2.held = 0 /\ SameBut(d1, d2, {"held"})
    BY <2>1, HeldSet, Limits
  <2>. HIDE DEF d2
  <2>5. d3 \in PrintJob /\ d3.requeued = n /\ SameBut(d2, d3, {"requeued"})
    BY <2>3, <2>4, RequeuedSet, Limits
  <2>. QED
    BY <1>1, <2>1, <2>2, <2>3, <2>4, <2>5 DEF SameBut, n
<1>2. CASE ~(d.status = "claimed" /\ d.held > Lease)
  BY <1>2 DEF Reclaimed
<1>. QED
  BY <1>1, <1>2

LEMMA OlderIs ==
  ASSUME NEW d \in PrintJob
  PROVE  /\ Older(d) \in PrintJob
         /\ SameBut(d, Older(d), {"age", "held"})
         /\ Older(d).age >= d.age
<1>. DEFINE age == IF d.status \in {"pending", "claimed"} THEN Capped(d.age + 1, AgeCap) ELSE d.age
            held == IF d.status = "claimed" THEN Capped(d.held + 1, Lease + 1) ELSE d.held
            d1 == [d EXCEPT !.age = age]
            d2 == [d1 EXCEPT !.held = held]
<1>1. d.age \in 0..AgeCap /\ d.held \in 0..(Lease + 1)
  BY DEF PrintJob
<1>2. age \in 0..AgeCap /\ age >= d.age
  BY <1>1, Limits DEF Capped
<1>3. held \in 0..(Lease + 1)
  BY <1>1, Limits DEF Capped
<1>4. Older(d) = d2
  BY DEF Older
<1>. HIDE DEF age, held
<1>5. d1 \in PrintJob /\ d1.age = age /\ SameBut(d, d1, {"age"})
  BY <1>2, AgeSet
<1>. HIDE DEF d1
<1>6. d2 \in PrintJob /\ SameBut(d1, d2, {"held"})
  BY <1>3, <1>5, HeldSet
<1>. QED
  BY <1>2, <1>4, <1>5, <1>6 DEF SameBut

-----------------------------------------------------------------------------
(* The shape of the state.                                                   *)

Connection ==
  [by : Agents \cup {NoAgent}, phase : {"free", "reclaim", "expire", "claim"},
   got : SUBSET Jobs, waited : 0..Hold, heard : BOOLEAN]

Sending == [todo : SUBSET Jobs, sending : BOOLEAN]

LEMMA TypeOKParts ==
  TypeOK <=> /\ job \in [Jobs -> PrintJob]
             /\ conn \in [Conns -> Connection]
             /\ spool \in [Agents -> Seq(Batch)]
             /\ stall \in [Agents -> Nat]
             /\ acks \subseteq Jobs \X {"done", "failed"}
             /\ sends \in [Deliverers -> Sending]
BY DEF TypeOK, Connection, Sending

LEMMA PhaseSet ==
  ASSUME NEW k \in Connection, NEW p \in {"free", "reclaim", "expire", "claim"}
  PROVE  [k EXCEPT !.phase = p] \in Connection /\ [k EXCEPT !.phase = p].got = k.got
BY DEF Connection

LEMMA WaitedSet ==
  ASSUME NEW k \in Connection, NEW n \in 0..Hold
  PROVE  [k EXCEPT !.waited = n] \in Connection /\ [k EXCEPT !.waited = n].got = k.got
BY DEF Connection

LEMMA HeardSet ==
  ASSUME NEW k \in Connection, NEW b \in BOOLEAN
  PROVE  [k EXCEPT !.heard = b] \in Connection /\ [k EXCEPT !.heard = b].got = k.got
BY DEF Connection

LEMMA NoConnIs == NoConn \in Connection /\ NoConn.got = {}
BY Limits DEF NoConn, Connection

LEMMA IdleIs == Idle \in Sending /\ Idle.todo = {} /\ ~Idle.sending
BY DEF Idle, Sending

(* Sequences of batches. *)
LEMMA BatchAppended ==
  ASSUME NEW s \in Seq(Batch), NEW b \in Batch
  PROVE  /\ Append(s, b) \in Seq(Batch) /\ Len(Append(s, b)) = Len(s) + 1
         /\ \A i \in 1..Len(s) : Append(s, b)[i] = s[i]
         /\ Append(s, b)[Len(s) + 1] = b
BY AppendProperties

LEMMA FirstBatch ==
  ASSUME NEW s \in Seq(Batch), s # << >>
  PROVE  /\ s[1] \in Batch /\ Len(s) \in Nat \ {0} /\ 1 \in 1..Len(s)
         /\ Tail(s) \in Seq(Batch) /\ Len(Tail(s)) = Len(s) - 1
         /\ \A i \in 1..Len(Tail(s)) : i + 1 \in 1..Len(s) /\ Tail(s)[i] = s[i + 1]
<1>1. Len(s) \in Nat /\ Len(s) # 0
  BY EmptySeq, LenProperties
<1>2. 1 \in 1..Len(s)
  BY <1>1
<1>3. s[1] \in Batch
  BY <1>2, ElementOfSeq
<1>. QED
  BY <1>1, <1>2, <1>3, HeadTailProperties

LEMMA BatchReplaced ==
  ASSUME NEW s \in Seq(Batch), NEW i \in 1..Len(s), NEW b \in Batch
  PROVE  LET t == [s EXCEPT ![i] = b]
         IN  /\ t \in Seq(Batch) /\ Len(t) = Len(s) /\ t[i] = b
             /\ \A k \in 1..Len(s) \ {i} : t[k] = s[k]
BY ExceptSeq, LenProperties

(* Where the k-th batch was before the i-th was taken out. *)
Skip(i, k) == IF k < i THEN k ELSE k + 1

LEMMA BatchRemoved ==
  ASSUME NEW s \in Seq(Batch), NEW i \in 1..Len(s)
  PROVE  /\ RemoveAt(s, i) \in Seq(Batch) /\ Len(RemoveAt(s, i)) = Len(s) - 1
         /\ \A k \in 1..(Len(s) - 1) : Skip(i, k) \in 1..Len(s) /\ RemoveAt(s, i)[k] = s[Skip(i, k)]
<1>. DEFINE before == SubSeq(s, 1, i - 1)
            after  == SubSeq(s, i + 1, Len(s))
<1>1. Len(s) \in Nat /\ i \in Nat /\ 1 <= i /\ i <= Len(s)
  BY LenProperties
<1>2. /\ before \in Seq(Batch) /\ Len(before) = i - 1
      /\ \A k \in 1..(i - 1) : before[k] = s[k]
  <2>1. \A k \in 1..(i - 1) : s[k] \in Batch
    BY <1>1, ElementOfSeq
  <2>. QED
    BY <1>1, <2>1, SubSeqProperties
<1>3. /\ after \in Seq(Batch) /\ Len(after) = Len(s) - i
      /\ \A k \in 1..(Len(s) - i) : after[k] = s[i + k]
  <2>1. \A k \in (i + 1)..Len(s) : s[k] \in Batch
    BY <1>1, ElementOfSeq
  <2>. QED
    BY <1>1, <2>1, SubSeqProperties
<1>4. RemoveAt(s, i) = before \o after
  BY DEF RemoveAt
<1>. HIDE DEF before, after
<1>5. /\ before \o after \in Seq(Batch) /\ Len(before \o after) = Len(s) - 1
      /\ \A k \in 1..(Len(s) - 1) :
           (before \o after)[k] = IF k < i THEN before[k] ELSE after[k - (i - 1)]
  <2>1. /\ before \o after \in Seq(Batch) /\ Len(before \o after) = Len(before) + Len(after)
        /\ \A k \in 1..(Len(before) + Len(after)) :
             (before \o after)[k] = IF k <= Len(before) THEN before[k] ELSE after[k - Len(before)]
    BY <1>2, <1>3, ConcatProperties
  <2>2. Len(before) + Len(after) = Len(s) - 1
    BY <1>1, <1>2, <1>3
  <2>3. ASSUME NEW k \in 1..(Len(s) - 1)
        PROVE  (before \o after)[k] = IF k < i THEN before[k] ELSE after[k - (i - 1)]
    <3>1. k <= Len(before) <=> k < i
      BY <1>1, <1>2
    <3>. QED
      BY <1>2, <2>1, <2>2, <3>1
  <2>. QED
    BY <2>1, <2>2, <2>3
<1>6. ASSUME NEW k \in 1..(Len(s) - 1)
      PROVE  Skip(i, k) \in 1..Len(s) /\ (before \o after)[k] = s[Skip(i, k)]
  <2>1. CASE k < i
    BY <1>1, <1>2, <1>5, <2>1 DEF Skip
  <2>2. CASE ~(k < i)
    <3>1. k - (i - 1) \in 1..(Len(s) - i) /\ i + (k - (i - 1)) = k + 1
      BY <1>1, <2>2
    <3>2. after[k - (i - 1)] = s[k + 1]
      BY <1>3, <3>1
    <3>. QED
      BY <1>1, <1>5, <2>2, <3>2 DEF Skip
  <2>. QED
    BY <2>1, <2>2
<1>. QED
  BY <1>4, <1>5, <1>6

(* Handed and printing batches hold tickets. *)
LEMMA BatchIs ==
  ASSUME TypeOK, NEW a \in Agents, NEW i \in 1..Len(spool[a])
  PROVE  /\ spool[a][i] \in Batch /\ spool[a][i].jobs \subseteq Jobs /\ spool[a][i].left \subseteq Jobs
<1>1. spool[a][i] \in Batch
  BY ElementOfSeq DEF TypeOK
<1>. QED
  BY <1>1 DEF Batch

(* One document changes, all the others stay. *)
LEMMA OneJob ==
  ASSUME TypeOK, NEW j \in Jobs, NEW d \in PrintJob, job' = [job EXCEPT ![j] = d]
  PROVE  /\ job' \in [Jobs -> PrintJob]
         /\ job'[j] = d
         /\ \A i \in Jobs \ {j} : job'[i] = job[i]
BY DEF TypeOK

LEMMA JobIs == ASSUME TypeOK, NEW j \in Jobs PROVE job[j] \in PrintJob
BY DEF TypeOK

(* The claim of one ticket. *)
Taken(d, e) ==
  /\ e \in PrintJob
  /\ d.status = "pending" /\ e.status = "claimed"
  /\ SameBut(d, e, {"status", "held"})

LEMMA EnqueueMoves ==
  ASSUME TypeOK, NEW j \in Jobs, Enqueue(j)
  PROVE  /\ TypeOK' /\ UNCHANGED <<conn, spool, acks>>
         /\ job[j].status = "none" /\ job'[j].status = "pending"
         /\ \A i \in 1..(j - 1) : job[i].status # "none"
         /\ SameBut(job[j], job'[j], {"status"})
         /\ \A i \in Jobs \ {j} : job'[i] = job[i]
         /\ \/ UNCHANGED sends
            \/ LET train == {i \in Jobs : TrainOf[i] = TrainOf[j]}
               IN  /\ Direct
                   /\ \A i \in train \ {j} : job[i].status # "none"
                   /\ sends'[TrainOf[j]].todo = train
                   /\ sends'[TrainOf[j]].sending = sends[TrainOf[j]].sending
                   /\ \A d \in Deliverers \ {TrainOf[j]} : sends'[d] = sends[d]
<1>. DEFINE train == {i \in Jobs : TrainOf[i] = TrainOf[j]}
            d1 == [job[j] EXCEPT !.status = "pending"]
            w == [sends[TrainOf[j]] EXCEPT !.todo = train]
<1>1. /\ job' = [job EXCEPT ![j] = d1] /\ job[j].status = "none"
      /\ \A i \in 1..(j - 1) : job[i].status # "none"
      /\ UNCHANGED <<conn, spool, stall, acks>>
  BY DEF Enqueue
<1>2. d1 \in PrintJob /\ d1.status = "pending" /\ SameBut(job[j], d1, {"status"})
  BY JobIs, StatusSet
<1>3. \/ UNCHANGED sends
      \/ /\ Direct /\ \A i \in train \ {j} : job[i].status # "none"
         /\ sends' = [sends EXCEPT ![TrainOf[j]] = w]
  BY DEF Enqueue
<1>4. TrainOf[j] \in Deliverers
  BY PrintAssumption DEF Deliverers
<1>5. train \subseteq Jobs
  OBVIOUS
<1>. HIDE DEF d1, train
<1>6. w \in Sending /\ w.todo = train /\ w.sending = sends[TrainOf[j]].sending
  <2>1. sends[TrainOf[j]] \in Sending
    BY <1>4, TypeOKParts
  <2>. QED
    BY <1>5, <2>1 DEF Sending
<1>. HIDE DEF w
<1>7. /\ job' \in [Jobs -> PrintJob] /\ job'[j] = d1
      /\ \A i \in Jobs \ {j} : job'[i] = job[i]
  BY <1>1, <1>2, OneJob
<1>8. /\ sends' \in [Deliverers -> Sending]
      /\ \/ UNCHANGED sends
         \/ /\ Direct /\ \A i \in train \ {j} : job[i].status # "none"
            /\ sends'[TrainOf[j]] = w
            /\ \A d \in Deliverers \ {TrainOf[j]} : sends'[d] = sends[d]
  BY <1>3, <1>4, <1>6, TypeOKParts
<1>9. TypeOK'
  BY <1>1, <1>7, <1>8 DEF TypeOK, Sending
<1>. QED
  BY <1>1, <1>2, <1>6, <1>7, <1>8, <1>9 DEF train

LEMMA PollMoves ==
  ASSUME TypeOK, NEW a \in Agents, NEW c \in Conns, Poll(a, c)
  PROVE  TypeOK' /\ UNCHANGED <<job, spool, acks, sends>> /\ conn'[c].got = {}
         /\ \A k \in Conns \ {c} : conn'[k] = conn[k]
<1>. DEFINE k1 == [NoConn EXCEPT !.by = a]
            k2 == [k1 EXCEPT !.phase = "reclaim"]
            k3 == [k2 EXCEPT !.heard = TRUE]
<1>1. conn' = [conn EXCEPT ![c] = k3] /\ UNCHANGED <<job, spool, stall, acks, sends>>
  BY DEF Poll
<1>2. k1 \in Connection /\ k1.got = {}
  BY NoConnIs DEF Connection
<1>. HIDE DEF k1
<1>3. k2 \in Connection /\ k2.got = {}
  BY <1>2, PhaseSet
<1>. HIDE DEF k2
<1>4. k3 \in Connection /\ k3.got = {}
  BY <1>3, HeardSet
<1>. HIDE DEF k3
<1>. QED
  BY <1>1, <1>4 DEF TypeOK, Connection

LEMMA ReclaimMoves ==
  ASSUME TypeOK, NEW c \in Conns, Reclaim(c)
  PROVE  /\ TypeOK' /\ UNCHANGED <<spool, acks, sends>>
         /\ job' = [j \in Jobs |-> Reclaimed(job[j])]
         /\ \A k \in Conns : conn'[k].got = conn[k].got
<1>1. job' \in [Jobs -> PrintJob]
  BY ReclaimedIs, JobIs DEF Reclaim
<1>2. [conn[c] EXCEPT !.phase = "expire"] \in Connection /\ [conn[c] EXCEPT !.phase = "expire"].got = conn[c].got
  <2>. conn[c] \in Connection
    BY TypeOKParts
  <2>. QED
    BY PhaseSet
<1>3. conn' = [conn EXCEPT ![c] = [conn[c] EXCEPT !.phase = "expire"]]
  BY DEF Reclaim
<1>4. conn' \in [Conns -> Connection] /\ \A k \in Conns : conn'[k].got = conn[k].got
  BY <1>2, <1>3, TypeOKParts
<1>. QED
  BY <1>1, <1>4 DEF Reclaim, TypeOK, Connection

LEMMA ExpireMoves ==
  ASSUME TypeOK, NEW c \in Conns, Expire(c)
  PROVE  /\ TypeOK' /\ UNCHANGED <<spool, acks, sends>>
         /\ job' = [j \in Jobs |-> Expired(job[j])]
         /\ \A k \in Conns : conn'[k].got = conn[k].got
<1>. DEFINE k1 == [conn[c] EXCEPT !.phase = "claim"]
            k2 == [k1 EXCEPT !.waited = 0]
<1>1. job' \in [Jobs -> PrintJob]
  BY ExpiredIs, JobIs DEF Expire
<1>2. k1 \in Connection /\ k1.got = conn[c].got
  <2>. conn[c] \in Connection
    BY TypeOKParts
  <2>. QED
    BY PhaseSet
<1>3. conn' = [conn EXCEPT ![c] = k2]
  BY DEF Expire
<1>. HIDE DEF k1
<1>4. k2 \in Connection /\ k2.got = conn[c].got
  BY <1>2, WaitedSet, Limits
<1>. HIDE DEF k2
<1>5. conn' \in [Conns -> Connection] /\ \A k \in Conns : conn'[k].got = conn[k].got
  BY <1>3, <1>4, TypeOKParts
<1>. QED
  BY <1>1, <1>5 DEF Expire, TypeOK, Connection

LEMMA ClaimMoves ==
  ASSUME TypeOK, NEW c \in Conns, Claim(c)
  PROVE  /\ TypeOK' /\ UNCHANGED <<spool, acks, sends>>
         /\ \E j \in Claimable(c) :
              /\ j \in Jobs /\ Taken(job[j], job'[j]) /\ job[j].age <= MaxAge + Hold
              /\ \A i \in Claimable(c) : j <= i
              /\ \A i \in Jobs \ {j} : job'[i] = job[i]
              /\ conn'[c].got = conn[c].got \cup {j}
              /\ \A k \in Conns \ {c} : conn'[k] = conn[k]
<1>. DEFINE j == Oldest(Claimable(c))
            d1 == [job[j] EXCEPT !.status = "claimed"]
            d2 == [d1 EXCEPT !.held = 0]
            k == [conn[c] EXCEPT !.got = @ \cup {j}]
<1>1. Claimable(c) \in SUBSET Jobs /\ Claimable(c) # {}
  BY DEF Claim, Claimable, With
<1>2. j \in Claimable(c) /\ j \in Jobs /\ \A i \in Claimable(c) : j <= i
  BY <1>1, OldestIsOldest
<1>3. job[j] \in PrintJob /\ job[j].status = "pending" /\ job[j].age <= MaxAge + conn[c].waited
  BY <1>2, JobIs DEF Claimable, With
<1>4. job' = [job EXCEPT ![j] = d2] /\ conn' = [conn EXCEPT ![c] = k]
      /\ UNCHANGED <<spool, stall, acks, sends>>
  BY DEF Claim
<1>. HIDE DEF j
<1>5. d1 \in PrintJob /\ d1.status = "claimed" /\ SameBut(job[j], d1, {"status"})
  BY <1>3, StatusSet
<1>. HIDE DEF d1
<1>6. d2 \in PrintJob /\ SameBut(d1, d2, {"held"})
  BY <1>5, HeldSet, Limits
<1>. HIDE DEF d2
<1>7. Taken(job[j], d2)
  BY <1>3, <1>5, <1>6 DEF Taken, SameBut
<1>8. conn[c] \in Connection
  BY TypeOKParts
<1>9. k \in Connection /\ k.got = conn[c].got \cup {j}
  BY <1>2, <1>8 DEF Connection
<1>10. job[j].age <= MaxAge + Hold
  BY <1>3, <1>8, Limits DEF Connection, PrintJob
<1>. HIDE DEF k
<1>11. /\ job' \in [Jobs -> PrintJob] /\ job'[j] = d2
       /\ \A i \in Jobs \ {j} : job'[i] = job[i]
  BY <1>2, <1>4, <1>6, OneJob
<1>12. /\ conn' \in [Conns -> Connection] /\ conn'[c] = k
       /\ \A l \in Conns \ {c} : conn'[l] = conn[l]
  BY <1>4, <1>9, TypeOKParts
<1>13. TypeOK'
  BY <1>4, <1>11, <1>12 DEF TypeOK, Connection
<1>. QED
  BY <1>2, <1>4, <1>7, <1>9, <1>10, <1>11, <1>12, <1>13

(* A batch reaches its agent: everything the connection had claimed. *)
Handed(got) ==
  /\ got # {}
  /\ \E a \in Agents, b \in Batch :
       /\ b.jobs = got /\ b.left = got
       /\ spool' = [spool EXCEPT ![a] = Append(spool[a], b)]

LEMMA AnswerMoves ==
  ASSUME TypeOK, NEW c \in Conns, Answer(c)
  PROVE  /\ TypeOK' /\ UNCHANGED <<job, sends>>
         /\ acks' \subseteq acks \cup (Jobs \X {"failed"})
         /\ UNCHANGED spool \/ Handed(conn[c].got)
         /\ conn'[c].got = {}
         /\ \A k \in Conns \ {c} : conn'[k] = conn[k]
<1>. DEFINE got == conn[c].got
            a == conn[c].by
            b == [jobs |-> got, left |-> got]
<1>1. conn[c] \in Connection /\ got \subseteq Jobs /\ b \in Batch
  BY TypeOKParts DEF Connection, Batch
<1>2. /\ conn' \in [Conns -> Connection] /\ conn'[c].got = {}
      /\ \A k \in Conns \ {c} : conn'[k] = conn[k]
  <2>1. conn' = [conn EXCEPT ![c] = NoConn]
    BY DEF Answer
  <2>. QED
    BY <2>1, NoConnIs, TypeOKParts
<1>3. \/ UNCHANGED <<spool, stall, acks>>
      \/ /\ spool' = [spool EXCEPT ![a] = Append(spool[a], b)]
         /\ stall' = [stall EXCEPT ![a] = IF spool[a] = << >> THEN 0 ELSE stall[a]]
         /\ got # {} /\ UNCHANGED acks
      \/ acks' = acks \cup {<<j, "failed">> : j \in got} /\ UNCHANGED <<spool, stall>>
  BY DEF Answer
<1>4. CASE UNCHANGED <<spool, stall, acks>>
  BY <1>2, <1>4 DEF Answer, TypeOK, Connection
<1>5. CASE /\ spool' = [spool EXCEPT ![a] = Append(spool[a], b)]
           /\ stall' = [stall EXCEPT ![a] = IF spool[a] = << >> THEN 0 ELSE stall[a]]
           /\ got # {} /\ UNCHANGED acks
  <2>. HIDE DEF b, a
  <2>1. CASE a \in Agents
    <3>1. spool[a] \in Seq(Batch) /\ Append(spool[a], b) \in Seq(Batch)
      BY <1>1, <2>1, BatchAppended DEF TypeOK
    <3>2. spool' \in [Agents -> Seq(Batch)] /\ stall' \in [Agents -> Nat]
      BY <1>5, <3>1, <2>1 DEF TypeOK
    <3>3. Handed(got)
      BY <1>1, <1>5, <2>1 DEF Handed, b
    <3>. QED
      BY <1>2, <1>5, <3>2, <3>3 DEF Answer, TypeOK, Connection
  <2>2. CASE a \notin Agents
    <3>1. spool' = spool /\ stall' = stall
      BY <1>5, <2>2 DEF TypeOK
    <3>. QED
      BY <1>2, <1>5, <3>1 DEF Answer, TypeOK, Connection
  <2>. QED
    BY <2>1, <2>2
<1>6. CASE acks' = acks \cup {<<j, "failed">> : j \in got} /\ UNCHANGED <<spool, stall>>
  <2>1. {<<j, "failed">> : j \in got} \subseteq Jobs \X {"failed"}
    BY <1>1
  <2>2. acks' \subseteq Jobs \X {"done", "failed"} /\ acks' \subseteq acks \cup (Jobs \X {"failed"})
    BY <1>6, <2>1 DEF TypeOK
  <2>. QED
    BY <1>2, <1>6, <2>2 DEF Answer, TypeOK, Connection
<1>. QED
  BY <1>3, <1>4, <1>5, <1>6

LEMMA HangUpMoves ==
  ASSUME TypeOK, NEW c \in Conns, HangUp(c)
  PROVE  /\ TypeOK' /\ UNCHANGED <<job, spool, acks, sends>>
         /\ \A k \in Conns : conn'[k].got = conn[k].got
<1>1. conn[c] \in Connection
  BY TypeOKParts
<1>2. conn' = [conn EXCEPT ![c] = [conn[c] EXCEPT !.heard = FALSE]]
  BY DEF HangUp
<1>3. conn' \in [Conns -> Connection] /\ \A k \in Conns : conn'[k].got = conn[k].got
  BY <1>1, <1>2, HeardSet, TypeOKParts
<1>. QED
  BY <1>3 DEF HangUp, TypeOK, Connection

LEMMA AbortMoves ==
  ASSUME TypeOK, NEW c \in Conns, Abort(c)
  PROVE  /\ TypeOK' /\ UNCHANGED <<job, spool, acks, sends>>
         /\ conn'[c].got = {}
         /\ \A k \in Conns \ {c} : conn'[k] = conn[k]
<1>1. conn' = [conn EXCEPT ![c] = NoConn]
  BY DEF Abort
<1>2. /\ conn' \in [Conns -> Connection] /\ conn'[c].got = {}
      /\ \A k \in Conns \ {c} : conn'[k] = conn[k]
  BY <1>1, NoConnIs, TypeOKParts
<1>. QED
  BY <1>2 DEF Abort, TypeOK, Connection

(* One ticket comes out; the rest stays. *)
OneOut(j) ==
  /\ job'[j] = Printed(job[j])
  /\ \A i \in Jobs \ {j} : job'[i] = job[i]

LEMMA OnePrinted ==
  ASSUME TypeOK, NEW j \in Jobs, job' = [job EXCEPT ![j] = Printed(job[j])]
  PROVE  job' \in [Jobs -> PrintJob] /\ OneOut(j)
<1>1. Printed(job[j]) \in PrintJob
  BY JobIs, PrintedIs
<1>. QED
  BY <1>1, OneJob DEF OneOut

LEMMA LeftSet ==
  ASSUME NEW b \in Batch, NEW j
  PROVE  LET e == [b EXCEPT !.left = b.left \ {j}]
         IN  e \in Batch /\ e.jobs = b.jobs /\ e.left = b.left \ {j}
BY DEF Batch

LEMMA PrintTicketMoves ==
  ASSUME TypeOK, NEW a \in Agents, PrintTicket(a)
  PROVE  /\ TypeOK' /\ UNCHANGED <<acks, sends, conn>>
         /\ spool[a] # << >>
         /\ \E j \in spool[a][1].left, b \in Batch :
              /\ j \in Jobs /\ OneOut(j)
              /\ b.jobs = spool[a][1].jobs /\ b.left = spool[a][1].left \ {j}
              /\ spool' = [spool EXCEPT ![a] = [spool[a] EXCEPT ![1] = b]]
<1>. DEFINE s == spool[a]
            j == Oldest(s[1].left)
            b == [s[1] EXCEPT !.left = s[1].left \ {j}]
<1>1. s \in Seq(Batch) /\ s # << >> /\ s[1].left # {}
  BY DEF TypeOK, PrintTicket
<1>2. s[1] \in Batch /\ 1 \in 1..Len(s)
  BY <1>1, FirstBatch
<1>3. j \in s[1].left /\ j \in Jobs
  BY <1>1, <1>2, OldestIsOldest DEF Batch
<1>4. b \in Batch /\ b.jobs = s[1].jobs /\ b.left = s[1].left \ {j}
  BY <1>2, LeftSet
<1>5. spool' = [spool EXCEPT ![a] = [s EXCEPT ![1] = b]] /\ job' = [job EXCEPT ![j] = Printed(job[j])]
      /\ UNCHANGED <<conn, stall, acks, sends>>
  BY DEF PrintTicket
<1>. HIDE DEF b, j
<1>6. [s EXCEPT ![1] = b] \in Seq(Batch)
  BY <1>1, <1>2, <1>4, BatchReplaced
<1>7. job' \in [Jobs -> PrintJob] /\ OneOut(j)
  BY <1>3, <1>5, OnePrinted
<1>8. TypeOK'
  BY <1>5, <1>6, <1>7 DEF TypeOK
<1>. QED
  BY <1>1, <1>3, <1>4, <1>5, <1>7, <1>8

LEMMA EmptySpool ==
  ASSUME TypeOK, NEW a \in Agents, spool' = [spool EXCEPT ![a] = << >>]
  PROVE  /\ spool' \in [Agents -> Seq(Batch)]
         /\ spool'[a] = << >>
         /\ \A k \in Agents \ {a} : spool'[k] = spool[k]
BY DEF TypeOK

LEMMA BatchDoneMoves ==
  ASSUME TypeOK, NEW a \in Agents, BatchDone(a)
  PROVE  /\ TypeOK' /\ UNCHANGED <<job, conn, sends>>
         /\ spool[a] # << >> /\ spool[a][1].left = {}
         /\ acks' = acks \cup {<<j, "done">> : j \in spool[a][1].jobs}
         /\ spool' = [spool EXCEPT ![a] = Tail(spool[a])]
<1>. DEFINE s == spool[a]
<1>1. s \in Seq(Batch) /\ s # << >> /\ s[1].left = {}
  BY DEF TypeOK, BatchDone, BatchOut
<1>2. s[1] \in Batch /\ Tail(s) \in Seq(Batch)
  BY <1>1, FirstBatch
<1>3. /\ acks' = acks \cup {<<j, "done">> : j \in s[1].jobs}
      /\ spool' = [spool EXCEPT ![a] = Tail(s)]
      /\ stall' = [stall EXCEPT ![a] = 0]
      /\ UNCHANGED <<job, conn, sends>>
  BY DEF BatchDone
<1>4. acks' \subseteq Jobs \X {"done", "failed"}
  BY <1>2, <1>3 DEF TypeOK, Batch
<1>5. spool' \in [Agents -> Seq(Batch)] /\ stall' \in [Agents -> Nat]
  BY <1>2, <1>3 DEF TypeOK
<1>. QED
  BY <1>1, <1>3, <1>4, <1>5 DEF TypeOK

(* What the computer's queue dropping a batch does to a ticket. *)
Dropping(j, left) ==
  job'[j] = IF j \in left THEN [job[j] EXCEPT !.dropped = TRUE] ELSE job[j]

LEMMA DropMoves ==
  ASSUME TypeOK, NEW a \in Agents, NEW i \in 1..Len(spool[a]), Drop(a, i)
  PROVE  /\ TypeOK' /\ UNCHANGED <<conn, sends>>
         /\ \A j \in Jobs : Dropping(j, spool[a][i].left)
         /\ acks' = acks \cup {<<j, "done">> : j \in spool[a][i].jobs}
         /\ \A k \in Agents \ {a} : spool'[k] = spool[k]
         /\ \A k \in 1..Len(spool'[a]) :
              Skip(i, k) \in 1..Len(spool[a]) /\ spool'[a][k] = spool[a][Skip(i, k)]
<1>. DEFINE s == spool[a]
<1>1. s \in Seq(Batch) /\ s[i] \in Batch
  BY BatchIs DEF TypeOK
<1>2. /\ job' = [j \in Jobs |-> IF j \in s[i].left THEN [job[j] EXCEPT !.dropped = TRUE] ELSE job[j]]
      /\ acks' = acks \cup {<<j, "done">> : j \in s[i].jobs}
      /\ spool' = [spool EXCEPT ![a] = RemoveAt(s, i)]
      /\ stall' = [stall EXCEPT ![a] = 0]
      /\ UNCHANGED <<conn, sends>>
  BY DEF Drop
<1>3. \A j \in Jobs : Dropping(j, s[i].left)
  BY <1>2 DEF Dropping
<1>4. job' \in [Jobs -> PrintJob]
  <2>1. \A j \in Jobs : [job[j] EXCEPT !.dropped = TRUE] \in PrintJob /\ job[j] \in PrintJob
    BY JobIs, DroppedSet
  <2>. QED
    BY <1>2, <2>1
<1>5. acks' \subseteq Jobs \X {"done", "failed"}
  BY <1>1, <1>2 DEF TypeOK, Batch
<1>6. /\ RemoveAt(s, i) \in Seq(Batch) /\ Len(RemoveAt(s, i)) = Len(s) - 1
      /\ \A k \in 1..(Len(s) - 1) : Skip(i, k) \in 1..Len(s) /\ RemoveAt(s, i)[k] = s[Skip(i, k)]
  BY <1>1, BatchRemoved
<1>7. spool' \in [Agents -> Seq(Batch)] /\ stall' \in [Agents -> Nat]
  BY <1>2, <1>6 DEF TypeOK
<1>8. spool'[a] = RemoveAt(s, i) /\ \A k \in Agents \ {a} : spool'[k] = spool[k]
  BY <1>2 DEF TypeOK
<1>9. TypeOK'
  BY <1>2, <1>4, <1>5, <1>7 DEF TypeOK
<1>. QED
  BY <1>2, <1>3, <1>6, <1>8, <1>9

LEMMA GiveUpMoves ==
  ASSUME TypeOK, NEW a \in Agents, GiveUp(a)
  PROVE  /\ TypeOK' /\ UNCHANGED <<job, conn, sends>>
         /\ acks' \subseteq acks \cup (Jobs \X {"failed"})
         /\ spool' = [spool EXCEPT ![a] = << >>]
<1>1. /\ acks' = acks \cup {<<j, "failed">> : j \in UNION {spool[a][i].jobs : i \in 1..Len(spool[a])}}
      /\ spool' = [spool EXCEPT ![a] = << >>]
      /\ stall' = [stall EXCEPT ![a] = 0]
      /\ UNCHANGED <<job, conn, sends>>
  BY DEF GiveUp
<1>2. UNION {spool[a][i].jobs : i \in 1..Len(spool[a])} \subseteq Jobs
  BY BatchIs
<1>3. acks' \subseteq acks \cup (Jobs \X {"failed"})
  BY <1>1, <1>2
<1>. QED
  BY <1>1, <1>3, EmptySpool DEF TypeOK

LEMMA SendTicketMoves ==
  ASSUME TypeOK, NEW a \in Agents, SendTicket(a), spool[a][1].left # {}
  PROVE  /\ TypeOK' /\ UNCHANGED <<conn, sends>>
         /\ spool[a] # << >>
         /\ \E j \in spool[a][1].left, b \in Batch :
              /\ j \in Jobs
              /\ \/ OneOut(j) /\ acks' \subseteq acks \cup {<<j, "done">>, <<j, "failed">>}
                 \/ UNCHANGED job /\ acks' \subseteq acks \cup {<<j, "failed">>}
              /\ b.jobs = spool[a][1].jobs /\ b.left = spool[a][1].left \ {j}
              /\ spool'[a] = IF b.left = {} THEN << >> ELSE << b >>
              /\ \A k \in Agents \ {a} : spool'[k] = spool[k]
<1>. DEFINE s == spool[a]
            j == Oldest(s[1].left)
            b == [s[1] EXCEPT !.left = s[1].left \ {j}]
<1>1. s \in Seq(Batch) /\ s # << >> /\ s[1].left # {}
  BY DEF TypeOK, SendTicket
<1>2. s[1] \in Batch /\ 1 \in 1..Len(s)
  BY <1>1, FirstBatch
<1>3. j \in s[1].left /\ j \in Jobs
  BY <1>1, <1>2, OldestIsOldest DEF Batch
<1>4. b \in Batch /\ b.jobs = s[1].jobs /\ b.left = s[1].left \ {j}
  BY <1>2, LeftSet
<1>5. /\ \E outcome \in {"done", "failed"}, out \in BOOLEAN :
           /\ outcome = "done" => out
           /\ job' = IF out THEN [job EXCEPT ![j] = Printed(job[j])] ELSE job
           /\ acks' = acks \cup {<<j, outcome>>}
      /\ spool' = [spool EXCEPT ![a] = IF s[1].left = {j} THEN << >> ELSE << b >>]
      /\ UNCHANGED <<conn, stall, sends>>
  BY DEF SendTicket
<1>. HIDE DEF b, j
<1>6. /\ \/ OneOut(j) /\ acks' \subseteq acks \cup {<<j, "done">>, <<j, "failed">>}
         \/ UNCHANGED job /\ acks' \subseteq acks \cup {<<j, "failed">>}
      /\ job' \in [Jobs -> PrintJob]
  BY <1>3, <1>5, OnePrinted DEF TypeOK
<1>7. acks' \subseteq Jobs \X {"done", "failed"}
  BY <1>3, <1>6 DEF TypeOK
<1>8. << b >> \in Seq(Batch) /\ << >> \in Seq(Batch)
  BY <1>4
<1>9. /\ spool' \in [Agents -> Seq(Batch)]
      /\ spool'[a] = IF b.left = {} THEN << >> ELSE << b >>
      /\ \A k \in Agents \ {a} : spool'[k] = spool[k]
  <2>1. s[1].left = {j} <=> b.left = {}
    BY <1>3, <1>4
  <2>. QED
    BY <1>5, <1>8, <2>1 DEF TypeOK
<1>10. TypeOK'
  BY <1>5, <1>6, <1>7, <1>9 DEF TypeOK
<1>. QED
  BY <1>1, <1>3, <1>4, <1>5, <1>6, <1>9, <1>10

LEMMA CrashMoves ==
  ASSUME TypeOK, NEW a \in Agents, Crash(a)
  PROVE  /\ TypeOK' /\ UNCHANGED <<acks, sends>>
         /\ spool' = [spool EXCEPT ![a] = << >>]
         /\ \A j \in Jobs :
              \/ job'[j] = job[j]
              \/ /\ job'[j] = Printed(job[j])
                 /\ \E i \in 1..Len(spool[a]) : j \in spool[a][i].left
         /\ \A k \in Conns : conn'[k].got = conn[k].got
<1>1. PICK out \in SUBSET UNION {spool[a][i].left : i \in 1..Len(spool[a])} :
        job' = [j \in Jobs |-> IF j \in out THEN Printed(job[j]) ELSE job[j]]
  BY DEF Crash
<1>2. job' \in [Jobs -> PrintJob]
  BY <1>1, PrintedIs, JobIs
<1>3. conn' = [c \in Conns |-> IF conn[c].by = a THEN [conn[c] EXCEPT !.heard = FALSE] ELSE conn[c]]
  BY DEF Crash
<1>4. \A k \in Conns : conn[k] \in Connection
  BY TypeOKParts
<1>5. conn' \in [Conns -> Connection] /\ \A k \in Conns : conn'[k].got = conn[k].got
  BY <1>3, <1>4, HeardSet
<1>6. spool' = [spool EXCEPT ![a] = << >>] /\ stall' = [stall EXCEPT ![a] = 0]
      /\ UNCHANGED <<acks, sends>>
  BY DEF Crash
<1>7. TypeOK'
  BY <1>2, <1>5, <1>6, EmptySpool DEF TypeOK, Connection
<1>8. ASSUME NEW j \in Jobs
      PROVE  \/ job'[j] = job[j]
             \/ /\ job'[j] = Printed(job[j])
                /\ \E i \in 1..Len(spool[a]) : j \in spool[a][i].left
  BY <1>1
<1>. QED
  BY <1>5, <1>6, <1>7, <1>8

LEMMA AckMoves ==
  ASSUME TypeOK, NEW m \in acks, Ack(m)
  PROVE  /\ TypeOK' /\ UNCHANGED <<conn, spool, sends>>
         /\ m[1] \in Jobs /\ m[2] \in {"done", "failed"}
         /\ acks' = acks \ {m}
         /\ job'[m[1]] = Acked(job[m[1]], m[2])
         /\ \A i \in Jobs \ {m[1]} : job'[i] = job[i]
<1>1. m[1] \in Jobs /\ m[2] \in {"done", "failed"}
  BY DEF TypeOK
<1>2. job' = [job EXCEPT ![m[1]] = Acked(job[m[1]], m[2])] /\ acks' = acks \ {m}
      /\ UNCHANGED <<conn, spool, stall, sends>>
  BY DEF Ack
<1>3. Acked(job[m[1]], m[2]) \in PrintJob
  BY <1>1, JobIs, AckedIs
<1>4. /\ job' \in [Jobs -> PrintJob] /\ job'[m[1]] = Acked(job[m[1]], m[2])
      /\ \A i \in Jobs \ {m[1]} : job'[i] = job[i]
  BY <1>1, <1>2, <1>3, OneJob
<1>. QED
  BY <1>1, <1>2, <1>4 DEF TypeOK

LEMMA LoseAckMoves ==
  ASSUME TypeOK, NEW m \in acks, LoseAck(m)
  PROVE  TypeOK' /\ UNCHANGED <<job, conn, spool, sends>> /\ acks' \subseteq acks
BY DEF LoseAck, TypeOK

LEMMA SweepMoves ==
  ASSUME TypeOK, NEW s \in Sweeps, Sweep(s)
  PROVE  /\ TypeOK' /\ UNCHANGED <<conn, spool, acks>> /\ Direct
         /\ job' = [j \in Jobs |-> Expired(job[j])]
         /\ sends'[s].todo = {j \in With("pending") : job[j].age <= MaxAge}
         /\ ~sends'[s].sending
         /\ \A d \in Deliverers \ {s} : sends'[d] = sends[d]
<1>. DEFINE T == {j \in With("pending") : job[j].age <= MaxAge}
            w == [sends[s] EXCEPT !.todo = T]
<1>1. job' = [j \in Jobs |-> Expired(job[j])] /\ sends' = [sends EXCEPT ![s] = w]
      /\ sends[s] = Idle /\ Direct /\ UNCHANGED <<conn, spool, stall, acks>>
  BY DEF Sweep
<1>2. T \subseteq Jobs /\ s \in Deliverers
  BY DEF With, Deliverers
<1>. HIDE DEF T
<1>3. w \in Sending /\ w.todo = T /\ ~w.sending
  BY <1>1, <1>2, IdleIs DEF Sending
<1>. HIDE DEF w
<1>4. /\ sends' \in [Deliverers -> Sending] /\ sends'[s] = w
      /\ \A d \in Deliverers \ {s} : sends'[d] = sends[d]
  BY <1>1, <1>2, <1>3, TypeOKParts
<1>5. job' \in [Jobs -> PrintJob]
  BY <1>1, ExpiredIs, JobIs
<1>6. TypeOK'
  BY <1>1, <1>4, <1>5 DEF TypeOK, Sending
<1>. QED
  BY <1>1, <1>3, <1>4, <1>6 DEF T

LEMMA OneSend ==
  ASSUME TypeOK, NEW d \in Deliverers, NEW w \in Sending, sends' = [sends EXCEPT ![d] = w]
  PROVE  /\ sends' \in [Deliverers -> Sending]
         /\ sends'[d] = w
         /\ \A e \in Deliverers \ {d} : sends'[e] = sends[e]
BY TypeOKParts

LEMMA SendMoves ==
  ASSUME TypeOK, NEW d \in Deliverers, Send(d)
  PROVE  /\ TypeOK' /\ UNCHANGED <<conn, spool, acks>>
         /\ sends[d].todo # {} /\ Oldest(sends[d].todo) \in Jobs
         /\ OneOut(Oldest(sends[d].todo))
         /\ sends'[d].todo = sends[d].todo
         /\ \A e \in Deliverers \ {d} : sends'[e] = sends[e]
<1>. DEFINE j == Oldest(sends[d].todo)
            w == [sends[d] EXCEPT !.sending = TRUE]
<1>1. sends[d] \in Sending /\ sends[d].todo \subseteq Jobs /\ sends[d].todo # {}
  BY TypeOKParts DEF Sending, Send
<1>2. j \in Jobs
  BY <1>1, OldestIsOldest
<1>3. w \in Sending /\ w.todo = sends[d].todo
  BY <1>1 DEF Sending
<1>4. job' = [job EXCEPT ![j] = Printed(job[j])] /\ sends' = [sends EXCEPT ![d] = w]
      /\ UNCHANGED <<conn, spool, stall, acks>>
  BY DEF Send
<1>. HIDE DEF j, w
<1>5. job' \in [Jobs -> PrintJob] /\ OneOut(j)
  BY <1>2, <1>4, OnePrinted
<1>6. /\ sends' \in [Deliverers -> Sending] /\ sends'[d] = w
      /\ \A e \in Deliverers \ {d} : sends'[e] = sends[e]
  BY <1>3, <1>4, OneSend
<1>7. TypeOK'
  BY <1>4, <1>5, <1>6 DEF TypeOK, Sending
<1>. QED
  BY <1>1, <1>2, <1>3, <1>4, <1>5, <1>6, <1>7 DEF j

LEMMA MarkDoneMoves ==
  ASSUME TypeOK, NEW d \in Deliverers, MarkDone(d), sends[d].todo # {}
  PROVE  /\ TypeOK' /\ UNCHANGED <<conn, spool, acks>>
         /\ sends[d].sending
         /\ Oldest(sends[d].todo) \in Jobs
         /\ LET j == Oldest(sends[d].todo)
            IN  /\ job'[j] = Ended(job[j], "done")
                /\ \A i \in Jobs \ {j} : job'[i] = job[i]
                /\ sends'[d].todo = sends[d].todo \ {j} /\ ~sends'[d].sending
         /\ \A e \in Deliverers \ {d} : sends'[e] = sends[e]
<1>. DEFINE j == Oldest(sends[d].todo)
            w == [todo |-> sends[d].todo \ {j}, sending |-> FALSE]
<1>1. sends[d] \in Sending /\ sends[d].todo \subseteq Jobs
  BY TypeOKParts DEF Sending
<1>2. j \in Jobs
  BY <1>1, OldestIsOldest
<1>3. w \in Sending /\ w.todo = sends[d].todo \ {j} /\ ~w.sending
  BY <1>1 DEF Sending
<1>4. job' = [job EXCEPT ![j] = Ended(job[j], "done")] /\ sends' = [sends EXCEPT ![d] = w]
      /\ sends[d].sending /\ UNCHANGED <<conn, spool, stall, acks>>
  BY DEF MarkDone
<1>5. Ended(job[j], "done") \in PrintJob
  BY <1>2, JobIs, EndedIs
<1>. HIDE DEF j, w
<1>6. /\ job' \in [Jobs -> PrintJob] /\ job'[j] = Ended(job[j], "done")
      /\ \A i \in Jobs \ {j} : job'[i] = job[i]
  BY <1>2, <1>4, <1>5, OneJob
<1>7. /\ sends' \in [Deliverers -> Sending] /\ sends'[d] = w
      /\ \A e \in Deliverers \ {d} : sends'[e] = sends[e]
  BY <1>3, <1>4, OneSend
<1>8. TypeOK'
  BY <1>4, <1>6, <1>7 DEF TypeOK, Sending
<1>. QED
  BY <1>2, <1>3, <1>4, <1>6, <1>7, <1>8 DEF j

LEMMA SendFailsMoves ==
  ASSUME TypeOK, NEW d \in Deliverers, SendFails(d)
  PROVE  /\ TypeOK' /\ UNCHANGED <<job, conn, spool, acks>>
         /\ sends'[d] = Idle
         /\ \A e \in Deliverers \ {d} : sends'[e] = sends[e]
<1>1. sends' = [sends EXCEPT ![d] = Idle] /\ UNCHANGED <<job, conn, spool, stall, acks>>
  BY DEF SendFails, AfterFailure
<1>2. /\ sends' \in [Deliverers -> Sending] /\ sends'[d] = Idle
      /\ \A e \in Deliverers \ {d} : sends'[e] = sends[e]
  BY <1>1, IdleIs, OneSend
<1>. QED
  BY <1>1, <1>2 DEF TypeOK, Sending

LEMMA TickMoves ==
  ASSUME TypeOK, Tick
  PROVE  /\ TypeOK' /\ UNCHANGED <<spool, acks, sends>>
         /\ job' = [j \in Jobs |-> Older(job[j])]
         /\ \A k \in Conns : conn'[k].got = conn[k].got
<1>1. job' \in [Jobs -> PrintJob]
  BY OlderIs, JobIs DEF Tick
<1>2. ASSUME NEW c \in Conns
      PROVE  conn'[c] \in Connection /\ conn'[c].got = conn[c].got
  <2>1. conn[c] \in Connection
    BY TypeOKParts
  <2>2. conn'[c] = IF conn[c].phase = "claim" THEN [conn[c] EXCEPT !.waited = conn[c].waited + 1] ELSE conn[c]
    BY DEF Tick
  <2>3. conn[c].phase = "claim" => conn[c].waited + 1 \in 0..Hold
    BY <2>1, Limits DEF Connection, Tick
  <2>. QED
    BY <2>1, <2>2, <2>3, WaitedSet
<1>3. conn' \in [Conns -> Connection]
  BY <1>2 DEF Tick
<1>4. stall' \in [Agents -> Nat]
  BY DEF Tick, TypeOK
<1>. QED
  BY <1>1, <1>2, <1>3, <1>4 DEF Tick, TypeOK, Connection

-----------------------------------------------------------------------------
(* The inductive invariant.  What is called printed came out, or a computer's *)
(* print queue dropped it: every ack that says so, every ticket of a batch   *)
(* that is no longer left to print, every ticket a direct delivery is about  *)
(* to mark.  A train nobody has finished queueing has no delivery under way. *)

Out(j) == job[j].copies > 0 \/ job[j].dropped

AcksSound == \A m \in acks : m[2] = "done" => Out(m[1])

BatchSound(a, b) ==
  /\ a \in Spooled => \A j \in b.jobs \ b.left : Out(j)
  /\ a \notin Spooled => b.left # {}

SpoolSound == \A a \in Agents : \A i \in 1..Len(spool[a]) : BatchSound(a, spool[a][i])

SendSound(d) ==
  sends[d].sending => sends[d].todo # {} /\ Out(Oldest(sends[d].todo))

TrainsWait == \A j \in Jobs : job[j].status = "none" => sends[TrainOf[j]] = Idle

IInv ==
  /\ TypeOK
  /\ DoneIsPrinted
  /\ AcksSound
  /\ SpoolSound
  /\ \A d \in Deliverers : SendSound(d)
  /\ TrainsWait

(* What a step never does to a ticket. *)
JobStep(j) ==
  /\ Out(j) => Out(j)'
  /\ job'[j].status = "none" => job[j].status = "none"
  /\ job[j].status = "done" => job'[j].status = "done"
  /\ job'[j].status = "done" => job[j].status = "done" \/ Out(j)'
  /\ job[j].status = "pending" /\ job'[j].status = "claimed" => job[j].age <= MaxAge + Hold

JobSteps == \A j \in Jobs : JobStep(j)

LEMMA SameJob ==
  ASSUME NEW j \in Jobs, job'[j] = job[j]
  PROVE  JobStep(j)
BY DEF JobStep, Out

LEMMA PrintedJob ==
  ASSUME TypeOK, NEW j \in Jobs, job'[j] = Printed(job[j])
  PROVE  JobStep(j) /\ Out(j)'
BY JobIs, PrintedIs DEF JobStep, Out, SameBut

LEMMA DroppedJob ==
  ASSUME TypeOK, NEW j \in Jobs, NEW left, Dropping(j, left)
  PROVE  JobStep(j) /\ (j \in left => Out(j)')
<1>1. CASE j \in left
  BY <1>1, JobIs, DroppedSet DEF Dropping, JobStep, Out, SameBut
<1>2. CASE j \notin left
  BY <1>2, SameJob DEF Dropping
<1>. QED
  BY <1>1, <1>2

LEMMA ExpiredJob ==
  ASSUME TypeOK, NEW j \in Jobs, job'[j] = Expired(job[j])
  PROVE  JobStep(j)
BY JobIs, ExpiredIs DEF JobStep, Out, SameBut

LEMMA DoneKept ==
  ASSUME IInv, JobSteps
  PROVE  DoneIsPrinted'
BY DEF IInv, JobSteps, JobStep, DoneIsPrinted, Out

LEMMA AcksKept ==
  ASSUME IInv, JobSteps, acks' \subseteq acks \cup (Jobs \X {"failed"})
  PROVE  AcksSound'
BY DEF IInv, TypeOK, JobSteps, JobStep, AcksSound

(* Each batch is one there was before, or is sound as it is. *)
LEMMA SpoolKept ==
  ASSUME IInv, JobSteps,
         ASSUME NEW a \in Agents, NEW i \in 1..Len(spool'[a])
         PROVE  \/ \E k \in 1..Len(spool[a]) : spool'[a][i] = spool[a][k]
                \/ BatchSound(a, spool[a][i])'
  PROVE  SpoolSound'
<1> SUFFICES ASSUME NEW a \in Agents, NEW i \in 1..Len(spool'[a])
             PROVE  BatchSound(a, spool[a][i])'
  BY DEF SpoolSound
<1>1. ASSUME NEW k \in 1..Len(spool[a]), spool'[a][i] = spool[a][k]
      PROVE  BatchSound(a, spool[a][i])'
  <2>1. BatchSound(a, spool[a][k]) /\ spool[a][k].jobs \subseteq Jobs
    BY BatchIs DEF IInv, SpoolSound
  <2>. QED
    BY <1>1, <2>1 DEF BatchSound, JobSteps, JobStep
<1>. QED
  BY <1>1

LEMMA SameSpool ==
  ASSUME IInv, JobSteps, UNCHANGED spool
  PROVE  SpoolSound'
BY SpoolKept

LEMMA EmptiedSpool ==
  ASSUME IInv, JobSteps, NEW a \in Agents, spool' = [spool EXCEPT ![a] = << >>]
  PROVE  SpoolSound'
<1>1. spool'[a] = << >> /\ \A k \in Agents \ {a} : spool'[k] = spool[k]
  BY EmptySpool DEF IInv
<1>2. ASSUME NEW k \in Agents, NEW i \in 1..Len(spool'[k])
      PROVE  \E l \in 1..Len(spool[k]) : spool'[k][i] = spool[k][l]
  <2>1. k # a
    BY <1>1
  <2>2. spool'[k] = spool[k]
    BY <1>1, <2>1
  <2>. QED
    BY <2>2
<1>. QED
  BY <1>2, SpoolKept

(* A delivery under way goes on as it was. *)
LEMMA SendKept ==
  ASSUME IInv, JobSteps, NEW d \in Deliverers, sends'[d] = sends[d]
  PROVE  SendSound(d)'
<1>1. SendSound(d) /\ sends[d].todo \subseteq Jobs
  BY TypeOKParts DEF IInv, Sending
<1>2. sends[d].todo # {} => Oldest(sends[d].todo) \in Jobs
  BY <1>1, OldestIsOldest
<1>. QED
  BY <1>1, <1>2 DEF SendSound, JobSteps, JobStep, Out

LEMMA SameSends ==
  ASSUME IInv, JobSteps, UNCHANGED sends
  PROVE  (\A d \in Deliverers : SendSound(d)') /\ TrainsWait'
<1>1. ASSUME NEW d \in Deliverers PROVE SendSound(d)'
  BY SendKept
<1>2. TrainsWait'
  BY DEF IInv, TrainsWait, JobSteps, JobStep
<1>. QED
  BY <1>1, <1>2

LEMMA InitSound == Init => IInv
<1> SUFFICES ASSUME Init PROVE IInv
  OBVIOUS
<1>1. TypeOK
  BY Limits, NoConnIs, IdleIs, TypeOKParts DEF Init, PrintJob
<1>2. DoneIsPrinted /\ AcksSound
  BY DEF Init, DoneIsPrinted, AcksSound
<1>3. SpoolSound
  BY DEF Init, SpoolSound
<1>4. (\A d \in Deliverers : SendSound(d)) /\ TrainsWait
  BY IdleIs, PrintAssumption DEF Init, SendSound, TrainsWait, Deliverers
<1>. QED
  BY <1>1, <1>2, <1>3, <1>4 DEF IInv

-----------------------------------------------------------------------------
(* Every step keeps it. *)
Sound == IInv' /\ JobSteps

LEMMA EnqueueSound ==
  ASSUME IInv, NEW j \in Jobs, Enqueue(j)
  PROVE  Sound
<1>. DEFINE t == TrainOf[j]
<1>1. TypeOK /\ t \in Deliverers /\ sends[t] = Idle
  BY EnqueueMoves, PrintAssumption DEF IInv, TrainsWait, Deliverers
<1>2. JobSteps
  <2>1. JobStep(j)
    BY <1>1, EnqueueMoves DEF JobStep, Out, SameBut
  <2>2. \A i \in Jobs \ {j} : JobStep(i)
    BY <1>1, EnqueueMoves, SameJob
  <2>. QED
    BY <2>1, <2>2 DEF JobSteps
<1>3. TypeOK' /\ UNCHANGED <<spool, acks>>
  BY <1>1, EnqueueMoves
<1>4. ASSUME NEW d \in Deliverers PROVE SendSound(d)'
  <2>1. CASE sends'[d] = sends[d]
    BY <1>2, <2>1, SendKept
  <2>2. CASE sends'[d] # sends[d]
    <3>1. d = t /\ sends'[t].sending = sends[t].sending
      BY <1>1, <2>2, EnqueueMoves
    <3>. QED
      BY <1>1, <3>1, IdleIs DEF SendSound
  <2>. QED
    BY <2>1, <2>2
<1>5. ASSUME NEW i \in Jobs, job'[i].status = "none" PROVE sends'[TrainOf[i]] = Idle
  <2>1. i # j /\ job[i].status = "none" /\ sends[TrainOf[i]] = Idle
    BY <1>1, <1>2, <1>5, EnqueueMoves DEF IInv, TrainsWait, JobSteps, JobStep
  <2>2. TrainOf[i] \in Deliverers
    BY PrintAssumption DEF Deliverers
  <2>. QED
    BY <1>1, <2>1, <2>2, EnqueueMoves
<1>. QED
  BY <1>2, <1>3, <1>4, <1>5, DoneKept, AcksKept, SameSpool DEF Sound, IInv, TrainsWait

(* The steps of a poll, and of time. *)
LEMMA QuietSound ==
  ASSUME IInv, TypeOK', JobSteps, UNCHANGED <<spool, sends>>,
         acks' \subseteq acks \cup (Jobs \X {"failed"})
  PROVE  Sound
BY DoneKept, AcksKept, SameSpool, SameSends DEF Sound, IInv

LEMMA UnchangedJobs ==
  ASSUME UNCHANGED job
  PROVE  JobSteps
BY SameJob DEF JobSteps

LEMMA PollSound ==
  ASSUME IInv, NEW a \in Agents, NEW c \in Conns, Poll(a, c)
  PROVE  Sound
BY PollMoves, UnchangedJobs, QuietSound DEF IInv

LEMMA ReclaimSound ==
  ASSUME IInv, NEW c \in Conns, Reclaim(c)
  PROVE  Sound
<1>1. TypeOK' /\ UNCHANGED <<spool, acks, sends>> /\ job' = [j \in Jobs |-> Reclaimed(job[j])]
  BY ReclaimMoves DEF IInv
<1>2. ASSUME NEW j \in Jobs PROVE JobStep(j)
  <2>1. job[j] \in PrintJob /\ job'[j] = Reclaimed(job[j])
    BY <1>1, JobIs DEF IInv
  <2>. QED
    BY <2>1, ReclaimedIs DEF JobStep, Out, SameBut
<1>. QED
  BY <1>1, <1>2, QuietSound DEF JobSteps

LEMMA ExpireSound ==
  ASSUME IInv, NEW c \in Conns, Expire(c)
  PROVE  Sound
<1>1. TypeOK /\ TypeOK' /\ UNCHANGED <<spool, acks, sends>> /\ job' = [j \in Jobs |-> Expired(job[j])]
  BY ExpireMoves DEF IInv
<1>2. JobSteps
  BY <1>1, ExpiredJob DEF JobSteps
<1>. QED
  BY <1>1, <1>2, QuietSound

LEMMA ClaimSound ==
  ASSUME IInv, NEW c \in Conns, Claim(c)
  PROVE  Sound
<1>1. TypeOK' /\ UNCHANGED <<spool, acks, sends>>
  BY ClaimMoves DEF IInv
<1>2. PICK j \in Jobs : /\ Taken(job[j], job'[j]) /\ job[j].age <= MaxAge + Hold
                        /\ \A i \in Jobs \ {j} : job'[i] = job[i]
  BY ClaimMoves DEF IInv
<1>3. JobStep(j)
  BY <1>2 DEF Taken, JobStep, Out, SameBut
<1>4. \A i \in Jobs \ {j} : JobStep(i)
  BY <1>2, SameJob
<1>. QED
  BY <1>1, <1>3, <1>4, QuietSound DEF JobSteps

LEMMA AnswerSound ==
  ASSUME IInv, NEW c \in Conns, Answer(c)
  PROVE  Sound
<1>1. /\ TypeOK' /\ UNCHANGED <<job, sends>> /\ acks' \subseteq acks \cup (Jobs \X {"failed"})
      /\ UNCHANGED spool \/ Handed(conn[c].got)
  BY AnswerMoves DEF IInv
<1>2. JobSteps
  BY <1>1, UnchangedJobs
<1>3. CASE Handed(conn[c].got)
  <2>1. PICK a \in Agents, b \in Batch :
          /\ b.jobs = b.left /\ b.left # {}
          /\ spool' = [spool EXCEPT ![a] = Append(spool[a], b)]
    BY <1>3 DEF Handed
  <2>2. spool[a] \in Seq(Batch)
    BY DEF IInv, TypeOK
  <2>3. ASSUME NEW k \in Agents, NEW i \in 1..Len(spool'[k])
        PROVE  \/ \E l \in 1..Len(spool[k]) : spool'[k][i] = spool[k][l]
               \/ BatchSound(k, spool[k][i])'
    <3>1. CASE k # a
      <4>1. spool'[k] = spool[k]
        BY <2>1, <3>1 DEF IInv, TypeOK
      <4>. QED
        BY <4>1
    <3>2. CASE k = a
      <4>1. spool'[a] = Append(spool[a], b)
        BY <2>1 DEF IInv, TypeOK
      <4>2. i \in 1..Len(spool[a]) \/ i = Len(spool[a]) + 1
        BY <2>2, <3>2, <4>1, BatchAppended, LenProperties
      <4>. QED
        BY <2>1, <2>2, <3>2, <4>1, <4>2, BatchAppended DEF BatchSound
    <3>. QED
      BY <3>1, <3>2
  <2>4. SpoolSound'
    BY <1>2, <2>3, SpoolKept
  <2>. QED
    BY <1>1, <1>2, <2>4, DoneKept, AcksKept, SameSends DEF Sound, IInv
<1>. QED
  BY <1>1, <1>2, <1>3, QuietSound

LEMMA HangUpSound ==
  ASSUME IInv, NEW c \in Conns, HangUp(c)
  PROVE  Sound
BY HangUpMoves, UnchangedJobs, QuietSound DEF IInv

LEMMA AbortSound ==
  ASSUME IInv, NEW c \in Conns, Abort(c)
  PROVE  Sound
BY AbortMoves, UnchangedJobs, QuietSound DEF IInv

LEMMA TickSound ==
  ASSUME IInv, Tick
  PROVE  Sound
<1>1. TypeOK' /\ UNCHANGED <<spool, acks, sends>> /\ job' = [j \in Jobs |-> Older(job[j])]
  BY TickMoves DEF IInv
<1>2. ASSUME NEW j \in Jobs PROVE JobStep(j)
  <2>1. job[j] \in PrintJob /\ job'[j] = Older(job[j])
    BY <1>1, JobIs DEF IInv
  <2>. QED
    BY <2>1, OlderIs DEF JobStep, Out, SameBut
<1>. QED
  BY <1>1, <1>2, QuietSound DEF JobSteps

LEMMA OneOutSteps ==
  ASSUME TypeOK, NEW j \in Jobs, OneOut(j)
  PROVE  JobSteps /\ Out(j)'
<1>1. JobStep(j) /\ Out(j)'
  BY PrintedJob DEF OneOut
<1>2. \A i \in Jobs \ {j} : JobStep(i)
  BY SameJob DEF OneOut
<1>. QED
  BY <1>1, <1>2 DEF JobSteps

LEMMA PrintTicketSound ==
  ASSUME IInv, NEW a \in Agents, PrintTicket(a)
  PROVE  Sound
<1>1. TypeOK' /\ UNCHANGED <<acks, sends>> /\ spool[a] # << >> /\ a \in Spooled
  BY PrintTicketMoves DEF IInv, PrintTicket
<1>2. PICK j \in Jobs, b \in Batch :
        /\ j \in spool[a][1].left /\ OneOut(j)
        /\ b.jobs = spool[a][1].jobs /\ b.left = spool[a][1].left \ {j}
        /\ spool' = [spool EXCEPT ![a] = [spool[a] EXCEPT ![1] = b]]
  BY PrintTicketMoves DEF IInv
<1>3. JobSteps /\ Out(j)'
  BY <1>2, OneOutSteps DEF IInv
<1>4. spool[a] \in Seq(Batch) /\ 1 \in 1..Len(spool[a])
  BY <1>1, FirstBatch DEF IInv, TypeOK
<1>5. /\ Len(spool'[a]) = Len(spool[a]) /\ spool'[a][1] = b
      /\ \A k \in 1..Len(spool[a]) \ {1} : spool'[a][k] = spool[a][k]
      /\ \A k \in Agents \ {a} : spool'[k] = spool[k]
  <2>1. spool'[a] = [spool[a] EXCEPT ![1] = b] /\ \A k \in Agents \ {a} : spool'[k] = spool[k]
    BY <1>2 DEF IInv, TypeOK
  <2>. QED
    BY <1>4, <2>1, BatchReplaced
<1>6. BatchSound(a, spool[a][1])'
  <2>1. BatchSound(a, spool[a][1]) /\ spool[a][1].jobs \subseteq Jobs
    BY <1>4, BatchIs DEF IInv, SpoolSound
  <2>2. ASSUME NEW i \in b.jobs \ b.left PROVE Out(i)'
    <3>1. CASE i = j
      BY <1>3, <3>1
    <3>2. CASE i # j
      BY <1>1, <1>2, <1>3, <2>1, <3>2 DEF BatchSound, JobSteps, JobStep
    <3>. QED
      BY <3>1, <3>2
  <2>. QED
    BY <1>1, <1>5, <2>2 DEF BatchSound
<1>7. ASSUME NEW k \in Agents, NEW i \in 1..Len(spool'[k])
      PROVE  \/ \E l \in 1..Len(spool[k]) : spool'[k][i] = spool[k][l]
             \/ BatchSound(k, spool[k][i])'
  <2>1. CASE k # a
    <3>1. spool'[k] = spool[k]
      BY <1>5, <2>1
    <3>. QED
      BY <3>1
  <2>2. CASE k = a /\ i = 1
    BY <1>6, <2>2
  <2>3. CASE k = a /\ i # 1
    <3>1. i \in 1..Len(spool[a]) /\ spool'[a][i] = spool[a][i]
      BY <1>5, <2>3
    <3>. QED
      BY <2>3, <3>1
  <2>. QED
    BY <2>1, <2>2, <2>3
<1>8. SpoolSound'
  BY <1>3, <1>7, SpoolKept
<1>. QED
  BY <1>1, <1>3, <1>8, DoneKept, AcksKept, SameSends DEF Sound, IInv

LEMMA BatchDoneSound ==
  ASSUME IInv, NEW a \in Agents, BatchDone(a)
  PROVE  Sound
<1>1. /\ TypeOK' /\ UNCHANGED <<job, sends>> /\ a \in Spooled
      /\ spool[a] # << >> /\ spool[a][1].left = {}
      /\ acks' = acks \cup {<<j, "done">> : j \in spool[a][1].jobs}
      /\ spool' = [spool EXCEPT ![a] = Tail(spool[a])]
  BY BatchDoneMoves DEF IInv, BatchDone
<1>2. JobSteps
  BY <1>1, UnchangedJobs
<1>3. spool[a] \in Seq(Batch) /\ 1 \in 1..Len(spool[a])
  BY <1>1, FirstBatch DEF IInv, TypeOK
<1>4. \A j \in spool[a][1].jobs : Out(j)
  BY <1>1, <1>3 DEF IInv, SpoolSound, BatchSound
<1>5. AcksSound'
  BY <1>1, <1>4 DEF IInv, AcksSound, Out
<1>6. ASSUME NEW k \in Agents, NEW i \in 1..Len(spool'[k])
      PROVE  \E l \in 1..Len(spool[k]) : spool'[k][i] = spool[k][l]
  <2>1. CASE k # a
    <3>1. spool'[k] = spool[k]
      BY <1>1, <2>1 DEF IInv, TypeOK
    <3>. QED
      BY <3>1
  <2>2. CASE k = a
    <3>1. spool'[a] = Tail(spool[a])
      BY <1>1 DEF IInv, TypeOK
    <3>2. i + 1 \in 1..Len(spool[a]) /\ Tail(spool[a])[i] = spool[a][i + 1]
      BY <1>1, <1>3, <2>2, <3>1, FirstBatch
    <3>. QED
      BY <2>2, <3>1, <3>2
  <2>. QED
    BY <2>1, <2>2
<1>7. SpoolSound'
  BY <1>2, <1>6, SpoolKept
<1>. QED
  BY <1>1, <1>2, <1>5, <1>7, DoneKept, SameSends DEF Sound, IInv

LEMMA DropSound ==
  ASSUME IInv, NEW a \in Agents, NEW i \in 1..Len(spool[a]), Drop(a, i)
  PROVE  Sound
<1>1. /\ TypeOK' /\ UNCHANGED sends /\ a \in Spooled
      /\ \A j \in Jobs : Dropping(j, spool[a][i].left)
      /\ acks' = acks \cup {<<j, "done">> : j \in spool[a][i].jobs}
      /\ \A k \in Agents \ {a} : spool'[k] = spool[k]
      /\ \A k \in 1..Len(spool'[a]) :
           Skip(i, k) \in 1..Len(spool[a]) /\ spool'[a][k] = spool[a][Skip(i, k)]
  BY DropMoves DEF IInv, Drop
<1>2. JobSteps /\ \A j \in spool[a][i].left : Out(j)'
  BY <1>1, DroppedJob, BatchIs DEF IInv, JobSteps
<1>3. \A j \in spool[a][i].jobs : Out(j)'
  <2>1. BatchSound(a, spool[a][i]) /\ spool[a][i].jobs \subseteq Jobs
    BY BatchIs DEF IInv, SpoolSound
  <2>2. \A j \in spool[a][i].jobs \ spool[a][i].left : Out(j)'
    BY <1>1, <1>2, <2>1 DEF BatchSound, JobSteps, JobStep
  <2>. QED
    BY <1>2, <2>2
<1>4. AcksSound'
  BY <1>1, <1>2, <1>3 DEF IInv, TypeOK, JobSteps, JobStep, AcksSound
<1>5. ASSUME NEW k \in Agents, NEW l \in 1..Len(spool'[k])
      PROVE  \E m \in 1..Len(spool[k]) : spool'[k][l] = spool[k][m]
  BY <1>1
<1>6. SpoolSound'
  BY <1>2, <1>5, SpoolKept
<1>. QED
  BY <1>1, <1>2, <1>4, <1>6, DoneKept, SameSends DEF Sound, IInv

LEMMA GiveUpSound ==
  ASSUME IInv, NEW a \in Agents, GiveUp(a)
  PROVE  Sound
<1>1. /\ TypeOK' /\ UNCHANGED <<job, sends>> /\ acks' \subseteq acks \cup (Jobs \X {"failed"})
      /\ spool' = [spool EXCEPT ![a] = << >>]
  BY GiveUpMoves DEF IInv
<1>2. JobSteps
  BY <1>1, UnchangedJobs
<1>. QED
  BY <1>1, <1>2, EmptiedSpool, DoneKept, AcksKept, SameSends DEF Sound, IInv

LEMMA SendTicketSound ==
  ASSUME IInv, NEW a \in Agents, SendTicket(a)
  PROVE  Sound
<1>1. TypeOK /\ a \notin Spooled /\ spool[a] # << >>
  BY DEF IInv, SendTicket
<1>2. spool[a] \in Seq(Batch) /\ 1 \in 1..Len(spool[a])
  BY <1>1, FirstBatch DEF TypeOK
<1>3. spool[a][1].left # {}
  BY <1>1, <1>2 DEF IInv, SpoolSound, BatchSound
<1>4. TypeOK' /\ UNCHANGED sends
  BY <1>1, <1>3, SendTicketMoves
<1>5. PICK j \in Jobs, b \in Batch :
        /\ \/ OneOut(j) /\ acks' \subseteq acks \cup {<<j, "done">>, <<j, "failed">>}
           \/ UNCHANGED job /\ acks' \subseteq acks \cup {<<j, "failed">>}
        /\ spool'[a] = IF b.left = {} THEN << >> ELSE << b >>
        /\ \A k \in Agents \ {a} : spool'[k] = spool[k]
  BY <1>1, <1>3, SendTicketMoves
<1>6. JobSteps /\ AcksSound'
  <2>1. CASE OneOut(j) /\ acks' \subseteq acks \cup {<<j, "done">>, <<j, "failed">>}
    <3>1. JobSteps /\ Out(j)'
      BY <1>1, <2>1, OneOutSteps
    <3>. QED
      BY <2>1, <3>1 DEF IInv, TypeOK, AcksSound, JobSteps, JobStep
  <2>2. CASE UNCHANGED job /\ acks' \subseteq acks \cup {<<j, "failed">>}
    BY <2>2, UnchangedJobs, AcksKept
  <2>. QED
    BY <1>5, <2>1, <2>2
<1>7. ASSUME NEW k \in Agents, NEW i \in 1..Len(spool'[k])
      PROVE  \/ \E l \in 1..Len(spool[k]) : spool'[k][i] = spool[k][l]
             \/ BatchSound(k, spool[k][i])'
  <2>1. CASE k # a
    <3>1. spool'[k] = spool[k]
      BY <1>5, <2>1
    <3>. QED
      BY <3>1
  <2>2. CASE k = a
    <3>1. b.left # {} /\ spool'[a] = << b >>
      BY <1>5, <2>2
    <3>2. i = 1 /\ spool'[a][i] = b
      BY <2>2, <3>1
    <3>. QED
      BY <1>1, <2>2, <3>1, <3>2 DEF BatchSound
  <2>. QED
    BY <2>1, <2>2
<1>8. SpoolSound'
  BY <1>6, <1>7, SpoolKept
<1>. QED
  BY <1>4, <1>6, <1>8, DoneKept, SameSends DEF Sound, IInv

LEMMA CrashSound ==
  ASSUME IInv, NEW a \in Agents, Crash(a)
  PROVE  Sound
<1>1. /\ TypeOK' /\ UNCHANGED <<acks, sends>> /\ spool' = [spool EXCEPT ![a] = << >>]
      /\ \A j \in Jobs : job'[j] = job[j] \/ job'[j] = Printed(job[j])
  BY CrashMoves DEF IInv
<1>2. JobSteps
  BY <1>1, SameJob, PrintedJob DEF IInv, JobSteps
<1>. QED
  BY <1>1, <1>2, EmptiedSpool, DoneKept, AcksKept, SameSends DEF Sound, IInv

LEMMA AckSound ==
  ASSUME IInv, NEW m \in acks, Ack(m)
  PROVE  Sound
<1>0. PICK j \in Jobs : j = m[1]
  BY AckMoves DEF IInv
<1>1. /\ TypeOK /\ TypeOK' /\ UNCHANGED <<conn, spool, sends>>
      /\ m[2] \in {"done", "failed"}
      /\ acks' = acks \ {m}
      /\ job'[j] = Acked(job[j], m[2])
      /\ \A i \in Jobs \ {j} : job'[i] = job[i]
  BY <1>0, AckMoves DEF IInv
<1>2. m[2] = "done" => Out(j)
  BY <1>0 DEF IInv, AcksSound, Out
<1>3. JobStep(j)
  BY <1>1, <1>2, JobIs, AckedIs DEF JobStep, Out, SameBut
<1>4. \A i \in Jobs \ {j} : JobStep(i)
  BY <1>1, SameJob
<1>. QED
  BY <1>1, <1>3, <1>4, QuietSound DEF JobSteps

LEMMA LoseAckSound ==
  ASSUME IInv, NEW m \in acks, LoseAck(m)
  PROVE  Sound
BY LoseAckMoves, UnchangedJobs, QuietSound DEF IInv

LEMMA SweepSound ==
  ASSUME IInv, NEW s \in Sweeps, Sweep(s)
  PROVE  Sound
<1>1. /\ TypeOK /\ TypeOK' /\ UNCHANGED <<spool, acks>> /\ job' = [j \in Jobs |-> Expired(job[j])]
      /\ ~sends'[s].sending /\ \A d \in Deliverers \ {s} : sends'[d] = sends[d]
  BY SweepMoves DEF IInv
<1>2. JobSteps
  BY <1>1, ExpiredJob DEF JobSteps
<1>3. \A d \in Deliverers : SendSound(d)'
  <2>1. SendSound(s)'
    BY <1>1 DEF SendSound
  <2>2. \A d \in Deliverers \ {s} : SendSound(d)'
    BY <1>1, <1>2, SendKept
  <2>. QED
    BY <2>1, <2>2
<1>4. TrainsWait'
  <2>1. \A j \in Jobs : TrainOf[j] \in Deliverers \ {s}
    BY PrintAssumption DEF Deliverers
  <2>. QED
    BY <1>1, <1>2, <2>1 DEF IInv, TrainsWait, JobSteps, JobStep
<1>. QED
  BY <1>1, <1>2, <1>3, <1>4, DoneKept, AcksKept, SameSpool DEF Sound, IInv

(* A delivery under way is not that of a train still being queued. *)
LEMMA BusyTrain ==
  ASSUME IInv, JobSteps, NEW d \in Deliverers, sends[d] # Idle,
         \A e \in Deliverers \ {d} : sends'[e] = sends[e]
  PROVE  TrainsWait'
<1>1. ASSUME NEW j \in Jobs, job'[j].status = "none" PROVE sends'[TrainOf[j]] = Idle
  <2>1. sends[TrainOf[j]] = Idle
    BY <1>1 DEF IInv, TrainsWait, JobSteps, JobStep
  <2>2. TrainOf[j] \in Deliverers \ {d}
    BY <2>1, PrintAssumption DEF Deliverers
  <2>. QED
    BY <2>1, <2>2
<1>. QED
  BY <1>1 DEF TrainsWait

LEMMA SendStepSound ==
  ASSUME IInv, NEW d \in Deliverers, Send(d)
  PROVE  Sound
<1>1. PICK j \in Jobs : j = Oldest(sends[d].todo)
  BY SendMoves DEF IInv
<1>2. /\ TypeOK' /\ UNCHANGED <<conn, spool, acks>>
      /\ sends[d].todo # {} /\ OneOut(j)
      /\ sends'[d].todo = sends[d].todo
      /\ \A e \in Deliverers \ {d} : sends'[e] = sends[e]
  BY <1>1, SendMoves DEF IInv, OneOut
<1>3. JobSteps /\ Out(j)'
  BY <1>2, OneOutSteps DEF IInv
<1>4. \A e \in Deliverers \ {d} : SendSound(e)'
  BY <1>2, <1>3, SendKept
<1>5. SendSound(d)'
  BY <1>1, <1>2, <1>3 DEF SendSound, Out
<1>6. TrainsWait'
  BY <1>2, <1>3, BusyTrain, IdleIs
<1>. QED
  BY <1>2, <1>3, <1>4, <1>5, <1>6, DoneKept, AcksKept, SameSpool DEF Sound, IInv

LEMMA MarkDoneSound ==
  ASSUME IInv, NEW d \in Deliverers, MarkDone(d)
  PROVE  Sound
<1>1. sends[d].sending /\ sends[d].todo # {}
  BY DEF IInv, MarkDone, SendSound
<1>2. PICK j \in Jobs : j = Oldest(sends[d].todo)
  BY <1>1, MarkDoneMoves DEF IInv
<1>3. /\ TypeOK' /\ UNCHANGED <<conn, spool, acks>>
      /\ job'[j] = Ended(job[j], "done")
      /\ \A i \in Jobs \ {j} : job'[i] = job[i]
      /\ ~sends'[d].sending
      /\ \A e \in Deliverers \ {d} : sends'[e] = sends[e]
  BY <1>1, <1>2, MarkDoneMoves DEF IInv
<1>4. Out(j)
  BY <1>1, <1>2 DEF IInv, SendSound, Out
<1>5. JobStep(j)
  BY <1>3, <1>4, JobIs, EndedIs DEF IInv, JobStep, Out, SameBut
<1>6. JobSteps
  BY <1>3, <1>5, SameJob DEF JobSteps
<1>7. \A e \in Deliverers \ {d} : SendSound(e)'
  BY <1>3, <1>6, SendKept
<1>8. SendSound(d)'
  BY <1>3 DEF SendSound
<1>9. TrainsWait'
  BY <1>1, <1>3, <1>6, BusyTrain, IdleIs
<1>. QED
  BY <1>3, <1>6, <1>7, <1>8, <1>9, DoneKept, AcksKept, SameSpool DEF Sound, IInv

LEMMA SendFailsSound ==
  ASSUME IInv, NEW d \in Deliverers, SendFails(d)
  PROVE  Sound
<1>1. /\ TypeOK' /\ UNCHANGED <<job, spool, acks>> /\ sends'[d] = Idle
      /\ \A e \in Deliverers \ {d} : sends'[e] = sends[e]
  BY SendFailsMoves DEF IInv
<1>2. JobSteps
  BY <1>1, UnchangedJobs
<1>3. \A e \in Deliverers : SendSound(e)'
  BY <1>1, <1>2, SendKept, IdleIs DEF SendSound
<1>4. TrainsWait'
  BY <1>1, PrintAssumption DEF IInv, TrainsWait, Deliverers
<1>. QED
  BY <1>1, <1>2, <1>3, <1>4, DoneKept, AcksKept, SameSpool DEF Sound, IInv

LEMMA NextSound ==
  ASSUME IInv, Next
  PROVE  Sound
BY EnqueueSound, PollSound, ReclaimSound, ExpireSound, ClaimSound, AnswerSound, HangUpSound,
   AbortSound, PrintTicketSound, BatchDoneSound, GiveUpSound, SendTicketSound, CrashSound,
   DropSound, AckSound, LoseAckSound, SweepSound, SendStepSound, MarkDoneSound, SendFailsSound, TickSound
DEF Next, Handle, Work, Deliver

LEMMA StutterSound ==
  ASSUME IInv, UNCHANGED vars
  PROVE  Sound
BY UnchangedJobs, QuietSound DEF vars, IInv, TypeOK

(* The inductive invariant holds in every reachable state. *)
THEOREM AllSound == Spec => []IInv
<1>1. IInv /\ [Next]_vars => IInv'
  BY NextSound, StutterSound DEF Sound
<1>. QED
  BY <1>1, InitSound, PTL DEF Spec

(* The queue keeps its shape. *)
THEOREM QueueTypeCorrect == Spec => []TypeOK
<1>1. IInv => TypeOK
  BY DEF IInv
<1>. QED
  BY <1>1, AllSound, PTL

(* A ticket the records call printed did come out of the printer, or a       *)
(* computer's print queue dropped it: nothing else gets an unprinted ticket  *)
(* marked, not a late ack, the agent's own connections, the direct delivery  *)
(* or a retry.                                                               *)
THEOREM DoneWasPrinted == Spec => []DoneIsPrinted
<1>1. IInv => DoneIsPrinted
  BY DEF IInv
<1>. QED
  BY <1>1, AllSound, PTL

(* Done is done: no late ack, expiry or reclaim changes it. *)
THEOREM DoneStaysDone == Spec => DoneIsFinal
<1>. DEFINE Kept == \A j \in Jobs : job[j].status = "done" => job'[j].status = "done"
<1>1. IInv /\ [Next]_vars => [Kept]_vars
  BY NextSound DEF Sound, JobSteps, JobStep
<1>. QED
  BY <1>1, AllSound, PTL DEF Spec, DoneIsFinal

(* A queue nobody drained does not come out late: the oldest ticket an agent *)
(* can be handed is over the limit by no more than the time a poll is held.  *)
THEOREM LateIsNotHanded == Spec => NeverHandedLate
<1>. DEFINE Fresh == \A j \in Jobs :
       job[j].status = "pending" /\ job'[j].status = "claimed" => job[j].age <= MaxAge + Hold
<1>1. IInv /\ [Next]_vars => [Fresh]_vars
  BY NextSound DEF Sound, JobSteps, JobStep
<1>. QED
  BY <1>1, AllSound, PTL DEF Spec, NeverHandedLate

-----------------------------------------------------------------------------
(* The order in which tickets come out. *)

(* Tickets are queued in their order. *)
CreatedInOrder ==
  \A i, j \in Jobs : i < j /\ job[i].status = "none" => job[j].status = "none"

(* Nothing but an enqueue puts a ticket in the queue. *)
NoneQueued == \A j \in Jobs : job'[j].status = "none" <=> job[j].status = "none"

LEMMA OrderKept ==
  ASSUME CreatedInOrder, NoneQueued
  PROVE  CreatedInOrder'
BY DEF CreatedInOrder, NoneQueued

LEMMA EnqueueInOrder ==
  ASSUME IInv, CreatedInOrder, NEW j \in Jobs, Enqueue(j)
  PROVE  CreatedInOrder'
<1>1. /\ job'[j].status # "none"
      /\ \A i \in 1..(j - 1) : job[i].status # "none"
      /\ \A i \in Jobs \ {j} : job'[i] = job[i]
  BY EnqueueMoves DEF IInv
<1>. QED
  BY <1>1, PrintAssumption DEF CreatedInOrder, Jobs

-----------------------------------------------------------------------------
(* A station whose tickets go through agents. *)

InHand(j) ==
  \/ \E c \in Conns : j \in conn[c].got
  \/ \E a \in Agents : \E i \in 1..Len(spool[a]) : j \in spool[a][i].left

(* The ticket has been handed out at some time. *)
HandedOut(j) ==
  job[j].status = "claimed" \/ job[j].requeued > 0 \/ Out(j) \/ InHand(j)

(* The claims have passed it by, or it has had its turn. *)
Passed(j) ==
  /\ job[j].status # "none"
  /\ job[j].status = "pending" => job[j].requeued > 0 \/ job[j].age > MaxAge

OldestFirst == \A i, j \in Jobs : i < j /\ HandedOut(j) => Passed(i)

NoSends == \A d \in Deliverers : sends[d] = Idle

HandInv == CreatedInOrder /\ OldestFirst /\ NoSends

HInv == IInv /\ (~Direct => HandInv)

LEMMA HandInit == Init => HInv
<1> SUFFICES ASSUME Init PROVE HInv
  OBVIOUS
<1>1. \A j \in Jobs : ~HandedOut(j)
  BY DEF Init, HandedOut, InHand, Out, NoConn
<1>. QED
  BY <1>1, InitSound DEF HInv, HandInv, CreatedInOrder, OldestFirst, NoSends, Init

(* A step that hands nothing out. *)
HandStep(j) ==
  /\ HandedOut(j)' => HandedOut(j)
  /\ Passed(j) => Passed(j)'

LEMMA HandStepsKeep ==
  ASSUME HandInv, UNCHANGED sends, NoneQueued, \A j \in Jobs : HandStep(j)
  PROVE  HandInv'
BY OrderKept DEF HandInv, OldestFirst, NoSends, HandStep

(* Nothing comes into anybody's hands. *)
HandsShrink == \A j \in Jobs : InHand(j)' => InHand(j)

LEMMA GotShrinks ==
  ASSUME UNCHANGED spool, \A c \in Conns : conn'[c].got \subseteq conn[c].got
  PROVE  HandsShrink
BY DEF HandsShrink, InHand

LEMMA SpoolShrinks ==
  ASSUME \A c \in Conns : conn'[c].got \subseteq conn[c].got,
         ASSUME NEW a \in Agents, NEW i \in 1..Len(spool'[a])
         PROVE  \E k \in 1..Len(spool[a]) : spool'[a][i].left \subseteq spool[a][k].left
  PROVE  HandsShrink
<1> SUFFICES ASSUME NEW j \in Jobs, InHand(j)' PROVE InHand(j)
  BY DEF HandsShrink
<1>1. CASE \E c \in Conns : j \in conn'[c].got
  BY <1>1 DEF InHand
<1>2. CASE \E a \in Agents : \E i \in 1..Len(spool'[a]) : j \in spool'[a][i].left
  <2>1. PICK a \in Agents : \E i \in 1..Len(spool'[a]) : j \in spool'[a][i].left
    BY <1>2
  <2>2. \E k \in 1..Len(spool[a]) : j \in spool[a][k].left
    BY <2>1
  <2>. QED
    BY <2>2 DEF InHand
<1>. QED
  BY <1>1, <1>2 DEF InHand

(* What the operations on one document do to its turn. *)
LEMMA SameHand ==
  ASSUME HandsShrink, NEW j \in Jobs, job'[j] = job[j]
  PROVE  HandStep(j)
BY DEF HandsShrink, HandStep, HandedOut, Passed, Out

LEMMA PrintedHand ==
  ASSUME TypeOK, HandsShrink, NEW j \in Jobs, InHand(j), job'[j] = Printed(job[j])
  PROVE  HandStep(j) /\ (job'[j].status = "none" <=> job[j].status = "none")
<1>1. SameBut(job[j], job'[j], {"copies"})
  BY JobIs, PrintedIs
<1>. QED
  BY <1>1 DEF HandsShrink, HandStep, HandedOut, Passed, SameBut

LEMMA DroppedHand ==
  ASSUME TypeOK, HandsShrink, NEW j \in Jobs, NEW left, j \in left => InHand(j), Dropping(j, left)
  PROVE  HandStep(j) /\ (job'[j].status = "none" <=> job[j].status = "none")
<1>1. CASE j \in left
  <2>1. SameBut(job[j], job'[j], {"dropped"})
    BY <1>1, JobIs, DroppedSet DEF Dropping
  <2>. QED
    BY <1>1, <2>1 DEF HandsShrink, HandStep, HandedOut, Passed, SameBut
<1>2. CASE j \notin left
  BY <1>2, SameHand DEF Dropping
<1>. QED
  BY <1>1, <1>2

LEMMA QuietHand ==
  ASSUME HandsShrink, \A j \in Jobs : job'[j] = job[j]
  PROVE  NoneQueued /\ \A j \in Jobs : HandStep(j)
BY SameHand DEF NoneQueued

LEMMA OneOutHand ==
  ASSUME TypeOK, HandsShrink, NEW j \in Jobs, InHand(j), OneOut(j)
  PROVE  NoneQueued /\ \A i \in Jobs : HandStep(i)
BY SameHand, PrintedHand DEF OneOut, NoneQueued

-----------------------------------------------------------------------------
LEMMA HandEnqueue ==
  ASSUME IInv, HandInv, ~Direct, NEW j \in Jobs, Enqueue(j)
  PROVE  HandInv'
<1>1. /\ job[j].status = "none" /\ job'[j].status = "pending" /\ SameBut(job[j], job'[j], {"status"})
      /\ \A i \in Jobs \ {j} : job'[i] = job[i]
      /\ UNCHANGED <<conn, spool, sends>>
  BY EnqueueMoves DEF IInv
<1>2. HandsShrink
  BY <1>1, GotShrinks
<1>3. \A i \in Jobs : HandedOut(i)' => HandedOut(i)
  BY <1>1, <1>2 DEF HandsShrink, HandedOut, Out, SameBut
<1>4. \A i \in Jobs \ {j} : Passed(i) => Passed(i)'
  BY <1>1 DEF Passed
<1>5. OldestFirst'
  BY <1>1, <1>3, <1>4 DEF HandInv, OldestFirst, Passed
<1>. QED
  BY <1>1, <1>5, EnqueueInOrder DEF HandInv, NoSends

LEMMA HandPoll ==
  ASSUME IInv, HandInv, NEW a \in Agents, NEW c \in Conns, Poll(a, c)
  PROVE  HandInv'
<1>1. UNCHANGED <<job, spool, sends>> /\ \A k \in Conns : conn'[k].got \subseteq conn[k].got
  BY PollMoves DEF IInv
<1>. QED
  BY <1>1, GotShrinks, QuietHand, HandStepsKeep

LEMMA HandReclaim ==
  ASSUME IInv, HandInv, NEW c \in Conns, Reclaim(c)
  PROVE  HandInv'
<1>1. /\ UNCHANGED <<spool, sends>> /\ job' = [j \in Jobs |-> Reclaimed(job[j])]
      /\ \A k \in Conns : conn'[k].got = conn[k].got
  BY ReclaimMoves DEF IInv
<1>2. HandsShrink
  BY <1>1, GotShrinks
<1>3. ASSUME NEW j \in Jobs
      PROVE  HandStep(j) /\ (job'[j].status = "none" <=> job[j].status = "none")
  <2>1. \/ job'[j] = job[j]
        \/ job[j].status = "claimed" /\ job'[j].status = "pending" /\ job'[j].requeued > 0
    <3>1. job[j] \in PrintJob /\ job'[j] = Reclaimed(job[j])
      BY <1>1, JobIs DEF IInv
    <3>. QED
      BY <3>1, ReclaimedIs
  <2>. QED
    BY <1>2, <2>1, SameHand DEF HandStep, HandedOut, Passed
<1>. QED
  BY <1>1, <1>3, HandStepsKeep DEF NoneQueued

LEMMA HandExpire ==
  ASSUME IInv, HandInv, NEW c \in Conns, Expire(c)
  PROVE  HandInv'
<1>1. /\ UNCHANGED <<spool, sends>> /\ job' = [j \in Jobs |-> Expired(job[j])]
      /\ \A k \in Conns : conn'[k].got = conn[k].got
  BY ExpireMoves DEF IInv
<1>2. HandsShrink
  BY <1>1, GotShrinks
<1>3. ASSUME NEW j \in Jobs
      PROVE  HandStep(j) /\ (job'[j].status = "none" <=> job[j].status = "none")
  <2>1. \/ job'[j] = job[j]
        \/ /\ job[j].status = "pending" /\ job'[j].status = "failed"
           /\ SameBut(job[j], job'[j], {"status", "age", "held"})
    <3>1. job[j] \in PrintJob /\ job'[j] = Expired(job[j])
      BY <1>1, JobIs DEF IInv
    <3>. QED
      BY <3>1, ExpiredIs
  <2>. QED
    BY <1>2, <2>1, SameHand DEF HandsShrink, HandStep, HandedOut, Passed, Out, SameBut
<1>. QED
  BY <1>1, <1>3, HandStepsKeep DEF NoneQueued

LEMMA HandTick ==
  ASSUME IInv, HandInv, Tick
  PROVE  HandInv'
<1>1. /\ UNCHANGED <<spool, sends>> /\ job' = [j \in Jobs |-> Older(job[j])]
      /\ \A k \in Conns : conn'[k].got = conn[k].got
  BY TickMoves DEF IInv
<1>2. HandsShrink
  BY <1>1, GotShrinks
<1>3. ASSUME NEW j \in Jobs
      PROVE  HandStep(j) /\ (job'[j].status = "none" <=> job[j].status = "none")
  <2>1. job[j] \in PrintJob /\ job'[j] = Older(job[j])
    BY <1>1, JobIs DEF IInv
  <2>2. SameBut(job[j], job'[j], {"age", "held"}) /\ job'[j].age >= job[j].age
        /\ job[j].age \in Nat /\ job'[j].age \in Nat /\ MaxAge \in Nat
    BY <2>1, OlderIs, Limits DEF PrintJob
  <2>. QED
    BY <1>2, <2>2 DEF HandsShrink, HandStep, HandedOut, Passed, Out, SameBut
<1>. QED
  BY <1>1, <1>3, HandStepsKeep DEF NoneQueued

(* The claim takes the oldest that is fresh enough: whatever is older and    *)
(* waits has been handed out before, or is past the limit.                   *)
LEMMA HandClaim ==
  ASSUME IInv, HandInv, NEW c \in Conns, Claim(c)
  PROVE  HandInv'
<1>1. UNCHANGED <<spool, sends>> /\ TypeOK
  BY ClaimMoves DEF IInv
<1>2. PICK j \in Claimable(c) :
        /\ j \in Jobs /\ Taken(job[j], job'[j])
        /\ \A i \in Claimable(c) : j <= i
        /\ \A i \in Jobs \ {j} : job'[i] = job[i]
        /\ conn'[c].got = conn[c].got \cup {j}
        /\ \A k \in Conns \ {c} : conn'[k] = conn[k]
  BY ClaimMoves DEF IInv
<1>3. \A i \in Jobs \ {j} : HandedOut(i)' => HandedOut(i)
  BY <1>1, <1>2 DEF HandedOut, InHand, Out
<1>4. \A i \in Jobs : Passed(i) => Passed(i)'
  BY <1>2 DEF Passed, Taken
<1>5. ASSUME NEW i \in Jobs, i < j PROVE Passed(i)
  <2>1. job[i].status # "none"
    BY <1>2, <1>5 DEF HandInv, CreatedInOrder, Taken
  <2>2. i \notin Claimable(c)
    BY <1>2, <1>5, PrintAssumption DEF Jobs
  <2>3. conn[c].waited \in 0..Hold /\ job[i].age \in Nat
    BY <1>1, TypeOKParts, JobIs, Limits DEF Connection, PrintJob
  <2>4. job[i].status = "pending" => job[i].age > MaxAge
    BY <2>2, <2>3, Limits DEF Claimable, With
  <2>. QED
    BY <2>1, <2>4 DEF Passed
<1>6. OldestFirst'
  BY <1>3, <1>4, <1>5 DEF HandInv, OldestFirst
<1>7. NoneQueued
  BY <1>2 DEF NoneQueued, Taken
<1>. QED
  BY <1>1, <1>6, <1>7, OrderKept DEF HandInv, NoSends

LEMMA AnswerHands ==
  ASSUME IInv, NEW c \in Conns, Answer(c)
  PROVE  HandsShrink
<1>1. /\ TypeOK /\ conn'[c].got = {}
      /\ \A k \in Conns \ {c} : conn'[k] = conn[k]
      /\ UNCHANGED spool \/ Handed(conn[c].got)
  BY AnswerMoves DEF IInv
<1>2. CASE UNCHANGED spool
  BY <1>1, <1>2, GotShrinks
<1>3. CASE Handed(conn[c].got)
  <2>1. PICK a \in Agents, b \in Batch :
          b.left = conn[c].got /\ spool' = [spool EXCEPT ![a] = Append(spool[a], b)]
    BY <1>3 DEF Handed
  <2>2. spool[a] \in Seq(Batch)
    BY <1>1 DEF TypeOK
  <2>3. /\ spool'[a] = Append(spool[a], b)
        /\ \A k \in Agents \ {a} : spool'[k] = spool[k]
    BY <1>1, <2>1 DEF TypeOK
  <2>4. ASSUME NEW j \in Jobs, NEW k \in Agents, NEW i \in 1..Len(spool'[k]), j \in spool'[k][i].left
        PROVE  InHand(j)
    <3>1. CASE k # a
      BY <2>3, <2>4, <3>1 DEF InHand
    <3>2. CASE k = a
      <4>1. i \in 1..Len(spool[a]) \/ i = Len(spool[a]) + 1
        BY <2>2, <2>3, <3>2, BatchAppended, LenProperties
      <4>2. CASE i \in 1..Len(spool[a])
        <5>1. j \in spool[a][i].left
          BY <2>2, <2>3, <2>4, <3>2, <4>2, BatchAppended
        <5>. QED
          BY <4>2, <5>1 DEF InHand
      <4>3. CASE i = Len(spool[a]) + 1
        <5>1. spool'[k][i] = b
          BY <2>2, <2>3, <3>2, <4>3, BatchAppended
        <5>. QED
          BY <2>1, <2>4, <5>1 DEF InHand
      <4>. QED
        BY <4>1, <4>2, <4>3
    <3>. QED
      BY <3>1, <3>2
  <2>. QED
    BY <1>1, <2>4 DEF HandsShrink, InHand
<1>. QED
  BY <1>1, <1>2, <1>3

LEMMA HandAnswer ==
  ASSUME IInv, HandInv, NEW c \in Conns, Answer(c)
  PROVE  HandInv'
<1>1. UNCHANGED <<job, sends>>
  BY AnswerMoves DEF IInv
<1>. QED
  BY <1>1, AnswerHands, QuietHand, HandStepsKeep

LEMMA HandHangUp ==
  ASSUME IInv, HandInv, NEW c \in Conns, HangUp(c)
  PROVE  HandInv'
<1>1. UNCHANGED <<job, spool, sends>> /\ \A k \in Conns : conn'[k].got = conn[k].got
  BY HangUpMoves DEF IInv
<1>. QED
  BY <1>1, GotShrinks, QuietHand, HandStepsKeep

LEMMA HandAbort ==
  ASSUME IInv, HandInv, NEW c \in Conns, Abort(c)
  PROVE  HandInv'
<1>1. UNCHANGED <<job, spool, sends>> /\ \A k \in Conns : conn'[k].got \subseteq conn[k].got
  BY AbortMoves DEF IInv
<1>. QED
  BY <1>1, GotShrinks, QuietHand, HandStepsKeep

LEMMA PrintTicketHands ==
  ASSUME IInv, NEW a \in Agents, PrintTicket(a)
  PROVE  HandsShrink /\ \E j \in Jobs : InHand(j) /\ OneOut(j)
<1>1. TypeOK /\ UNCHANGED <<acks, sends, conn>> /\ spool[a] # << >>
  BY PrintTicketMoves DEF IInv
<1>2. PICK j \in Jobs, b \in Batch :
        /\ j \in spool[a][1].left /\ OneOut(j)
        /\ b.left = spool[a][1].left \ {j}
        /\ spool' = [spool EXCEPT ![a] = [spool[a] EXCEPT ![1] = b]]
  BY PrintTicketMoves DEF IInv
<1>3. spool[a] \in Seq(Batch) /\ 1 \in 1..Len(spool[a])
  BY <1>1, FirstBatch DEF TypeOK
<1>4. /\ Len(spool'[a]) = Len(spool[a]) /\ spool'[a][1] = b
      /\ \A k \in 1..Len(spool[a]) \ {1} : spool'[a][k] = spool[a][k]
      /\ \A k \in Agents \ {a} : spool'[k] = spool[k]
  <2>1. spool'[a] = [spool[a] EXCEPT ![1] = b] /\ \A k \in Agents \ {a} : spool'[k] = spool[k]
    BY <1>1, <1>2 DEF TypeOK
  <2>. QED
    BY <1>3, <2>1, BatchReplaced
<1>5. ASSUME NEW k \in Agents, NEW i \in 1..Len(spool'[k])
      PROVE  \E l \in 1..Len(spool[k]) : spool'[k][i].left \subseteq spool[k][l].left
  <2>1. CASE k # a
    <3>1. spool'[k] = spool[k]
      BY <1>4, <2>1
    <3>. QED
      BY <3>1
  <2>2. CASE k = a
    <3>1. i \in 1..Len(spool[a]) /\ spool'[a][i].left \subseteq spool[a][i].left
      BY <1>2, <1>4, <2>2
    <3>. QED
      BY <2>2, <3>1
  <2>. QED
    BY <2>1, <2>2
<1>6. HandsShrink
  BY <1>1, <1>5, SpoolShrinks
<1>7. InHand(j)
  BY <1>2, <1>3 DEF InHand
<1>. QED
  BY <1>2, <1>6, <1>7

LEMMA HandPrintTicket ==
  ASSUME IInv, HandInv, NEW a \in Agents, PrintTicket(a)
  PROVE  HandInv'
<1>1. TypeOK /\ UNCHANGED sends
  BY PrintTicketMoves DEF IInv
<1>. QED
  BY <1>1, PrintTicketHands, OneOutHand, HandStepsKeep

LEMMA BatchDoneHands ==
  ASSUME IInv, NEW a \in Agents, BatchDone(a)
  PROVE  HandsShrink
<1>1. /\ TypeOK /\ UNCHANGED <<job, conn, sends>> /\ spool[a] # << >>
      /\ spool' = [spool EXCEPT ![a] = Tail(spool[a])]
  BY BatchDoneMoves DEF IInv
<1>2. spool[a] \in Seq(Batch)
  BY <1>1 DEF TypeOK
<1>3. ASSUME NEW k \in Agents, NEW i \in 1..Len(spool'[k])
      PROVE  \E l \in 1..Len(spool[k]) : spool'[k][i].left \subseteq spool[k][l].left
  <2>1. CASE k # a
    <3>1. spool'[k] = spool[k]
      BY <1>1, <2>1 DEF TypeOK
    <3>. QED
      BY <3>1
  <2>2. CASE k = a
    <3>1. spool'[a] = Tail(spool[a])
      BY <1>1 DEF TypeOK
    <3>2. i + 1 \in 1..Len(spool[a]) /\ Tail(spool[a])[i] = spool[a][i + 1]
      BY <1>1, <1>2, <2>2, <3>1, FirstBatch
    <3>. QED
      BY <2>2, <3>1, <3>2
  <2>. QED
    BY <2>1, <2>2
<1>. QED
  BY <1>1, <1>3, SpoolShrinks

LEMMA HandBatchDone ==
  ASSUME IInv, HandInv, NEW a \in Agents, BatchDone(a)
  PROVE  HandInv'
<1>1. UNCHANGED <<job, sends>>
  BY BatchDoneMoves DEF IInv
<1>. QED
  BY <1>1, BatchDoneHands, QuietHand, HandStepsKeep

LEMMA DropHands ==
  ASSUME IInv, NEW a \in Agents, NEW i \in 1..Len(spool[a]), Drop(a, i)
  PROVE  HandsShrink /\ \A j \in spool[a][i].left : InHand(j)
<1>1. /\ UNCHANGED conn
      /\ \A k \in Agents \ {a} : spool'[k] = spool[k]
      /\ \A k \in 1..Len(spool'[a]) :
           Skip(i, k) \in 1..Len(spool[a]) /\ spool'[a][k] = spool[a][Skip(i, k)]
  BY DropMoves DEF IInv
<1>2. ASSUME NEW k \in Agents, NEW l \in 1..Len(spool'[k])
      PROVE  \E m \in 1..Len(spool[k]) : spool'[k][l].left \subseteq spool[k][m].left
  BY <1>1
<1>. QED
  BY <1>1, <1>2, SpoolShrinks DEF InHand

LEMMA HandDrop ==
  ASSUME IInv, HandInv, NEW a \in Agents, NEW i \in 1..Len(spool[a]), Drop(a, i)
  PROVE  HandInv'
<1>1. UNCHANGED sends /\ \A j \in Jobs : Dropping(j, spool[a][i].left)
  BY DropMoves DEF IInv
<1>2. NoneQueued /\ \A j \in Jobs : HandStep(j)
  BY <1>1, DropHands, DroppedHand DEF IInv, NoneQueued
<1>. QED
  BY <1>1, <1>2, HandStepsKeep

LEMMA EmptySpoolShrinks ==
  ASSUME TypeOK, NEW a \in Agents, spool' = [spool EXCEPT ![a] = << >>],
         \A c \in Conns : conn'[c].got = conn[c].got
  PROVE  HandsShrink
<1>1. spool'[a] = << >> /\ \A k \in Agents \ {a} : spool'[k] = spool[k]
  BY EmptySpool
<1>2. ASSUME NEW k \in Agents, NEW i \in 1..Len(spool'[k])
      PROVE  \E l \in 1..Len(spool[k]) : spool'[k][i].left \subseteq spool[k][l].left
  <2>1. k # a
    BY <1>1
  <2>2. spool'[k] = spool[k]
    BY <1>1, <2>1
  <2>. QED
    BY <2>2
<1>. QED
  BY <1>2, SpoolShrinks

LEMMA HandGiveUp ==
  ASSUME IInv, HandInv, NEW a \in Agents, GiveUp(a)
  PROVE  HandInv'
BY GiveUpMoves, EmptySpoolShrinks, QuietHand, HandStepsKeep DEF IInv

LEMMA SendTicketHands ==
  ASSUME IInv, NEW a \in Agents, SendTicket(a)
  PROVE  /\ HandsShrink /\ UNCHANGED sends
         /\ \E j \in Jobs : InHand(j) /\ (OneOut(j) \/ UNCHANGED job)
<1>1. TypeOK /\ a \notin Spooled /\ spool[a] # << >>
  BY DEF IInv, SendTicket
<1>2. spool[a] \in Seq(Batch) /\ 1 \in 1..Len(spool[a])
  BY <1>1, FirstBatch DEF TypeOK
<1>3. spool[a][1].left # {}
  BY <1>1, <1>2 DEF IInv, SpoolSound, BatchSound
<1>4. UNCHANGED <<conn, sends>>
  BY <1>1, <1>3, SendTicketMoves
<1>5. PICK j \in Jobs, b \in Batch :
        /\ j \in spool[a][1].left
        /\ OneOut(j) \/ UNCHANGED job
        /\ b.left = spool[a][1].left \ {j}
        /\ spool'[a] = IF b.left = {} THEN << >> ELSE << b >>
        /\ \A k \in Agents \ {a} : spool'[k] = spool[k]
  BY <1>1, <1>3, SendTicketMoves
<1>6. ASSUME NEW k \in Agents, NEW i \in 1..Len(spool'[k])
      PROVE  \E l \in 1..Len(spool[k]) : spool'[k][i].left \subseteq spool[k][l].left
  <2>1. CASE k # a
    <3>1. spool'[k] = spool[k]
      BY <1>5, <2>1
    <3>. QED
      BY <3>1
  <2>2. CASE k = a
    <3>1. spool'[a] = << b >>
      BY <1>5, <2>2
    <3>2. spool'[a][i] = b
      BY <2>2, <3>1
    <3>. QED
      BY <1>2, <1>5, <2>2, <3>2
  <2>. QED
    BY <2>1, <2>2
<1>7. HandsShrink
  BY <1>4, <1>6, SpoolShrinks
<1>8. InHand(j)
  BY <1>2, <1>5 DEF InHand
<1>. QED
  BY <1>4, <1>5, <1>7, <1>8

LEMMA HandSendTicket ==
  ASSUME IInv, HandInv, NEW a \in Agents, SendTicket(a)
  PROVE  HandInv'
<1>1. TypeOK
  BY DEF IInv
<1>. QED
  BY <1>1, SendTicketHands, OneOutHand, QuietHand, HandStepsKeep

LEMMA CrashHands ==
  ASSUME IInv, NEW a \in Agents, Crash(a)
  PROVE  /\ HandsShrink
         /\ \A j \in Jobs : job'[j] = job[j] \/ (InHand(j) /\ job'[j] = Printed(job[j]))
<1>1. /\ TypeOK /\ spool' = [spool EXCEPT ![a] = << >>]
      /\ \A k \in Conns : conn'[k].got = conn[k].got
  BY CrashMoves DEF IInv
<1>2. HandsShrink
  BY <1>1, EmptySpoolShrinks
<1>3. ASSUME NEW j \in Jobs PROVE job'[j] = job[j] \/ (InHand(j) /\ job'[j] = Printed(job[j]))
  BY CrashMoves DEF IInv, InHand
<1>. QED
  BY <1>2, <1>3

LEMMA HandCrash ==
  ASSUME IInv, HandInv, NEW a \in Agents, Crash(a)
  PROVE  HandInv'
<1>1. TypeOK /\ UNCHANGED sends
  BY CrashMoves DEF IInv
<1>2. ASSUME NEW j \in Jobs
      PROVE  HandStep(j) /\ (job'[j].status = "none" <=> job[j].status = "none")
  BY <1>1, CrashHands, SameHand, PrintedHand
<1>. QED
  BY <1>1, <1>2, HandStepsKeep DEF NoneQueued

LEMMA HandAck ==
  ASSUME IInv, HandInv, NEW m \in acks, Ack(m)
  PROVE  HandInv'
<1>1. PICK j \in Jobs : j = m[1]
  BY AckMoves DEF IInv
<1>2. /\ TypeOK /\ UNCHANGED <<conn, spool, sends>> /\ m[2] \in {"done", "failed"}
      /\ job'[j] = Acked(job[j], m[2])
      /\ \A i \in Jobs \ {j} : job'[i] = job[i]
  BY <1>1, AckMoves DEF IInv
<1>3. HandsShrink
  BY <1>2, GotShrinks
<1>4. HandStep(j) /\ (job'[j].status = "none" <=> job[j].status = "none")
  <2>1. \/ job'[j] = job[j]
        \/ /\ job[j].status = "claimed" /\ job'[j].status \in {"done", "failed"}
           /\ SameBut(job[j], job'[j], {"status", "age", "held"})
    BY <1>2, JobIs, AckedIs
  <2>. QED
    BY <1>3, <2>1, SameHand DEF HandStep, HandedOut, Passed
<1>5. \A i \in Jobs : HandStep(i)
  BY <1>2, <1>3, <1>4, SameHand
<1>. QED
  BY <1>2, <1>4, <1>5, HandStepsKeep DEF NoneQueued

LEMMA HandLoseAck ==
  ASSUME IInv, HandInv, NEW m \in acks, LoseAck(m)
  PROVE  HandInv'
<1>1. UNCHANGED <<job, conn, spool, sends>>
  BY LoseAckMoves DEF IInv
<1>. QED
  BY <1>1, GotShrinks, QuietHand, HandStepsKeep

(* With no directPrinterHost nothing is ever sent. *)
LEMMA HandDirect ==
  ASSUME HandInv, ~Direct
  PROVE  /\ ~ \E s \in Sweeps : Sweep(s)
         /\ ~ \E d \in Deliverers : Deliver(d)
BY IdleIs DEF HandInv, NoSends, Sweep, Deliver, Send, MarkDone, SendFails

LEMMA HandNext ==
  ASSUME HInv, [Next]_vars
  PROVE  HInv'
<1>1. IInv'
  BY NextSound, StutterSound DEF HInv, Sound
<1>2. ASSUME ~Direct PROVE HandInv'
  <2>. IInv /\ HandInv
    BY <1>2 DEF HInv
  <2>1. CASE Next
    BY <1>2, <2>1, HandEnqueue, HandPoll, HandReclaim, HandExpire, HandClaim, HandAnswer, HandHangUp,
       HandAbort, HandPrintTicket, HandBatchDone, HandDrop, HandGiveUp, HandSendTicket, HandCrash, HandAck,
       HandLoseAck, HandDirect, HandTick
    DEF Next, Handle, Work
  <2>2. CASE UNCHANGED vars
    <3>1. UNCHANGED <<job, conn, spool, sends>>
      BY <2>2 DEF vars
    <3>. QED
      BY <3>1, GotShrinks, QuietHand, HandStepsKeep
  <2>. QED
    BY <2>1, <2>2
<1>. QED
  BY <1>1, <1>2 DEF HInv

(* On the agent path the tickets are handed out oldest first: none comes out *)
(* while an earlier one, never handed out and still fresh, waits.            *)
THEOREM AgentsPrintInOrder == Spec => []InClaimOrder
<1>1. HInv => InClaimOrder
  BY DEF HInv, HandInv, OldestFirst, InClaimOrder, HandedOut, Passed, Out
<1>. QED
  BY <1>1, HandInit, HandNext, PTL DEF Spec

-----------------------------------------------------------------------------
(* A direct station, which no agent polls. *)

Settled(j) == Out(j) \/ job[j].status = "failed"

SameTrain(i, j) == i < j /\ TrainOf[i] = TrainOf[j]

NoAgents ==
  /\ conn = [c \in Conns |-> NoConn]
  /\ acks = {}
  /\ \A j \in Jobs : job[j].status # "claimed" /\ ~job[j].dropped

TrainInv ==
  /\ CreatedInOrder
  /\ NoAgents
  /\ \A d \in Deliverers : \A j \in sends[d].todo : job[j].status # "none"
  /\ \A d \in Deliverers : \A j \in sends[d].todo :
       \A i \in Jobs : SameTrain(i, j) => i \in sends[d].todo \/ Settled(i)
  /\ \A i, j \in Jobs : SameTrain(i, j) /\ Out(j) => Settled(i)

OnlyDirect == Direct /\ Agents = {}

DInv == IInv /\ (OnlyDirect => TrainInv)

LEMMA TrainInit == Init => DInv
<1> SUFFICES ASSUME Init PROVE DInv
  OBVIOUS
<1>1. \A j \in Jobs : job[j].status = "none" /\ ~Out(j)
  BY DEF Init, Out
<1>. QED
  BY <1>1, InitSound, IdleIs DEF DInv, TrainInv, NoAgents, CreatedInOrder, Init

LEMMA SettledStays ==
  ASSUME JobSteps, NEW j \in Jobs, Settled(j), job'[j].status \in {job[j].status, "failed"} \/ Out(j)
  PROVE  Settled(j)'
BY DEF JobSteps, JobStep, Settled

LEMMA TrainEnqueue ==
  ASSUME IInv, TrainInv, NEW j \in Jobs, Enqueue(j)
  PROVE  TrainInv'
<1>. DEFINE train == {i \in Jobs : TrainOf[i] = TrainOf[j]}
<1>1. /\ job[j].status = "none" /\ job'[j].status = "pending" /\ SameBut(job[j], job'[j], {"status"})
      /\ \A i \in Jobs \ {j} : job'[i] = job[i]
      /\ UNCHANGED <<conn, acks>>
      /\ \/ UNCHANGED sends
         \/ /\ \A i \in train \ {j} : job[i].status # "none"
            /\ sends'[TrainOf[j]].todo = train
            /\ \A d \in Deliverers \ {TrainOf[j]} : sends'[d] = sends[d]
  BY EnqueueMoves DEF IInv
<1>2. \A i \in Jobs : (Settled(i) <=> Settled(i)') /\ (Out(i) <=> Out(i)')
  BY <1>1 DEF Settled, Out, SameBut
<1>3. \A i \in Jobs : job[i].status # "none" => job'[i].status # "none"
  BY <1>1
<1>4. NoAgents'
  BY <1>1 DEF TrainInv, NoAgents, SameBut
<1>5. ASSUME NEW d \in Deliverers
      PROVE  /\ sends'[d].todo \subseteq Jobs
             /\ \A k \in sends'[d].todo :
                  /\ job'[k].status # "none"
                  /\ \A i \in Jobs : SameTrain(i, k) => i \in sends'[d].todo \/ Settled(i)'
  <2>1. CASE sends'[d] = sends[d]
    <3>1. sends[d].todo \subseteq Jobs
      BY TypeOKParts DEF IInv, Sending
    <3>. QED
      BY <1>2, <1>3, <2>1, <3>1 DEF TrainInv
  <2>2. CASE sends'[d] # sends[d]
    <3>1. sends'[d].todo = train /\ \A i \in train \ {j} : job[i].status # "none"
      BY <1>1, <2>2
    <3>2. \A k \in train : job'[k].status # "none"
      BY <1>1, <3>1
    <3>3. \A k \in train : \A i \in Jobs : SameTrain(i, k) => i \in train
      BY DEF SameTrain
    <3>. QED
      BY <3>1, <3>2, <3>3
  <2>. QED
    BY <2>1, <2>2
<1>6. \A i, k \in Jobs : SameTrain(i, k) /\ Out(k)' => Settled(i)'
  BY <1>2 DEF TrainInv
<1>7. CreatedInOrder'
  BY EnqueueInOrder DEF TrainInv
<1>. QED
  BY <1>4, <1>5, <1>6, <1>7 DEF TrainInv, SameTrain

(* A step that neither queues a ticket nor starts a list of them. *)
LEMMA TrainKept ==
  ASSUME IInv, TrainInv, JobSteps, NoneQueued, NoAgents',
         \A i \in Jobs : Settled(i) => Settled(i)',
         ASSUME NEW d \in Deliverers, NEW j \in sends'[d].todo
         PROVE  /\ j \in sends[d].todo
                /\ \A i \in sends[d].todo : i \in sends'[d].todo \/ Settled(i)',
         \A i, j \in Jobs : SameTrain(i, j) /\ Out(j)' => Settled(i)'
  PROVE  TrainInv'
<1>1. \A d \in Deliverers : sends[d].todo \subseteq Jobs
  BY TypeOKParts DEF IInv, Sending
<1>2. CreatedInOrder'
  BY OrderKept DEF TrainInv
<1>3. ASSUME NEW d \in Deliverers, NEW j \in sends'[d].todo
      PROVE  /\ job'[j].status # "none"
             /\ \A i \in Jobs : SameTrain(i, j) => i \in sends'[d].todo \/ Settled(i)'
  <2>1. j \in sends[d].todo /\ j \in Jobs /\ job[j].status # "none"
    BY <1>1, <1>3 DEF TrainInv
  <2>2. \A i \in Jobs : SameTrain(i, j) => i \in sends[d].todo \/ Settled(i)
    BY <2>1 DEF TrainInv
  <2>. QED
    BY <1>3, <2>1, <2>2 DEF NoneQueued
<1>. QED
  BY <1>2, <1>3 DEF TrainInv, SameTrain

LEMMA TrainTick ==
  ASSUME IInv, TrainInv, Tick
  PROVE  TrainInv'
<1>1. /\ TypeOK /\ UNCHANGED <<spool, acks, sends>> /\ job' = [j \in Jobs |-> Older(job[j])]
      /\ conn' = [c \in Conns |-> IF conn[c].phase = "claim" THEN [conn[c] EXCEPT !.waited = @ + 1]
                                  ELSE conn[c]]
  BY TickMoves DEF IInv, Tick
<1>2. \A j \in Jobs : SameBut(job[j], job'[j], {"age", "held"})
  <2> SUFFICES ASSUME NEW j \in Jobs
               PROVE  SameBut(job[j], job'[j], {"age", "held"})
    OBVIOUS
  <2>1. job[j] \in PrintJob /\ job'[j] = Older(job[j])
    BY <1>1, JobIs
  <2>. QED
    BY <2>1, OlderIs
<1>3. NoAgents'
  <2>1. conn' = conn
    BY <1>1 DEF TrainInv, NoAgents, NoConn
  <2>. QED
    BY <1>1, <1>2, <2>1 DEF TrainInv, NoAgents, SameBut
<1>4. JobSteps
  BY TickSound DEF Sound
<1>5. NoneQueued /\ \A j \in Jobs : (Settled(j) <=> Settled(j)') /\ (Out(j) <=> Out(j)')
  BY <1>2 DEF NoneQueued, Settled, Out, SameBut
<1>. QED
  BY <1>1, <1>3, <1>4, <1>5, TrainKept DEF TrainInv

LEMMA TrainSend ==
  ASSUME IInv, TrainInv, NEW d \in Deliverers, Send(d)
  PROVE  TrainInv'
<1>1. PICK j \in Jobs : j = Oldest(sends[d].todo)
  BY SendMoves DEF IInv
<1>2. /\ TypeOK /\ UNCHANGED <<conn, spool, acks>>
      /\ sends[d].todo # {} /\ sends[d].todo \subseteq Jobs /\ OneOut(j)
      /\ \A e \in Deliverers : sends'[e].todo = sends[e].todo
  BY <1>1, SendMoves, TypeOKParts DEF IInv, OneOut, Sending
<1>3. JobSteps /\ Out(j)'
  BY <1>2, OneOutSteps
<1>4. job[j] \in PrintJob /\ SameBut(job[j], job'[j], {"copies"})
  BY <1>2, JobIs, PrintedIs DEF OneOut
<1>5. NoneQueued /\ NoAgents'
  BY <1>2, <1>4 DEF NoneQueued, OneOut, SameBut, TrainInv, NoAgents
<1>6. \A i \in Jobs : Settled(i) => Settled(i)'
  BY <1>2, <1>3 DEF Settled, OneOut, Out
<1>7. ASSUME NEW i \in Jobs, NEW k \in Jobs, SameTrain(i, k), Out(k)' PROVE Settled(i)'
  <2>1. CASE k # j
    BY <1>2, <1>6, <1>7, <2>1 DEF OneOut, Out, TrainInv
  <2>2. CASE k = j
    <3>1. j \in sends[d].todo /\ \A l \in sends[d].todo : j <= l
      BY <1>1, <1>2, OldestIsOldest
    <3>2. i \notin sends[d].todo
      BY <1>7, <2>2, <3>1, PrintAssumption DEF SameTrain, Jobs
    <3>. QED
      BY <1>6, <1>7, <2>2, <3>1, <3>2 DEF TrainInv
  <2>. QED
    BY <2>1, <2>2
<1>. QED
  BY <1>2, <1>3, <1>5, <1>6, <1>7, TrainKept

LEMMA TrainMarkDone ==
  ASSUME IInv, TrainInv, NEW d \in Deliverers, MarkDone(d)
  PROVE  TrainInv'
<1>1. sends[d].sending /\ sends[d].todo # {}
  BY DEF IInv, MarkDone, SendSound
<1>2. PICK j \in Jobs : j = Oldest(sends[d].todo)
  BY <1>1, MarkDoneMoves DEF IInv
<1>3. /\ TypeOK /\ UNCHANGED <<conn, spool, acks>>
      /\ job'[j] = Ended(job[j], "done")
      /\ \A i \in Jobs \ {j} : job'[i] = job[i]
      /\ sends'[d].todo = sends[d].todo \ {j}
      /\ \A e \in Deliverers \ {d} : sends'[e] = sends[e]
  BY <1>1, <1>2, MarkDoneMoves DEF IInv
<1>4. job'[j].status = "done" /\ job'[j].copies = job[j].copies /\ job'[j].dropped = job[j].dropped
  BY <1>3, JobIs, EndedIs DEF SameBut
<1>5. Out(j) /\ j \in sends[d].todo
  <2>1. sends[d].todo \subseteq Jobs
    BY <1>3, TypeOKParts DEF Sending
  <2>. QED
    BY <1>1, <1>2, <2>1, OldestIsOldest DEF IInv, SendSound, Out
<1>6. JobSteps
  BY MarkDoneSound DEF Sound
<1>7. NoneQueued /\ NoAgents'
  BY <1>3, <1>4, <1>5 DEF NoneQueued, TrainInv, NoAgents
<1>8. \A i \in Jobs : (Out(i) <=> Out(i)') /\ (Settled(i) => Settled(i)')
  BY <1>3, <1>4, <1>5 DEF Settled, Out
<1>9. Settled(j)'
  BY <1>5, <1>8 DEF Settled
<1>10. \A i, k \in Jobs : SameTrain(i, k) /\ Out(k)' => Settled(i)'
  BY <1>8 DEF TrainInv
<1>. QED
  BY <1>3, <1>6, <1>7, <1>8, <1>9, <1>10, TrainKept

LEMMA TrainSendFails ==
  ASSUME IInv, TrainInv, NEW d \in Deliverers, SendFails(d)
  PROVE  TrainInv'
<1>1. /\ UNCHANGED <<job, conn, spool, acks>> /\ sends'[d].todo = {}
      /\ \A e \in Deliverers \ {d} : sends'[e] = sends[e]
  BY SendFailsMoves, IdleIs DEF IInv
<1>2. /\ JobSteps /\ NoneQueued /\ NoAgents'
      /\ \A i \in Jobs : (Out(i) <=> Out(i)') /\ (Settled(i) => Settled(i)')
  BY <1>1, UnchangedJobs DEF NoneQueued, TrainInv, NoAgents, Settled, Out
<1>3. \A i, k \in Jobs : SameTrain(i, k) /\ Out(k)' => Settled(i)'
  BY <1>2 DEF TrainInv
<1>4. ASSUME NEW e \in Deliverers, NEW j \in sends'[e].todo
      PROVE  /\ j \in sends[e].todo
             /\ \A i \in sends[e].todo : i \in sends'[e].todo \/ Settled(i)'
  BY <1>1
<1>. QED
  BY <1>2, <1>3, <1>4, TrainKept

(* A sweep lists what is pending and fresh; whatever else of the train was   *)
(* queued before has come out, or is given up by the sweep's first query.    *)
LEMMA TrainSweep ==
  ASSUME IInv, TrainInv, NEW s \in Sweeps, Sweep(s)
  PROVE  TrainInv'
<1>1. /\ TypeOK /\ UNCHANGED <<conn, spool, acks>>
      /\ job' = [j \in Jobs |-> Expired(job[j])]
      /\ sends'[s].todo = {j \in With("pending") : job[j].age <= MaxAge}
      /\ \A d \in Deliverers \ {s} : sends'[d] = sends[d]
  BY SweepMoves DEF IInv
<1>2. ASSUME NEW j \in Jobs
      PROVE  \/ job'[j] = job[j] /\ ~(job[j].status = "pending" /\ job[j].age > MaxAge)
             \/ /\ job[j].status = "pending" /\ job'[j].status = "failed"
                /\ job'[j].copies = job[j].copies /\ job'[j].dropped = job[j].dropped
  <2>1. job[j] \in PrintJob /\ job'[j] = Expired(job[j])
    BY <1>1, JobIs
  <2>. QED
    BY <2>1, ExpiredIs DEF SameBut
<1>3. NoneQueued /\ NoAgents'
  BY <1>1, <1>2 DEF NoneQueued, TrainInv, NoAgents
<1>4. \A i \in Jobs : (Out(i) <=> Out(i)') /\ (Settled(i) => Settled(i)')
  BY <1>2 DEF Settled, Out
<1>5. CreatedInOrder'
  BY <1>3, OrderKept DEF TrainInv
<1>6. \A i, k \in Jobs : SameTrain(i, k) /\ Out(k)' => Settled(i)'
  BY <1>4 DEF TrainInv
<1>7. ASSUME NEW j \in sends'[s].todo
      PROVE  /\ job'[j].status # "none"
             /\ \A i \in Jobs : SameTrain(i, j) => i \in sends'[s].todo \/ Settled(i)'
  <2>1. j \in Jobs /\ job[j].status = "pending"
    BY <1>1, <1>7 DEF With
  <2>2. job'[j].status # "none"
    BY <1>3, <2>1 DEF NoneQueued
  <2>3. ASSUME NEW i \in Jobs, SameTrain(i, j) PROVE i \in sends'[s].todo \/ Settled(i)'
    <3>1. job[i].status \in {"pending", "done", "failed"} /\ job[i].age \in Nat
      <4>1. job[i].status # "none" /\ job[i].status # "claimed"
        BY <2>1, <2>3 DEF TrainInv, CreatedInOrder, NoAgents, SameTrain
      <4>2. job[i] \in PrintJob
        BY <1>1, JobIs
      <4>. QED
        BY <4>1, <4>2, Limits DEF PrintJob
    <3>2. CASE job[i].status = "pending" /\ job[i].age <= MaxAge
      BY <1>1, <3>2 DEF With
    <3>3. CASE job[i].status = "pending" /\ job[i].age > MaxAge
      BY <1>2, <3>3 DEF Settled
    <3>4. CASE job[i].status \in {"done", "failed"}
      BY <1>4, <3>4 DEF IInv, DoneIsPrinted, Settled, Out
    <3>. QED
      BY <3>1, <3>2, <3>3, <3>4, Limits
  <2>. QED
    BY <2>2, <2>3
<1>8. ASSUME NEW d \in Deliverers \ {s}, NEW j \in sends'[d].todo
      PROVE  /\ job'[j].status # "none"
             /\ \A i \in Jobs : SameTrain(i, j) => i \in sends'[d].todo \/ Settled(i)'
  <2>1. j \in Jobs /\ j \in sends[d].todo
    BY <1>1, <1>8, TypeOKParts DEF Sending
  <2>. QED
    BY <1>1, <1>3, <1>4, <2>1 DEF TrainInv, NoneQueued
<1>. QED
  BY <1>3, <1>5, <1>6, <1>7, <1>8 DEF TrainInv, SameTrain

LEMMA NoHandling ==
  ASSUME TrainInv, NEW c \in Conns
  PROVE  ~Handle(c) /\ ~HangUp(c) /\ ~Abort(c)
<1>1. conn[c].phase = "free" /\ ~conn[c].heard
  BY DEF TrainInv, NoAgents, NoConn
<1>. QED
  BY <1>1 DEF Handle, HangUp, Abort, Reclaim, Expire, Claim, Answer

LEMMA TrainNext ==
  ASSUME DInv, [Next]_vars
  PROVE  DInv'
<1>1. IInv'
  BY NextSound, StutterSound DEF DInv, Sound
<1>2. ASSUME OnlyDirect PROVE TrainInv'
  <2>. IInv /\ TrainInv
    BY <1>2 DEF DInv
  <2>1. CASE Next
    <3>1. Agents = {} /\ acks = {}
      BY <1>2 DEF OnlyDirect, TrainInv, NoAgents
    <3>2. \/ \E j \in Jobs : Enqueue(j)
          \/ \E s \in Sweeps : Sweep(s)
          \/ \E d \in Deliverers : Deliver(d)
          \/ Tick
      BY <2>1, <3>1, NoHandling DEF Next
    <3>. QED
      BY <3>2, TrainEnqueue, TrainSweep, TrainSend, TrainMarkDone, TrainSendFails, TrainTick
      DEF Deliver
  <2>2. CASE UNCHANGED vars
    BY <2>2 DEF vars, TrainInv, CreatedInOrder, NoAgents, Settled, Out
  <2>. QED
    BY <2>1, <2>2
<1>. QED
  BY <1>1, <1>2 DEF DInv, OnlyDirect

(* On a direct station a train's tickets first come out in their order: a    *)
(* list stops at the first ticket the printer refuses, and a sweep never     *)
(* leaves an earlier ticket of the train behind unless it gave it up.        *)
THEOREM DirectPrintsInOrder == Spec => []TrainInOrder
<1>1. DInv => TrainInOrder
  BY DEF DInv, TrainInv, NoAgents, OnlyDirect, TrainInOrder, SameTrain, Settled, Out
<1>. QED
  BY <1>1, TrainInit, TrainNext, PTL DEF Spec

-----------------------------------------------------------------------------
(* How often a ticket comes out on the agent path.  Every place a ticket is  *)
(* on its way to a printer -- a poll that has claimed it, a batch an agent   *)
(* holds -- and the queue itself may yet print it once; only a lease that    *)
(* runs out makes such a place anew.                                         *)

Places(j) ==
  {p \in (Conns \cup Agents) \X Nat :
     \/ p[2] = 0 /\ p[1] \in Conns /\ j \in conn[p[1]].got
     \/ p[1] \in Agents /\ p[2] \in 1..Len(spool[p[1]]) /\ j \in spool[p[1]][p[2]].left}

Waits(j) == IF job[j].status \in {"none", "pending"} THEN 1 ELSE 0

Blamed(j) ==
  /\ IsFiniteSet(Places(j))
  /\ \/ job[j].requeued = MaxCopies
     \/ job[j].copies + Cardinality(Places(j)) + Waits(j) <= 1 + job[j].requeued

CopyInv == NoSends /\ \A j \in Jobs : Blamed(j)

CInv == IInv /\ (~Direct => CopyInv)

LEMMA Fewer ==
  ASSUME NEW S, NEW T, IsFiniteSet(S), NEW f \in [T -> S],
         \A x, y \in T : f[x] = f[y] => x = y
  PROVE  IsFiniteSet(T) /\ Cardinality(T) <= Cardinality(S)
<1>1. f \in Injection(T, S)
  BY DEF Injection, IsInjective
<1>. QED
  BY <1>1, FS_Injection

(* A step that takes no ticket from the queue and prints none. *)
LEMMA BlameKept ==
  ASSUME NEW j \in Jobs, TypeOK, TypeOK', Blamed(j),
         job'[j].requeued = job[j].requeued, job'[j].copies = job[j].copies,
         Waits(j)' <= Waits(j),
         IsFiniteSet(Places(j)'), Cardinality(Places(j)') <= Cardinality(Places(j))
  PROVE  Blamed(j)'
<1>1. /\ job[j].requeued \in Nat /\ job[j].copies \in Nat
      /\ Waits(j) \in Nat /\ Waits(j)' \in Nat
  BY JobIs, Limits DEF PrintJob, Waits
<1>2. Cardinality(Places(j)) \in Nat /\ Cardinality(Places(j)') \in Nat
  BY FS_CardinalityType DEF Blamed
<1>. QED
  BY <1>1, <1>2 DEF Blamed

LEMMA FewerPlaces ==
  ASSUME NEW j \in Jobs, TypeOK, TypeOK', Blamed(j), Places(j)' \subseteq Places(j),
         job'[j].requeued = job[j].requeued, job'[j].copies = job[j].copies,
         Waits(j)' <= Waits(j)
  PROVE  Blamed(j)'
<1>1. IsFiniteSet(Places(j)') /\ Cardinality(Places(j)') <= Cardinality(Places(j))
  BY FS_Subset DEF Blamed
<1>. QED
  BY <1>1, BlameKept

(* A ticket comes out at one of its places, which it leaves. *)
LEMMA PrintBlamed ==
  ASSUME NEW j \in Jobs, TypeOK, TypeOK', Blamed(j), job'[j] = Printed(job[j]),
         NEW x \in Places(j), Places(j)' \subseteq Places(j) \ {x}
  PROVE  Blamed(j)'
<1>1. /\ job'[j].requeued = job[j].requeued /\ job'[j].copies <= job[j].copies + 1
      /\ job'[j].status = job[j].status
      /\ {job[j].requeued, job[j].copies, job'[j].copies} \subseteq Nat
  BY JobIs, PrintedIs, Limits DEF SameBut, PrintJob
<1>2. /\ IsFiniteSet(Places(j) \ {x})
      /\ Cardinality(Places(j) \ {x}) = Cardinality(Places(j)) - 1
  BY FS_RemoveElement DEF Blamed
<1>3. /\ IsFiniteSet(Places(j)')
      /\ Cardinality(Places(j)') <= Cardinality(Places(j) \ {x})
  BY <1>2, FS_Subset
<1>4. Cardinality(Places(j)) \in Nat /\ Cardinality(Places(j)') \in Nat
  BY <1>3, FS_CardinalityType DEF Blamed
<1>5. Waits(j)' = Waits(j) /\ Waits(j) \in Nat
  BY <1>1 DEF Waits
<1>. QED
  BY <1>1, <1>2, <1>3, <1>4, <1>5 DEF Blamed

(* Nothing is handed on: whatever there is stays in its place. *)
LEMMA PlacesShrink ==
  ASSUME \A c \in Conns : conn'[c].got \subseteq conn[c].got,
         ASSUME NEW a \in Agents, NEW i \in 1..Len(spool'[a])
         PROVE  i \in 1..Len(spool[a]) /\ spool'[a][i].left \subseteq spool[a][i].left
  PROVE  \A j \in Jobs : Places(j)' \subseteq Places(j)
<1> SUFFICES ASSUME NEW j \in Jobs, NEW p \in Places(j)' PROVE p \in Places(j)
  OBVIOUS
<1>1. p \in (Conns \cup Agents) \X Nat
  BY DEF Places
<1>2. CASE p[2] = 0 /\ p[1] \in Conns /\ j \in conn'[p[1]].got
  BY <1>1, <1>2 DEF Places
<1>3. CASE p[1] \in Agents /\ p[2] \in 1..Len(spool'[p[1]]) /\ j \in spool'[p[1]][p[2]].left
  <2>1. p[2] \in 1..Len(spool[p[1]]) /\ j \in spool[p[1]][p[2]].left
    BY <1>3
  <2>. QED
    BY <1>1, <1>3, <2>1 DEF Places
<1>. QED
  BY <1>2, <1>3 DEF Places

LEMMA SamePlaces ==
  ASSUME UNCHANGED spool, \A c \in Conns : conn'[c].got \subseteq conn[c].got
  PROVE  \A j \in Jobs : Places(j)' \subseteq Places(j)
BY PlacesShrink

LEMMA EmptySpoolPlaces ==
  ASSUME TypeOK, NEW a \in Agents, spool' = [spool EXCEPT ![a] = << >>],
         \A c \in Conns : conn'[c].got = conn[c].got
  PROVE  \A j \in Jobs : /\ Places(j)' \subseteq Places(j)
                         /\ \A i \in Nat : <<a, i>> \in Places(j)' => i = 0
<1>1. spool'[a] = << >> /\ \A k \in Agents \ {a} : spool'[k] = spool[k]
  BY EmptySpool
<1>2. ASSUME NEW k \in Agents, NEW i \in 1..Len(spool'[k])
      PROVE  i \in 1..Len(spool[k]) /\ spool'[k][i].left \subseteq spool[k][i].left
  <2>1. k # a
    BY <1>1
  <2>. QED
    BY <1>1, <2>1
<1>3. \A j \in Jobs : Places(j)' \subseteq Places(j)
  BY <1>2, PlacesShrink
<1>4. ASSUME NEW j \in Jobs, NEW i \in Nat, <<a, i>> \in Places(j)' PROVE i = 0
  <2>1. Len(spool'[a]) = 0
    BY <1>1
  <2>. QED
    BY <1>4, <2>1 DEF Places
<1>. QED
  BY <1>3, <1>4

LEMMA QuietBlame ==
  ASSUME TypeOK, TypeOK', CopyInv, UNCHANGED sends,
         \A j \in Jobs : Places(j)' \subseteq Places(j),
         \A j \in Jobs : /\ job'[j].requeued = job[j].requeued
                         /\ job'[j].copies = job[j].copies
                         /\ Waits(j)' <= Waits(j)
  PROVE  CopyInv'
BY FewerPlaces DEF CopyInv, NoSends

LEMMA StillBlame ==
  ASSUME TypeOK, TypeOK', CopyInv, UNCHANGED <<job, sends>>,
         \A j \in Jobs : Places(j)' \subseteq Places(j)
  PROVE  CopyInv'
<1>1. \A j \in Jobs : Waits(j)' <= Waits(j)
  BY DEF Waits
<1>. QED
  BY <1>1, QuietBlame

LEMMA CopyInit == Init => CInv
<1> SUFFICES ASSUME Init PROVE CInv
  OBVIOUS
<1>1. ASSUME NEW j \in Jobs PROVE Blamed(j)
  <2>1. Places(j) = {}
    BY DEF Init, Places, NoConn
  <2>2. job[j].copies = 0 /\ job[j].requeued = 0 /\ Waits(j) = 1
    BY DEF Init, Waits
  <2>. QED
    BY <2>1, <2>2, FS_EmptySet DEF Blamed
<1>. QED
  BY <1>1, InitSound DEF CInv, CopyInv, NoSends, Init

-----------------------------------------------------------------------------
LEMMA CopyEnqueue ==
  ASSUME IInv, CopyInv, ~Direct, NEW j \in Jobs, Enqueue(j)
  PROVE  CopyInv'
<1>1. /\ TypeOK /\ TypeOK'
      /\ job[j].status = "none" /\ job'[j].status = "pending" /\ SameBut(job[j], job'[j], {"status"})
      /\ \A i \in Jobs \ {j} : job'[i] = job[i]
      /\ UNCHANGED <<conn, spool, sends>>
  BY EnqueueMoves DEF IInv
<1>2. \A i \in Jobs : /\ job'[i].requeued = job[i].requeued
                      /\ job'[i].copies = job[i].copies
                      /\ Waits(i)' <= Waits(i)
  BY <1>1 DEF SameBut, Waits
<1>. QED
  BY <1>1, <1>2, SamePlaces, QuietBlame

LEMMA CopyPoll ==
  ASSUME IInv, CopyInv, NEW a \in Agents, NEW c \in Conns, Poll(a, c)
  PROVE  CopyInv'
<1>1. /\ TypeOK /\ TypeOK' /\ UNCHANGED <<job, spool, sends>>
      /\ \A k \in Conns : conn'[k].got \subseteq conn[k].got
  BY PollMoves DEF IInv
<1>. QED
  BY <1>1, SamePlaces, StillBlame

LEMMA CopyHangUp ==
  ASSUME IInv, CopyInv, NEW c \in Conns, HangUp(c) \/ Abort(c)
  PROVE  CopyInv'
<1>1. /\ TypeOK /\ TypeOK' /\ UNCHANGED <<job, spool, sends>>
      /\ \A k \in Conns : conn'[k].got \subseteq conn[k].got
  BY HangUpMoves, AbortMoves DEF IInv
<1>. QED
  BY <1>1, SamePlaces, StillBlame

LEMMA CopyExpire ==
  ASSUME IInv, CopyInv, NEW c \in Conns, Expire(c)
  PROVE  CopyInv'
<1>1. /\ TypeOK /\ TypeOK' /\ UNCHANGED <<spool, sends>> /\ job' = [j \in Jobs |-> Expired(job[j])]
      /\ \A k \in Conns : conn'[k].got = conn[k].got
  BY ExpireMoves DEF IInv
<1>2. ASSUME NEW j \in Jobs
      PROVE  /\ job'[j].requeued = job[j].requeued
             /\ job'[j].copies = job[j].copies
             /\ Waits(j)' <= Waits(j)
  <2>1. job[j] \in PrintJob /\ job'[j] = Expired(job[j])
    BY <1>1, JobIs
  <2>2. \/ job'[j] = job[j]
        \/ job'[j].status = "failed" /\ SameBut(job[j], job'[j], {"status", "age", "held"})
    BY <2>1, ExpiredIs
  <2>. QED
    BY <2>2 DEF SameBut, Waits
<1>. QED
  BY <1>1, <1>2, SamePlaces, QuietBlame

LEMMA CopyTick ==
  ASSUME IInv, CopyInv, Tick
  PROVE  CopyInv'
<1>1. /\ TypeOK /\ TypeOK' /\ UNCHANGED <<spool, sends>> /\ job' = [j \in Jobs |-> Older(job[j])]
      /\ \A k \in Conns : conn'[k].got = conn[k].got
  BY TickMoves DEF IInv
<1>2. ASSUME NEW j \in Jobs
      PROVE  /\ job'[j].requeued = job[j].requeued
             /\ job'[j].copies = job[j].copies
             /\ Waits(j)' <= Waits(j)
  <2>1. job[j] \in PrintJob /\ job'[j] = Older(job[j])
    BY <1>1, JobIs
  <2>2. SameBut(job[j], job'[j], {"age", "held"})
    BY <2>1, OlderIs
  <2>. QED
    BY <2>2 DEF SameBut, Waits
<1>. QED
  BY <1>1, <1>2, SamePlaces, QuietBlame

(* The lease ran out: one more copy may come, and one more reclaim is there  *)
(* to blame for it.                                                          *)
LEMMA CopyReclaim ==
  ASSUME IInv, CopyInv, NEW c \in Conns, Reclaim(c)
  PROVE  CopyInv'
<1>1. /\ TypeOK /\ TypeOK' /\ UNCHANGED <<spool, sends>> /\ job' = [j \in Jobs |-> Reclaimed(job[j])]
      /\ \A k \in Conns : conn'[k].got = conn[k].got
  BY ReclaimMoves DEF IInv
<1>2. ASSUME NEW j \in Jobs PROVE Blamed(j)'
  <2>1. job[j] \in PrintJob /\ job'[j] = Reclaimed(job[j]) /\ Blamed(j)
    BY <1>1, JobIs DEF CopyInv
  <2>2. Places(j)' \subseteq Places(j)
    BY <1>1, SamePlaces
  <2>3. CASE job'[j] = job[j]
    BY <1>1, <2>1, <2>2, <2>3, FewerPlaces DEF Waits
  <2>4. CASE /\ job[j].status = "claimed" /\ job'[j].status = "pending"
             /\ job'[j].requeued = Capped(job[j].requeued + 1, MaxCopies)
             /\ SameBut(job[j], job'[j], {"status", "held", "requeued"})
    <3>1. /\ job[j].requeued \in 0..MaxCopies /\ job[j].copies \in Nat
          /\ job'[j].copies = job[j].copies
      BY <2>1, <2>4, Limits DEF PrintJob, SameBut
    <3>2. job'[j].requeued = MaxCopies \/ job'[j].requeued = job[j].requeued + 1
      BY <2>4, <3>1, Limits DEF Capped
    <3>3. job[j].requeued = MaxCopies => job'[j].requeued = MaxCopies
      BY <2>4, <3>1, Limits DEF Capped
    <3>4. /\ IsFiniteSet(Places(j)') /\ Cardinality(Places(j)') <= Cardinality(Places(j))
          /\ Cardinality(Places(j)) \in Nat /\ Cardinality(Places(j)') \in Nat
      <4>1. IsFiniteSet(Places(j)') /\ Cardinality(Places(j)') <= Cardinality(Places(j))
        BY <2>1, <2>2, FS_Subset DEF Blamed
      <4>. QED
        BY <2>1, <4>1, FS_CardinalityType DEF Blamed
    <3>5. Waits(j) = 0 /\ Waits(j)' = 1
      BY <2>4 DEF Waits
    <3>. QED
      BY <2>1, <3>1, <3>2, <3>3, <3>4, <3>5, Limits DEF Blamed
  <2>. QED
    BY <2>1, <2>3, <2>4, ReclaimedIs
<1>. QED
  BY <1>1, <1>2 DEF CopyInv, NoSends

(* A claim takes the ticket from the queue to a place of its own. *)
LEMMA CopyClaim ==
  ASSUME IInv, CopyInv, NEW c \in Conns, Claim(c)
  PROVE  CopyInv'
<1>1. TypeOK /\ TypeOK' /\ UNCHANGED <<spool, sends>>
  BY ClaimMoves DEF IInv
<1>2. PICK j \in Jobs :
        /\ Taken(job[j], job'[j])
        /\ \A i \in Jobs \ {j} : job'[i] = job[i]
        /\ conn'[c].got = conn[c].got \cup {j}
        /\ \A k \in Conns \ {c} : conn'[k] = conn[k]
  BY ClaimMoves DEF IInv
<1>3. ASSUME NEW i \in Jobs \ {j} PROVE Blamed(i)'
  <2>1. Places(i)' \subseteq Places(i)
    BY <1>1, <1>2 DEF Places
  <2>. QED
    BY <1>1, <1>2, <2>1, FewerPlaces DEF CopyInv, Waits
<1>4. Blamed(j)'
  <2>1. Places(j)' \subseteq Places(j) \cup {<<c, 0>>}
    BY <1>1, <1>2 DEF Places
  <2>2. /\ IsFiniteSet(Places(j)) /\ IsFiniteSet(Places(j) \cup {<<c, 0>>})
        /\ Cardinality(Places(j) \cup {<<c, 0>>}) <= Cardinality(Places(j)) + 1
        /\ Cardinality(Places(j)) \in Nat
    <3>1. IsFiniteSet(Places(j))
      BY DEF CopyInv, Blamed
    <3>2. Cardinality(Places(j)) \in Nat
      BY <3>1, FS_CardinalityType
    <3>3. /\ IsFiniteSet(Places(j) \cup {<<c, 0>>})
          /\ Cardinality(Places(j) \cup {<<c, 0>>}) =
               IF <<c, 0>> \in Places(j) THEN Cardinality(Places(j)) ELSE Cardinality(Places(j)) + 1
      BY <3>1, FS_AddElement
    <3>. HIDE DEF Places
    <3>. QED
      BY <3>1, <3>2, <3>3
  <2>3. IsFiniteSet(Places(j)') /\ Cardinality(Places(j)') <= Cardinality(Places(j) \cup {<<c, 0>>})
    BY <2>1, <2>2, FS_Subset
  <2>4. Cardinality(Places(j)') \in Nat /\ Cardinality(Places(j) \cup {<<c, 0>>}) \in Nat
    BY <2>2, <2>3, FS_CardinalityType
  <2>5. Waits(j) = 1 /\ Waits(j)' = 0
    BY <1>2 DEF Taken, Waits
  <2>6. /\ job'[j].requeued = job[j].requeued /\ job'[j].copies = job[j].copies
        /\ job[j].requeued \in Nat /\ job[j].copies \in Nat
    BY <1>1, <1>2, JobIs, Limits DEF Taken, SameBut, PrintJob
  <2>. QED
    BY <2>2, <2>3, <2>4, <2>5, <2>6 DEF CopyInv, Blamed
<1>. QED
  BY <1>1, <1>3, <1>4 DEF CopyInv, NoSends

(* The answer moves a ticket from the poll to the batch it becomes. *)
LEMMA CopyAnswer ==
  ASSUME IInv, CopyInv, NEW c \in Conns, Answer(c)
  PROVE  CopyInv'
<1>1. /\ TypeOK /\ TypeOK' /\ UNCHANGED <<job, sends>> /\ conn'[c].got = {}
      /\ \A k \in Conns \ {c} : conn'[k] = conn[k]
      /\ UNCHANGED spool \/ Handed(conn[c].got)
  BY AnswerMoves DEF IInv
<1>2. CASE UNCHANGED spool
  BY <1>1, <1>2, SamePlaces, StillBlame
<1>3. CASE Handed(conn[c].got)
  <2>1. PICK a \in Agents, b \in Batch :
          b.left = conn[c].got /\ spool' = [spool EXCEPT ![a] = Append(spool[a], b)]
    BY <1>3 DEF Handed
  <2>2. spool[a] \in Seq(Batch) /\ Len(spool[a]) \in Nat
    BY <1>1, LenProperties DEF TypeOK
  <2>3. PICK n \in Nat : n = Len(spool[a]) + 1
    BY <2>2
  <2>4. /\ spool'[a] = Append(spool[a], b)
        /\ \A k \in Agents \ {a} : spool'[k] = spool[k]
    BY <1>1, <2>1 DEF TypeOK
  <2>5. /\ Len(spool'[a]) = n /\ spool'[a][n] = b
        /\ \A i \in 1..Len(spool[a]) : spool'[a][i] = spool[a][i]
    BY <2>2, <2>3, <2>4, BatchAppended
  <2>6. ASSUME NEW j \in Jobs PROVE Blamed(j)'
    <3>. DEFINE f == [p \in Places(j)' |-> IF p = <<a, n>> THEN <<c, 0>> ELSE p]
    <3>1. <<c, 0>> \notin Places(j)'
      BY <1>1 DEF Places
    <3>2. <<a, n>> \in Places(j)' => <<c, 0>> \in Places(j)
      BY <2>1, <2>3, <2>5 DEF Places
    <3>3. ASSUME NEW p \in Places(j)', p # <<a, n>> PROVE p \in Places(j)
      <4>1. p \in (Conns \cup Agents) \X Nat
        BY DEF Places
      <4>2. CASE p[2] = 0 /\ p[1] \in Conns /\ j \in conn'[p[1]].got
        BY <1>1, <4>1, <4>2 DEF Places
      <4>3. CASE p[1] \in Agents /\ p[2] \in 1..Len(spool'[p[1]]) /\ j \in spool'[p[1]][p[2]].left
        <5>1. CASE p[1] # a
          BY <2>4, <4>1, <4>3, <5>1 DEF Places
        <5>2. CASE p[1] = a
          <6>1. p[2] # n
            BY <3>3, <4>1, <5>2
          <6>2. p[2] \in 1..Len(spool[a])
            BY <2>2, <2>3, <2>5, <4>3, <5>2, <6>1
          <6>. QED
            BY <2>5, <4>1, <4>3, <5>2, <6>2 DEF Places
        <5>. QED
          BY <5>1, <5>2
      <4>. QED
        BY <4>2, <4>3 DEF Places
    <3>4. f \in [Places(j)' -> Places(j)]
      BY <3>2, <3>3
    <3>5. \A x, y \in Places(j)' : f[x] = f[y] => x = y
      BY <3>1
    <3>. HIDE DEF f
    <3>6. IsFiniteSet(Places(j)') /\ Cardinality(Places(j)') <= Cardinality(Places(j))
      <4>1. IsFiniteSet(Places(j))
        BY DEF CopyInv, Blamed
      <4>. QED
        BY <3>4, <3>5, <4>1, Fewer
    <3>7. Waits(j)' <= Waits(j)
      BY <1>1 DEF Waits
    <3>. QED
      BY <1>1, <3>6, <3>7, BlameKept DEF CopyInv
  <2>. QED
    BY <1>1, <2>6 DEF CopyInv, NoSends
<1>. QED
  BY <1>1, <1>2, <1>3

(* The batch in front is done with: those behind it move up, each with all   *)
(* of its tickets.                                                           *)
LEMMA CopyBatchDone ==
  ASSUME IInv, CopyInv, NEW a \in Agents, BatchDone(a)
  PROVE  CopyInv'
<1>1. /\ TypeOK /\ TypeOK' /\ UNCHANGED <<job, conn, sends>>
      /\ spool[a] # << >> /\ spool[a][1].left = {}
      /\ spool' = [spool EXCEPT ![a] = Tail(spool[a])]
  BY BatchDoneMoves DEF IInv
<1>2. spool[a] \in Seq(Batch) /\ Len(spool[a]) \in Nat
  BY <1>1, LenProperties DEF TypeOK
<1>3. /\ spool'[a] = Tail(spool[a])
      /\ \A k \in Agents \ {a} : spool'[k] = spool[k]
  BY <1>1 DEF TypeOK
<1>4. \A i \in 1..Len(spool'[a]) : i + 1 \in 1..Len(spool[a]) /\ spool'[a][i] = spool[a][i + 1]
  BY <1>1, <1>2, <1>3, FirstBatch
<1>5. ASSUME NEW j \in Jobs PROVE Blamed(j)'
  <2>. DEFINE moves(p) == p[1] = a /\ p[2] > 0
              f == [p \in Places(j)' |-> IF moves(p) THEN <<a, p[2] + 1>> ELSE p]
  <2>1. ASSUME NEW p \in Places(j)', moves(p) PROVE <<a, p[2] + 1>> \in Places(j)
    <3>1. p[2] \in Nat /\ p[2] \in 1..Len(spool'[a]) /\ j \in spool'[a][p[2]].left
      BY <2>1 DEF Places
    <3>2. p[2] + 1 \in 1..Len(spool[a]) /\ j \in spool[a][p[2] + 1].left
      BY <1>4, <3>1
    <3>. QED
      BY <3>1, <3>2 DEF Places
  <2>2. ASSUME NEW p \in Places(j)', ~moves(p) PROVE p \in Places(j)
    <3>1. p \in (Conns \cup Agents) \X Nat
      BY DEF Places
    <3>2. CASE p[2] = 0 /\ p[1] \in Conns /\ j \in conn'[p[1]].got
      BY <1>1, <3>1, <3>2 DEF Places
    <3>3. CASE p[1] \in Agents /\ p[2] \in 1..Len(spool'[p[1]]) /\ j \in spool'[p[1]][p[2]].left
      <4>1. p[1] # a
        BY <2>2, <3>1, <3>3
      <4>. QED
        BY <1>3, <3>1, <3>3, <4>1 DEF Places
    <3>. QED
      BY <3>2, <3>3 DEF Places
  <2>3. f \in [Places(j)' -> Places(j)]
    BY <2>1, <2>2
  <2>4. ASSUME NEW x \in Places(j)', NEW y \in Places(j)', f[x] = f[y] PROVE x = y
    <3>1. x \in (Conns \cup Agents) \X Nat /\ y \in (Conns \cup Agents) \X Nat
      BY DEF Places
    <3>2. f[x] = IF moves(x) THEN <<a, x[2] + 1>> ELSE x
      OBVIOUS
    <3>3. f[y] = IF moves(y) THEN <<a, y[2] + 1>> ELSE y
      OBVIOUS
    <3>. HIDE DEF f
    <3>4. x = <<x[1], x[2]>> /\ y = <<y[1], y[2]>>
      BY <3>1
    <3>5. CASE moves(x) /\ moves(y)
      <4>1. <<a, x[2] + 1>> = <<a, y[2] + 1>>
        BY <2>4, <3>2, <3>3, <3>5
      <4>. QED
        BY <3>1, <3>4, <3>5, <4>1
    <3>6. CASE ~moves(x) /\ ~moves(y)
      BY <2>4, <3>2, <3>3, <3>6
    <3>7. CASE moves(x) /\ ~moves(y)
      <4>1. y = <<a, x[2] + 1>>
        BY <2>4, <3>2, <3>3, <3>7
      <4>. QED
        BY <3>1, <3>7, <4>1
    <3>8. CASE ~moves(x) /\ moves(y)
      <4>1. x = <<a, y[2] + 1>>
        BY <2>4, <3>2, <3>3, <3>8
      <4>. QED
        BY <3>1, <3>8, <4>1
    <3>. QED
      BY <3>5, <3>6, <3>7, <3>8
  <2>. HIDE DEF f
  <2>5. IsFiniteSet(Places(j)') /\ Cardinality(Places(j)') <= Cardinality(Places(j))
    <3>1. IsFiniteSet(Places(j))
      BY DEF CopyInv, Blamed
    <3>. QED
      BY <2>3, <2>4, <3>1, Fewer
  <2>6. Waits(j)' <= Waits(j)
    BY <1>1 DEF Waits
  <2>. QED
    BY <1>1, <2>5, <2>6, BlameKept DEF CopyInv
<1>. QED
  BY <1>1, <1>5 DEF CopyInv, NoSends

LEMMA CopyDrop ==
  ASSUME IInv, CopyInv, NEW a \in Agents, NEW i \in 1..Len(spool[a]), Drop(a, i)
  PROVE  CopyInv'
<1>1. /\ TypeOK /\ TypeOK' /\ UNCHANGED <<conn, sends>>
      /\ \A j \in Jobs : Dropping(j, spool[a][i].left)
      /\ \A k \in Agents \ {a} : spool'[k] = spool[k]
      /\ \A k \in 1..Len(spool'[a]) :
           Skip(i, k) \in 1..Len(spool[a]) /\ spool'[a][k] = spool[a][Skip(i, k)]
  BY DropMoves DEF IInv
<1>2. i \in Nat /\ Len(spool[a]) \in Nat
  BY <1>1, LenProperties DEF TypeOK
<1>3. \A x, y \in Nat : Skip(i, x) \in Nat /\ (Skip(i, x) = Skip(i, y) => x = y)
  BY <1>2 DEF Skip
<1>4. ASSUME NEW j \in Jobs PROVE Blamed(j)'
  <2>. DEFINE moves(p) == p[1] = a /\ p[2] > 0
              f == [p \in Places(j)' |-> IF moves(p) THEN <<a, Skip(i, p[2])>> ELSE p]
  <2>1. ASSUME NEW p \in Places(j)', moves(p) PROVE <<a, Skip(i, p[2])>> \in Places(j)
    <3>1. p[2] \in Nat /\ p[2] \in 1..Len(spool'[a]) /\ j \in spool'[a][p[2]].left
      BY <2>1 DEF Places
    <3>2. Skip(i, p[2]) \in 1..Len(spool[a]) /\ j \in spool[a][Skip(i, p[2])].left
      BY <1>1, <3>1
    <3>. QED
      BY <1>3, <3>1, <3>2 DEF Places
  <2>2. ASSUME NEW p \in Places(j)', ~moves(p) PROVE p \in Places(j)
    <3>1. p \in (Conns \cup Agents) \X Nat
      BY DEF Places
    <3>2. CASE p[2] = 0 /\ p[1] \in Conns /\ j \in conn'[p[1]].got
      BY <1>1, <3>1, <3>2 DEF Places
    <3>3. CASE p[1] \in Agents /\ p[2] \in 1..Len(spool'[p[1]]) /\ j \in spool'[p[1]][p[2]].left
      <4>1. p[1] # a
        BY <2>2, <3>1, <3>3
      <4>. QED
        BY <1>1, <3>1, <3>3, <4>1 DEF Places
    <3>. QED
      BY <3>2, <3>3 DEF Places
  <2>3. f \in [Places(j)' -> Places(j)]
    BY <2>1, <2>2
  <2>4. ASSUME NEW x \in Places(j)', NEW y \in Places(j)', f[x] = f[y] PROVE x = y
    <3>1. x \in (Conns \cup Agents) \X Nat /\ y \in (Conns \cup Agents) \X Nat
      BY DEF Places
    <3>2. f[x] = IF moves(x) THEN <<a, Skip(i, x[2])>> ELSE x
      OBVIOUS
    <3>3. f[y] = IF moves(y) THEN <<a, Skip(i, y[2])>> ELSE y
      OBVIOUS
    <3>. HIDE DEF f
    <3>4. x = <<x[1], x[2]>> /\ y = <<y[1], y[2]>>
      BY <3>1
    <3>0. \A z \in Nat : z > 0 => Skip(i, z) > 0
      BY <1>2 DEF Skip
    <3>5. CASE moves(x) /\ moves(y)
      <4>1. <<a, Skip(i, x[2])>> = <<a, Skip(i, y[2])>>
        BY <2>4, <3>2, <3>3, <3>5
      <4>2. Skip(i, x[2]) = Skip(i, y[2])
        BY <4>1
      <4>. QED
        BY <1>3, <3>1, <3>4, <3>5, <4>2
    <3>6. CASE ~moves(x) /\ ~moves(y)
      BY <2>4, <3>2, <3>3, <3>6
    <3>7. CASE moves(x) /\ ~moves(y)
      <4>1. y = <<a, Skip(i, x[2])>>
        BY <2>4, <3>2, <3>3, <3>7
      <4>. QED
        BY <3>0, <3>1, <3>7, <4>1
    <3>8. CASE ~moves(x) /\ moves(y)
      <4>1. x = <<a, Skip(i, y[2])>>
        BY <2>4, <3>2, <3>3, <3>8
      <4>. QED
        BY <3>0, <3>1, <3>8, <4>1
    <3>. QED
      BY <3>5, <3>6, <3>7, <3>8
  <2>. HIDE DEF f
  <2>5. IsFiniteSet(Places(j)') /\ Cardinality(Places(j)') <= Cardinality(Places(j))
    <3>1. IsFiniteSet(Places(j))
      BY DEF CopyInv, Blamed
    <3>. QED
      BY <2>3, <2>4, <3>1, Fewer
  <2>6. /\ job'[j].requeued = job[j].requeued /\ job'[j].copies = job[j].copies
        /\ job'[j].status = job[j].status
    BY <1>1, JobIs, DroppedSet DEF Dropping, SameBut
  <2>7. Waits(j)' <= Waits(j)
    BY <2>6 DEF Waits
  <2>. QED
    BY <1>1, <2>5, <2>6, <2>7, BlameKept DEF CopyInv
<1>. QED
  BY <1>1, <1>4 DEF CopyInv, NoSends

LEMMA CopyPrintTicket ==
  ASSUME IInv, CopyInv, NEW a \in Agents, PrintTicket(a)
  PROVE  CopyInv'
<1>1. TypeOK /\ TypeOK' /\ UNCHANGED <<acks, sends, conn>> /\ spool[a] # << >>
  BY PrintTicketMoves DEF IInv
<1>2. PICK j \in Jobs, b \in Batch :
        /\ j \in spool[a][1].left /\ OneOut(j)
        /\ b.left = spool[a][1].left \ {j}
        /\ spool' = [spool EXCEPT ![a] = [spool[a] EXCEPT ![1] = b]]
  BY PrintTicketMoves DEF IInv
<1>3. spool[a] \in Seq(Batch) /\ 1 \in 1..Len(spool[a])
  BY <1>1, FirstBatch DEF TypeOK
<1>4. /\ Len(spool'[a]) = Len(spool[a]) /\ spool'[a][1] = b
      /\ \A k \in 1..Len(spool[a]) \ {1} : spool'[a][k] = spool[a][k]
      /\ \A k \in Agents \ {a} : spool'[k] = spool[k]
  <2>1. spool'[a] = [spool[a] EXCEPT ![1] = b] /\ \A k \in Agents \ {a} : spool'[k] = spool[k]
    BY <1>1, <1>2 DEF TypeOK
  <2>. QED
    BY <1>3, <2>1, BatchReplaced
<1>5. ASSUME NEW k \in Agents, NEW i \in 1..Len(spool'[k])
      PROVE  i \in 1..Len(spool[k]) /\ spool'[k][i].left \subseteq spool[k][i].left
  BY <1>2, <1>4
<1>6. \A i \in Jobs : Places(i)' \subseteq Places(i)
  BY <1>1, <1>5, PlacesShrink
<1>7. <<a, 1>> \in Places(j) /\ <<a, 1>> \notin Places(j)'
  BY <1>2, <1>3, <1>4 DEF Places
<1>8. ASSUME NEW i \in Jobs PROVE Blamed(i)'
  <2>1. CASE i = j
    <3>1. Places(j)' \subseteq Places(j) \ {<<a, 1>>}
      BY <1>6, <1>7
    <3>. QED
      BY <1>1, <1>2, <1>7, <2>1, <3>1, PrintBlamed DEF CopyInv, OneOut
  <2>2. CASE i # j
    BY <1>1, <1>2, <1>6, <2>2, FewerPlaces DEF CopyInv, OneOut, Waits
  <2>. QED
    BY <2>1, <2>2
<1>. QED
  BY <1>1, <1>8 DEF CopyInv, NoSends

LEMMA CopyGiveUp ==
  ASSUME IInv, CopyInv, NEW a \in Agents, GiveUp(a)
  PROVE  CopyInv'
<1>1. TypeOK /\ TypeOK' /\ UNCHANGED <<job, conn, sends>> /\ spool' = [spool EXCEPT ![a] = << >>]
  BY GiveUpMoves DEF IInv
<1>. QED
  BY <1>1, EmptySpoolPlaces, StillBlame

LEMMA CopySendTicket ==
  ASSUME IInv, CopyInv, NEW a \in Agents, SendTicket(a)
  PROVE  CopyInv'
<1>1. TypeOK /\ a \notin Spooled /\ spool[a] # << >>
  BY DEF IInv, SendTicket
<1>2. spool[a] \in Seq(Batch) /\ 1 \in 1..Len(spool[a])
  BY <1>1, FirstBatch DEF TypeOK
<1>3. spool[a][1].left # {}
  BY <1>1, <1>2 DEF IInv, SpoolSound, BatchSound
<1>4. TypeOK' /\ UNCHANGED <<conn, sends>>
  BY <1>1, <1>3, SendTicketMoves
<1>5. PICK j \in Jobs, b \in Batch :
        /\ j \in spool[a][1].left
        /\ OneOut(j) \/ UNCHANGED job
        /\ b.left = spool[a][1].left \ {j}
        /\ spool'[a] = IF b.left = {} THEN << >> ELSE << b >>
        /\ \A k \in Agents \ {a} : spool'[k] = spool[k]
  BY <1>1, <1>3, SendTicketMoves
<1>6. ASSUME NEW k \in Agents, NEW i \in 1..Len(spool'[k])
      PROVE  i \in 1..Len(spool[k]) /\ spool'[k][i].left \subseteq spool[k][i].left
  <2>1. CASE k # a
    <3>1. spool'[k] = spool[k]
      BY <1>5, <2>1
    <3>. QED
      BY <3>1
  <2>2. CASE k = a
    <3>1. spool'[a] = << b >>
      BY <1>5, <2>2
    <3>2. i = 1 /\ spool'[a][i] = b
      BY <2>2, <3>1
    <3>. QED
      BY <1>2, <1>5, <2>2, <3>2
  <2>. QED
    BY <2>1, <2>2
<1>7. \A i \in Jobs : Places(i)' \subseteq Places(i)
  BY <1>4, <1>6, PlacesShrink
<1>8. <<a, 1>> \in Places(j)
  BY <1>2, <1>5 DEF Places
<1>9. <<a, 1>> \notin Places(j)'
  <2>1. ASSUME 1 \in 1..Len(spool'[a]) PROVE j \notin spool'[a][1].left
    <3>1. spool'[a] = << b >>
      BY <1>5, <2>1
    <3>2. spool'[a][1] = b
      BY <3>1
    <3>. QED
      BY <1>5, <3>2
  <2>. QED
    BY <2>1 DEF Places
<1>10. ASSUME NEW i \in Jobs PROVE Blamed(i)'
  <2>1. CASE i = j /\ OneOut(j)
    <3>1. Places(j)' \subseteq Places(j) \ {<<a, 1>>}
      BY <1>7, <1>9
    <3>. QED
      BY <1>1, <1>4, <1>8, <2>1, <3>1, PrintBlamed DEF CopyInv, OneOut
  <2>2. CASE job'[i] = job[i]
    BY <1>1, <1>4, <1>7, <2>2, FewerPlaces DEF CopyInv, Waits
  <2>. QED
    BY <1>5, <2>1, <2>2 DEF OneOut
<1>. QED
  BY <1>4, <1>10 DEF CopyInv, NoSends

LEMMA CopyCrash ==
  ASSUME IInv, CopyInv, NEW a \in Agents, Crash(a)
  PROVE  CopyInv'
<1>1. /\ TypeOK /\ TypeOK' /\ UNCHANGED sends /\ spool' = [spool EXCEPT ![a] = << >>]
      /\ \A k \in Conns : conn'[k].got = conn[k].got
  BY CrashMoves DEF IInv
<1>2. ASSUME NEW j \in Jobs PROVE Blamed(j)'
  <2>1. Places(j)' \subseteq Places(j) /\ \A i \in Nat : <<a, i>> \in Places(j)' => i = 0
    BY <1>1, EmptySpoolPlaces
  <2>2. CASE job'[j] = job[j]
    BY <1>1, <2>1, <2>2, FewerPlaces DEF CopyInv, Waits
  <2>3. CASE job'[j] = Printed(job[j]) /\ \E i \in 1..Len(spool[a]) : j \in spool[a][i].left
    <3>1. PICK i \in 1..Len(spool[a]) : j \in spool[a][i].left
      BY <2>3
    <3>2. i \in Nat /\ i # 0
      OBVIOUS
    <3>3. <<a, i>> \in Places(j)
      BY <3>1, <3>2 DEF Places
    <3>4. Places(j)' \subseteq Places(j) \ {<<a, i>>}
      BY <2>1, <3>2
    <3>. QED
      BY <1>1, <2>3, <3>3, <3>4, PrintBlamed DEF CopyInv
  <2>. QED
    BY <2>2, <2>3, CrashMoves DEF IInv
<1>. QED
  BY <1>1, <1>2 DEF CopyInv, NoSends

LEMMA CopyAck ==
  ASSUME IInv, CopyInv, NEW m \in acks, Ack(m)
  PROVE  CopyInv'
<1>1. PICK j \in Jobs : j = m[1]
  BY AckMoves DEF IInv
<1>2. /\ TypeOK /\ TypeOK' /\ UNCHANGED <<conn, spool, sends>> /\ m[2] \in {"done", "failed"}
      /\ job'[j] = Acked(job[j], m[2])
      /\ \A i \in Jobs \ {j} : job'[i] = job[i]
  BY <1>1, AckMoves DEF IInv
<1>3. \/ job'[j] = job[j]
      \/ job'[j].status \in {"done", "failed"} /\ SameBut(job[j], job'[j], {"status", "age", "held"})
  BY <1>2, JobIs, AckedIs
<1>4. \A i \in Jobs : /\ job'[i].requeued = job[i].requeued
                      /\ job'[i].copies = job[i].copies
                      /\ Waits(i)' <= Waits(i)
  BY <1>2, <1>3 DEF SameBut, Waits
<1>. QED
  BY <1>2, <1>4, SamePlaces, QuietBlame

LEMMA CopyLoseAck ==
  ASSUME IInv, CopyInv, NEW m \in acks, LoseAck(m)
  PROVE  CopyInv'
<1>1. TypeOK /\ TypeOK' /\ UNCHANGED <<job, conn, spool, sends>>
  BY LoseAckMoves DEF IInv
<1>. QED
  BY <1>1, SamePlaces, StillBlame

LEMMA CopyDirect ==
  ASSUME CopyInv, ~Direct
  PROVE  /\ ~ \E s \in Sweeps : Sweep(s)
         /\ ~ \E d \in Deliverers : Deliver(d)
BY IdleIs DEF CopyInv, NoSends, Sweep, Deliver, Send, MarkDone, SendFails

LEMMA CopyNext ==
  ASSUME CInv, [Next]_vars
  PROVE  CInv'
<1>1. IInv'
  BY NextSound, StutterSound DEF CInv, Sound
<1>2. ASSUME ~Direct PROVE CopyInv'
  <2>. IInv /\ CopyInv
    BY <1>2 DEF CInv
  <2>1. CASE Next
    BY <1>2, <2>1, CopyEnqueue, CopyPoll, CopyReclaim, CopyExpire, CopyClaim, CopyAnswer, CopyHangUp,
       CopyPrintTicket, CopyBatchDone, CopyDrop, CopyGiveUp, CopySendTicket, CopyCrash, CopyAck, CopyLoseAck,
       CopyDirect, CopyTick
    DEF Next, Handle, Work
  <2>2. CASE UNCHANGED vars
    <3>1. TypeOK /\ TypeOK' /\ UNCHANGED <<job, conn, spool, sends>>
      BY <1>1, <2>2 DEF vars, IInv
    <3>. QED
      BY <3>1, SamePlaces, StillBlame
  <2>. QED
    BY <2>1, <2>2
<1>. QED
  BY <1>1, <1>2 DEF CInv

(* On the agent path a ticket comes out at most once more than its lease ran *)
(* out: the claims of overlapping polls, crashes that still print, hung      *)
(* connections and lost acks make no copy of their own.                      *)
THEOREM EachCopyHasItsReclaim == Spec => []CopiesHaveReclaims
<1>1. CInv => CopiesHaveReclaims
  <2> SUFFICES ASSUME CInv, ~Direct, NEW j \in Jobs
               PROVE  job[j].copies <= 1 + job[j].requeued
    BY DEF CopiesHaveReclaims
  <2>1. Blamed(j) /\ job[j] \in PrintJob
    BY JobIs DEF CInv, CopyInv, IInv
  <2>2. job[j].copies \in 0..MaxCopies /\ job[j].requeued \in 0..MaxCopies
    BY <2>1 DEF PrintJob
  <2>3. Cardinality(Places(j)) \in Nat /\ Waits(j) \in Nat
    BY <2>1, FS_CardinalityType DEF Blamed, Waits
  <2>. QED
    BY <2>1, <2>2, <2>3, Limits DEF Blamed
<1>. QED
  BY <1>1, CopyInit, CopyNext, PTL DEF Spec

-----------------------------------------------------------------------------
(* The queue implements TicketPaper: every step moves each ticket as that    *)
(* specification lets it, whatever it does to the others.                    *)

(* A direct delivery holds tickets that have been queued, of a station the   *)
(* server prints to.                                                         *)
TodoQueued == \A d \in Deliverers : \A j \in sends[d].todo : Direct /\ job[j].status # "none"

PInv == IInv /\ TodoQueued

SameOut(j) == Out(j)' = Out(j)

NotNewlyDue(j) == Due(j)' => Due(j)

Goes(j, from, to) == job[j].status \in from /\ job'[j].status = to

(* One ticket's part of a step. *)
TicketStep(j) ==
  \/ job'[j].status = job[j].status /\ SameOut(j) /\ NotNewlyDue(j)
  \/ Goes(j, {"none"}, "pending") /\ SameOut(j) /\ (Direct \/ NotNewlyDue(j))
  \/ Goes(j, {"pending"}, "claimed") /\ SameOut(j) /\ Due(j)'
  \/ Direct /\ job[j].status # "none" /\ job'[j].status = job[j].status /\ SameOut(j)
  \/ Due(j) /\ Out(j)' /\ job'[j].status = job[j].status /\ NotNewlyDue(j)
  \/ Goes(j, {"claimed"}, "pending") /\ SameOut(j) /\ NotNewlyDue(j)
  \/ Goes(j, {"pending", "claimed"}, "failed") /\ SameOut(j) /\ NotNewlyDue(j)
  \/ /\ Out(j) /\ SameOut(j) /\ NotNewlyDue(j)
     /\ \/ Goes(j, {"claimed"}, "done")
        \/ Direct /\ Due(j) /\ Goes(j, {"pending", "failed"}, "done")

TicketSteps == \A j \in Jobs : TicketStep(j)

LEMMA PlacesOf ==
  /\ PlaceOf("none") = "none" /\ PlaceOf("pending") = "waiting" /\ PlaceOf("claimed") = "handed"
  /\ PlaceOf("done") = "printed" /\ PlaceOf("failed") = "givenUp"
BY DEF PlaceOf

LEMMA TicketStepIsPaperStep ==
  ASSUME TypeOK, TypeOK', NEW j \in Jobs, TicketStep(j)
  PROVE  \/ Paper!LetGo(j) \/ Paper!Queue(j) \/ Paper!HandOut(j) \/ Paper!TakeUp(j) \/ Paper!GoOut(j)
         \/ Paper!TakeBack(j) \/ Paper!GiveUp(j) \/ Paper!Record(j)
<1>1. /\ job[j].status \in {"none", "pending", "claimed", "done", "failed"}
      /\ job'[j].status \in {"none", "pending", "claimed", "done", "failed"}
  BY DEF TypeOK, PrintJob
<1>. DEFINE place == [i \in Jobs |-> PlaceOf(job[i].status)]
<1>2. /\ place[j] = PlaceOf(job[j].status) /\ place'[j] = PlaceOf(job'[j].status)
      /\ [i \in Jobs |-> Due(i)][j] = Due(j) /\ [i \in Jobs |-> Due(i)]'[j] = Due(j)'
      /\ [i \in Jobs |-> job[i].copies > 0 \/ job[i].dropped][j] = Out(j)
      /\ [i \in Jobs |-> job[i].copies > 0 \/ job[i].dropped]'[j] = Out(j)'
  BY DEF Out
<1>. HIDE DEF place
<1>3. CASE job'[j].status = job[j].status /\ SameOut(j) /\ NotNewlyDue(j)
  BY <1>1, <1>2, <1>3, PlacesOf DEF Paper!LetGo, Paper!Stays, Paper!SameOut, Paper!NoneHanded, SameOut, NotNewlyDue, Goes, place
<1>4. CASE Goes(j, {"none"}, "pending") /\ SameOut(j) /\ (Direct \/ NotNewlyDue(j))
  BY <1>1, <1>2, <1>4, PlacesOf DEF Paper!Queue, Paper!Move, Paper!SameOut, Paper!NoneHanded, SameOut, NotNewlyDue, Goes, place
<1>5. CASE Goes(j, {"pending"}, "claimed") /\ SameOut(j) /\ Due(j)'
  BY <1>1, <1>2, <1>5, PlacesOf DEF Paper!HandOut, Paper!Move, Paper!SameOut, SameOut, NotNewlyDue, Goes, place
<1>6. CASE Direct /\ job[j].status # "none" /\ job'[j].status = job[j].status /\ SameOut(j)
  BY <1>1, <1>2, <1>6, PlacesOf DEF Paper!TakeUp, Paper!Stays, Paper!SameOut, SameOut, NotNewlyDue, Goes, place
<1>7. CASE Due(j) /\ Out(j)' /\ job'[j].status = job[j].status /\ NotNewlyDue(j)
  BY <1>1, <1>2, <1>7, PlacesOf DEF Paper!GoOut, Paper!Stays, Paper!NoneHanded, SameOut, NotNewlyDue, Goes, place
<1>8. CASE Goes(j, {"claimed"}, "pending") /\ SameOut(j) /\ NotNewlyDue(j)
  BY <1>1, <1>2, <1>8, PlacesOf DEF Paper!TakeBack, Paper!Move, Paper!SameOut, Paper!NoneHanded, SameOut, NotNewlyDue, Goes, place
<1>9. CASE Goes(j, {"pending", "claimed"}, "failed") /\ SameOut(j) /\ NotNewlyDue(j)
  BY <1>1, <1>2, <1>9, PlacesOf DEF Paper!GiveUp, Paper!Move, Paper!SameOut, Paper!NoneHanded, SameOut, NotNewlyDue, Goes, place
<1>10. CASE /\ Out(j) /\ SameOut(j) /\ NotNewlyDue(j)
           /\ \/ Goes(j, {"claimed"}, "done")
              \/ Direct /\ Due(j) /\ Goes(j, {"pending", "failed"}, "done")
  BY <1>1, <1>2, <1>10, PlacesOf DEF Paper!Record, Paper!Move, Paper!SameOut, Paper!NoneHanded, SameOut, NotNewlyDue, Goes, place
<1>. QED
  BY <1>3, <1>4, <1>5, <1>6, <1>7, <1>8, <1>9, <1>10 DEF TicketStep

LEMMA TicketStepsArePaperSteps ==
  ASSUME TypeOK, TypeOK', TicketSteps
  PROVE  Paper!Next
<1>1. \A j \in Jobs : PlaceOf(job'[j].status) \in Paper!Places
  <2>1. \A j \in Jobs : job'[j].status \in {"none", "pending", "claimed", "done", "failed"}
    BY DEF TypeOK, PrintJob
  <2>. QED
    BY <2>1, PlacesOf DEF Paper!Places
<1>2. [j \in Jobs |-> PlaceOf(job[j].status)]' \in [Jobs -> Paper!Places]
  BY <1>1
<1>3. /\ [j \in Jobs |-> Due(j)]' \in [Jobs -> BOOLEAN]
      /\ [j \in Jobs |-> job[j].copies > 0 \/ job[j].dropped]' \in [Jobs -> BOOLEAN]
  BY DEF Due
<1>. QED
  BY <1>2, <1>3, TicketStepIsPaperStep DEF TicketSteps, Paper!Next

-----------------------------------------------------------------------------
(* Whom the tickets are due from. *)
LEMMA DueIs ==
  ASSUME NEW j \in Jobs
  PROVE  Due(j) <=> InHand(j) \/ \E d \in Deliverers : j \in sends[d].todo
BY DEF Due, InHand

LEMMA NothingNewlyDue ==
  ASSUME HandsShrink, \A d \in Deliverers : sends'[d].todo \subseteq sends[d].todo
  PROVE  \A j \in Jobs : NotNewlyDue(j)
BY DEF HandsShrink, NotNewlyDue, Due, InHand

(* What becomes of one document, nobody new having it. *)
LEMMA SameTicket ==
  ASSUME NEW j \in Jobs, NotNewlyDue(j), job'[j].status = job[j].status,
         job'[j].copies = job[j].copies, job'[j].dropped = job[j].dropped
  PROVE  TicketStep(j)
BY DEF TicketStep, SameOut, Out

LEMMA PrintedTicket ==
  ASSUME TypeOK, NEW j \in Jobs, NotNewlyDue(j), Due(j), job'[j] = Printed(job[j])
  PROVE  TicketStep(j)
BY JobIs, PrintedIs DEF TicketStep, Out, SameBut

LEMMA DroppedTicket ==
  ASSUME TypeOK, NEW j \in Jobs, NEW left, j \in left => Due(j), NotNewlyDue(j), Dropping(j, left)
  PROVE  TicketStep(j)
<1>1. CASE j \in left
  BY <1>1, JobIs, DroppedSet DEF Dropping, TicketStep, Out, SameBut
<1>2. CASE j \notin left
  BY <1>2, SameTicket DEF Dropping
<1>. QED
  BY <1>1, <1>2

LEMMA ExpiredTicket ==
  ASSUME TypeOK, NEW j \in Jobs, NotNewlyDue(j), job'[j] = Expired(job[j])
  PROVE  TicketStep(j)
<1>1. \/ job'[j] = job[j]
      \/ /\ job[j].status = "pending" /\ job'[j].status = "failed"
         /\ SameBut(job[j], job'[j], {"status", "age", "held"})
  BY JobIs, ExpiredIs
<1>. QED
  BY <1>1, SameTicket DEF TicketStep, Goes, SameOut, Out, SameBut

LEMMA AllSameTickets ==
  ASSUME \A j \in Jobs : NotNewlyDue(j), UNCHANGED job
  PROVE  TicketSteps
BY SameTicket DEF TicketSteps

LEMMA OneOutTickets ==
  ASSUME TypeOK, \A j \in Jobs : NotNewlyDue(j), NEW j \in Jobs, Due(j), OneOut(j)
  PROVE  TicketSteps
BY SameTicket, PrintedTicket DEF OneOut, TicketSteps

-----------------------------------------------------------------------------
LEMMA PaperEnqueue ==
  ASSUME PInv, NEW j \in Jobs, Enqueue(j)
  PROVE  TicketSteps
<1>1. /\ TypeOK /\ UNCHANGED <<conn, spool>>
      /\ job[j].status = "none" /\ job'[j].status = "pending" /\ SameBut(job[j], job'[j], {"status"})
      /\ \A i \in Jobs \ {j} : job'[i] = job[i]
  BY EnqueueMoves DEF PInv, IInv
<1>. DEFINE train == {i \in Jobs : TrainOf[i] = TrainOf[j]}
<1>2. \/ UNCHANGED sends
      \/ /\ Direct
         /\ \A i \in train \ {j} : job[i].status # "none"
         /\ sends'[TrainOf[j]].todo = train
         /\ \A d \in Deliverers \ {TrainOf[j]} : sends'[d] = sends[d]
  BY <1>1, EnqueueMoves
<1>3. HandsShrink
  BY <1>1, GotShrinks
<1>4. ASSUME NEW i \in Jobs PROVE NotNewlyDue(i) \/ (Direct /\ (i = j \/ job[i].status # "none"))
  <2>1. CASE UNCHANGED sends
    BY <1>3, <2>1, NothingNewlyDue
  <2>2. CASE ~UNCHANGED sends
    <3>1. i \in train \/ \A d \in Deliverers : i \in sends'[d].todo => i \in sends[d].todo
      BY <1>2, <2>2
    <3>. QED
      BY <1>2, <1>3, <2>2, <3>1, DueIs DEF NotNewlyDue, Due, InHand, HandsShrink
  <2>. QED
    BY <2>1, <2>2
<1>5. TicketStep(j)
  BY <1>1, <1>4 DEF TicketStep, Goes, SameOut, Out, SameBut
<1>6. ASSUME NEW i \in Jobs \ {j} PROVE TicketStep(i)
  BY <1>1, <1>4 DEF TicketStep, SameOut, Out
<1>. QED
  BY <1>5, <1>6 DEF TicketSteps

LEMMA PaperReclaim ==
  ASSUME PInv, NEW c \in Conns, Reclaim(c)
  PROVE  TicketSteps
<1>1. /\ TypeOK /\ UNCHANGED <<spool, sends>> /\ job' = [j \in Jobs |-> Reclaimed(job[j])]
      /\ \A k \in Conns : conn'[k].got = conn[k].got
  BY ReclaimMoves DEF PInv, IInv
<1>2. \A j \in Jobs : NotNewlyDue(j)
  BY <1>1, GotShrinks, NothingNewlyDue
<1>3. ASSUME NEW j \in Jobs PROVE TicketStep(j)
  <2>1. job[j] \in PrintJob /\ job'[j] = Reclaimed(job[j])
    BY <1>1, JobIs
  <2>2. \/ job'[j] = job[j]
        \/ /\ job[j].status = "claimed" /\ job'[j].status = "pending"
           /\ SameBut(job[j], job'[j], {"status", "held", "requeued"})
    BY <2>1, ReclaimedIs
  <2>. QED
    BY <1>2, <2>2, SameTicket DEF TicketStep, Goes, SameOut, Out, SameBut
<1>. QED
  BY <1>3 DEF TicketSteps

LEMMA PaperExpire ==
  ASSUME PInv, NEW c \in Conns, Expire(c)
  PROVE  TicketSteps
<1>1. /\ TypeOK /\ UNCHANGED <<spool, sends>> /\ job' = [j \in Jobs |-> Expired(job[j])]
      /\ \A k \in Conns : conn'[k].got = conn[k].got
  BY ExpireMoves DEF PInv, IInv
<1>2. \A j \in Jobs : NotNewlyDue(j)
  BY <1>1, GotShrinks, NothingNewlyDue
<1>. QED
  BY <1>1, <1>2, ExpiredTicket DEF TicketSteps

LEMMA PaperTick ==
  ASSUME PInv, Tick
  PROVE  TicketSteps
<1>1. /\ TypeOK /\ UNCHANGED <<spool, sends>> /\ job' = [j \in Jobs |-> Older(job[j])]
      /\ \A k \in Conns : conn'[k].got = conn[k].got
  BY TickMoves DEF PInv, IInv
<1>2. \A j \in Jobs : NotNewlyDue(j)
  BY <1>1, GotShrinks, NothingNewlyDue
<1>3. ASSUME NEW j \in Jobs PROVE SameBut(job[j], job'[j], {"age", "held"})
  BY <1>1, JobIs, OlderIs
<1>. QED
  BY <1>2, <1>3, SameTicket DEF TicketSteps, SameBut

LEMMA PaperClaim ==
  ASSUME PInv, NEW c \in Conns, Claim(c)
  PROVE  TicketSteps
<1>1. UNCHANGED <<spool, sends>>
  BY ClaimMoves DEF PInv, IInv
<1>2. PICK j \in Jobs :
        /\ Taken(job[j], job'[j])
        /\ \A i \in Jobs \ {j} : job'[i] = job[i]
        /\ conn'[c].got = conn[c].got \cup {j}
        /\ \A k \in Conns \ {c} : conn'[k] = conn[k]
  BY ClaimMoves DEF PInv, IInv
<1>3. Due(j)'
  BY <1>2 DEF Due
<1>4. \A i \in Jobs \ {j} : NotNewlyDue(i)
  BY <1>1, <1>2 DEF NotNewlyDue, Due
<1>5. TicketStep(j)
  BY <1>2, <1>3 DEF TicketStep, Goes, Taken, SameOut, Out, SameBut
<1>. QED
  BY <1>2, <1>4, <1>5, SameTicket DEF TicketSteps

(* The rest of a poll. *)
LEMMA PaperPolling ==
  ASSUME PInv, NEW c \in Conns, (\E a \in Agents : Poll(a, c)) \/ Answer(c) \/ HangUp(c) \/ Abort(c)
  PROVE  TicketSteps
<1>1. UNCHANGED <<job, sends>>
  BY PollMoves, AnswerMoves, HangUpMoves, AbortMoves DEF PInv, IInv
<1>2. HandsShrink
  <2>1. CASE Answer(c)
    BY <2>1, AnswerHands DEF PInv
  <2>2. CASE (\E a \in Agents : Poll(a, c)) \/ HangUp(c) \/ Abort(c)
    <3>1. UNCHANGED spool /\ \A k \in Conns : conn'[k].got \subseteq conn[k].got
      BY <2>2, PollMoves, HangUpMoves, AbortMoves DEF PInv, IInv
    <3>. QED
      BY <3>1, GotShrinks
  <2>. QED
    BY <2>1, <2>2
<1>. QED
  BY <1>1, <1>2, NothingNewlyDue, AllSameTickets

LEMMA PaperWork ==
  ASSUME PInv, NEW a \in Agents, Work(a)
  PROVE  TicketSteps
<1>1. TypeOK /\ IInv
  BY DEF PInv, IInv
<1>2. CASE PrintTicket(a)
  <2>1. UNCHANGED sends /\ HandsShrink
    BY <1>1, <1>2, PrintTicketMoves, PrintTicketHands
  <2>2. PICK j \in Jobs : InHand(j) /\ OneOut(j)
    BY <1>1, <1>2, PrintTicketHands
  <2>. QED
    BY <1>1, <2>1, <2>2, NothingNewlyDue, DueIs, OneOutTickets
<1>3. CASE BatchDone(a)
  <2>1. UNCHANGED <<job, sends>>
    BY <1>1, <1>3, BatchDoneMoves
  <2>. QED
    BY <1>1, <1>3, <2>1, BatchDoneHands, NothingNewlyDue, AllSameTickets
<1>4. CASE GiveUp(a)
  <2>1. UNCHANGED <<job, conn, sends>> /\ spool' = [spool EXCEPT ![a] = << >>]
    BY <1>1, <1>4, GiveUpMoves
  <2>. QED
    BY <1>1, <2>1, EmptySpoolShrinks, NothingNewlyDue, AllSameTickets
<1>5. CASE SendTicket(a)
  <2>1. UNCHANGED sends /\ HandsShrink
    BY <1>1, <1>5, SendTicketHands
  <2>2. PICK j \in Jobs : InHand(j) /\ (OneOut(j) \/ UNCHANGED job)
    BY <1>1, <1>5, SendTicketHands
  <2>. QED
    BY <1>1, <2>1, <2>2, NothingNewlyDue, DueIs, OneOutTickets, AllSameTickets
<1>. QED
  BY <1>2, <1>3, <1>4, <1>5 DEF Work

(* What the computer's queue drops was due. *)
LEMMA PaperDrop ==
  ASSUME PInv, NEW a \in Agents, NEW i \in 1..Len(spool[a]), Drop(a, i)
  PROVE  TicketSteps
<1>1. TypeOK /\ UNCHANGED sends /\ \A j \in Jobs : Dropping(j, spool[a][i].left)
  BY DropMoves DEF PInv, IInv
<1>2. \A j \in Jobs : NotNewlyDue(j) /\ (j \in spool[a][i].left => Due(j))
  BY <1>1, DropHands, NothingNewlyDue, DueIs DEF PInv
<1>. QED
  BY <1>1, <1>2, DroppedTicket DEF TicketSteps

LEMMA PaperCrash ==
  ASSUME PInv, NEW a \in Agents, Crash(a)
  PROVE  TicketSteps
<1>1. TypeOK /\ UNCHANGED sends /\ HandsShrink
      /\ \A j \in Jobs : job'[j] = job[j] \/ (InHand(j) /\ job'[j] = Printed(job[j]))
  BY CrashMoves, CrashHands DEF PInv, IInv
<1>2. \A j \in Jobs : NotNewlyDue(j)
  BY <1>1, NothingNewlyDue
<1>. QED
  BY <1>1, <1>2, DueIs, SameTicket, PrintedTicket DEF TicketSteps

(* An ack that says printed is of a ticket that did print. *)
LEMMA PaperAck ==
  ASSUME PInv, NEW m \in acks, Ack(m)
  PROVE  TicketSteps
<1>1. PICK j \in Jobs : j = m[1]
  BY AckMoves DEF PInv, IInv
<1>2. /\ TypeOK /\ UNCHANGED <<conn, spool, sends>> /\ m[2] \in {"done", "failed"}
      /\ job'[j] = Acked(job[j], m[2])
      /\ \A i \in Jobs \ {j} : job'[i] = job[i]
  BY <1>1, AckMoves DEF PInv, IInv
<1>3. \A i \in Jobs : NotNewlyDue(i)
  BY <1>2, GotShrinks, NothingNewlyDue
<1>4. m[2] = "done" => Out(j)
  BY <1>1 DEF PInv, IInv, AcksSound
<1>5. \/ job'[j] = job[j]
      \/ /\ job[j].status = "claimed" /\ job'[j].status = m[2]
         /\ SameBut(job[j], job'[j], {"status", "age", "held"})
  BY <1>2, JobIs, AckedIs
<1>6. TicketStep(j)
  BY <1>2, <1>3, <1>4, <1>5, SameTicket DEF TicketStep, Goes, SameOut, Out, SameBut
<1>. QED
  BY <1>2, <1>3, <1>6, SameTicket DEF TicketSteps

LEMMA PaperLoseAck ==
  ASSUME PInv, NEW m \in acks, LoseAck(m)
  PROVE  TicketSteps
<1>1. UNCHANGED <<job, conn, spool, sends>>
  BY LoseAckMoves DEF PInv, IInv
<1>. QED
  BY <1>1, GotShrinks, NothingNewlyDue, AllSameTickets

(* A sweep takes up what waits and is fresh, and gives up the rest. *)
LEMMA PaperSweep ==
  ASSUME PInv, NEW s \in Sweeps, Sweep(s)
  PROVE  TicketSteps
<1>1. /\ TypeOK /\ UNCHANGED <<conn, spool>> /\ Direct /\ job' = [j \in Jobs |-> Expired(job[j])]
      /\ sends'[s].todo = {j \in With("pending") : job[j].age <= MaxAge}
      /\ \A d \in Deliverers \ {s} : sends'[d] = sends[d]
  BY SweepMoves DEF PInv, IInv
<1>2. HandsShrink
  BY <1>1, GotShrinks
<1>3. ASSUME NEW j \in Jobs PROVE TicketStep(j)
  <2>1. job[j] \in PrintJob /\ job'[j] = Expired(job[j])
    BY <1>1, JobIs
  <2>2. CASE j \in sends'[s].todo
    <3>1. job[j].status = "pending" /\ job[j].age <= MaxAge
      BY <1>1, <2>2 DEF With
    <3>2. job'[j] = job[j]
      BY <2>1, <3>1, ExpiredIs, Limits DEF PrintJob
    <3>. QED
      BY <1>1, <3>1, <3>2 DEF TicketStep, SameOut, Out
  <2>3. CASE j \notin sends'[s].todo
    <3>1. NotNewlyDue(j)
      BY <1>1, <1>2, <2>3 DEF HandsShrink, NotNewlyDue, Due, InHand
    <3>. QED
      BY <1>1, <2>1, <3>1, ExpiredTicket
  <2>. QED
    BY <2>2, <2>3
<1>. QED
  BY <1>3 DEF TicketSteps

LEMMA PaperDeliver ==
  ASSUME PInv, NEW d \in Deliverers, Deliver(d)
  PROVE  TicketSteps
<1>1. TypeOK /\ sends[d].todo \subseteq Jobs
  BY TypeOKParts DEF PInv, IInv, Sending
<1>2. CASE Send(d)
  <2>1. PICK j \in Jobs : j = Oldest(sends[d].todo)
    BY <1>1, <1>2, SendMoves
  <2>2. /\ UNCHANGED <<conn, spool>> /\ OneOut(j) /\ sends[d].todo # {}
        /\ \A e \in Deliverers : sends'[e].todo \subseteq sends[e].todo
    BY <1>1, <1>2, <2>1, SendMoves
  <2>3. Due(j)
    BY <1>1, <2>1, <2>2, OldestIsOldest DEF Due
  <2>. QED
    BY <1>1, <2>2, <2>3, GotShrinks, NothingNewlyDue, OneOutTickets
<1>3. CASE MarkDone(d)
  <2>1. sends[d].sending /\ sends[d].todo # {} /\ Out(Oldest(sends[d].todo))
    BY <1>3 DEF MarkDone, PInv, IInv, SendSound
  <2>2. PICK j \in Jobs : j = Oldest(sends[d].todo)
    BY <1>1, <1>3, <2>1, MarkDoneMoves
  <2>3. /\ UNCHANGED <<conn, spool>> /\ job'[j] = Ended(job[j], "done")
        /\ \A i \in Jobs \ {j} : job'[i] = job[i]
        /\ \A e \in Deliverers : sends'[e].todo \subseteq sends[e].todo
    BY <1>1, <1>3, <2>1, <2>2, MarkDoneMoves
  <2>4. j \in sends[d].todo
    BY <1>1, <2>1, <2>2, OldestIsOldest
  <2>5. Due(j) /\ Direct /\ job[j].status # "none" /\ Out(j)
    BY <2>1, <2>2, <2>4 DEF Due, PInv, TodoQueued
  <2>6. \A i \in Jobs : NotNewlyDue(i)
    BY <2>3, GotShrinks, NothingNewlyDue
  <2>7. job[j] \in PrintJob /\ job'[j].status = "done" /\ SameBut(job[j], job'[j], {"status", "age", "held"})
    BY <1>1, <2>3, JobIs, EndedIs
  <2>8. TicketStep(j)
    BY <2>5, <2>6, <2>7 DEF TicketStep, Goes, SameOut, Out, SameBut, PrintJob
  <2>. QED
    BY <2>3, <2>6, <2>8, SameTicket DEF TicketSteps
<1>4. CASE SendFails(d)
  <2>1. /\ UNCHANGED <<job, conn, spool>> /\ sends'[d].todo = {}
        /\ \A e \in Deliverers \ {d} : sends'[e] = sends[e]
    BY <1>1, <1>4, SendFailsMoves, IdleIs
  <2>. QED
    BY <2>1, GotShrinks, NothingNewlyDue, AllSameTickets
<1>. QED
  BY <1>2, <1>3, <1>4 DEF Deliver

LEMMA PaperNext ==
  ASSUME PInv, [Next]_vars
  PROVE  TicketSteps
<1>1. CASE UNCHANGED vars
  <2>1. UNCHANGED <<job, conn, spool, sends>>
    BY <1>1 DEF vars
  <2>. QED
    BY <2>1, GotShrinks, NothingNewlyDue, AllSameTickets
<1>2. ASSUME NEW c \in Conns, Handle(c) \/ HangUp(c) \/ Abort(c) PROVE TicketSteps
  <2>1. CASE Answer(c) \/ HangUp(c) \/ Abort(c)
    BY <2>1, PaperPolling
  <2>. QED
    BY <1>2, <2>1, PaperReclaim, PaperExpire, PaperClaim DEF Handle
<1>. QED
  BY <1>1, <1>2, PaperEnqueue, PaperPolling, PaperWork, PaperDrop, PaperCrash, PaperAck, PaperLoseAck,
     PaperSweep, PaperDeliver, PaperTick
  DEF Next

-----------------------------------------------------------------------------
(* What a direct delivery holds stays queued. *)
LEMMA TodoKept ==
  ASSUME PInv, JobSteps, \A d \in Deliverers : sends'[d].todo \subseteq sends[d].todo
  PROVE  TodoQueued'
<1>1. \A d \in Deliverers : sends[d].todo \subseteq Jobs
  BY TypeOKParts DEF PInv, IInv, Sending
<1>. QED
  BY <1>1 DEF PInv, TodoQueued, JobSteps, JobStep

LEMMA TodoNext ==
  ASSUME PInv, [Next]_vars
  PROVE  PInv'
<1>1. IInv' /\ JobSteps
  BY NextSound, StutterSound DEF PInv, Sound
<1>. TypeOK
  BY DEF PInv, IInv
<1>2. ASSUME NEW j \in Jobs, Enqueue(j) PROVE TodoQueued'
  <2>. DEFINE train == {i \in Jobs : TrainOf[i] = TrainOf[j]}
  <2>1. CASE UNCHANGED sends
    BY <1>1, <2>1, TodoKept
  <2>2. CASE ~UNCHANGED sends
    <3>1. /\ Direct /\ job'[j].status = "pending"
          /\ \A i \in train \ {j} : job[i].status # "none"
          /\ sends'[TrainOf[j]].todo = train
          /\ \A d \in Deliverers \ {TrainOf[j]} : sends'[d] = sends[d]
      BY <1>2, <2>2, EnqueueMoves
    <3>2. \A i \in train : job'[i].status # "none"
      BY <1>1, <3>1 DEF JobSteps, JobStep
    <3>3. ASSUME NEW d \in Deliverers \ {TrainOf[j]}, NEW i \in sends'[d].todo
          PROVE  job'[i].status # "none"
      <4>1. i \in sends[d].todo /\ i \in Jobs
        BY <3>1, <3>3, TypeOKParts DEF Sending
      <4>. QED
        BY <1>1, <4>1 DEF PInv, TodoQueued, JobSteps, JobStep
    <3>. QED
      BY <3>1, <3>2, <3>3 DEF TodoQueued
  <2>. QED
    BY <2>1, <2>2
<1>3. ASSUME NEW s \in Sweeps, Sweep(s) PROVE TodoQueued'
  <2>1. /\ Direct /\ sends'[s].todo \subseteq With("pending")
        /\ \A d \in Deliverers \ {s} : sends'[d] = sends[d]
    BY <1>3, SweepMoves
  <2>2. \A d \in Deliverers : \A i \in sends'[d].todo : i \in Jobs /\ job[i].status # "none"
    BY <2>1, TypeOKParts DEF PInv, TodoQueued, With, Sending
  <2>. QED
    BY <1>1, <2>1, <2>2 DEF TodoQueued, JobSteps, JobStep
<1>4. ASSUME NEW d \in Deliverers, Deliver(d) PROVE TodoQueued'
  <2>1. \A e \in Deliverers : sends'[e].todo \subseteq sends[e].todo
    <3>1. CASE Send(d)
      BY <3>1, SendMoves
    <3>2. CASE MarkDone(d)
      <4>1. sends[d].todo # {}
        BY <3>2 DEF MarkDone, PInv, IInv, SendSound
      <4>. QED
        BY <3>2, <4>1, MarkDoneMoves
    <3>3. CASE SendFails(d)
      BY <3>3, SendFailsMoves, IdleIs
    <3>. QED
      BY <1>4, <3>1, <3>2, <3>3 DEF Deliver
  <2>. QED
    BY <1>1, <2>1, TodoKept
<1>5. ASSUME UNCHANGED sends PROVE TodoQueued'
  BY <1>1, <1>5, TodoKept
<1>6. [Next]_vars =>
        \/ UNCHANGED sends
        \/ \E j \in Jobs : Enqueue(j)
        \/ \E s \in Sweeps : Sweep(s)
        \/ \E d \in Deliverers : Deliver(d)
  BY DEF Next, Poll, Handle, Reclaim, Expire, Claim, Answer, HangUp, Abort, Work, PrintTicket, BatchDone,
         Drop, GiveUp, SendTicket, Crash, Ack, LoseAck, Tick, vars
<1>. QED
  BY <1>1, <1>2, <1>3, <1>4, <1>5, <1>6 DEF PInv

LEMMA PaperInit == Init => PInv /\ Paper!Init
<1> SUFFICES ASSUME Init PROVE PInv /\ Paper!Init
  OBVIOUS
<1>1. TodoQueued
  BY IdleIs DEF Init, TodoQueued
<1>2. \A j \in Jobs : Due(j) = FALSE /\ (job[j].copies > 0 \/ job[j].dropped) = FALSE /\ PlaceOf(job[j].status) = "none"
  BY IdleIs, PlacesOf DEF Init, Due, NoConn
<1>. QED
  BY <1>1, <1>2, InitSound DEF PInv, Paper!Init

(* PrintQueue implements TicketPaper, by host or through agents: whatever    *)
(* polls, acks, leases, crashes and retries do, a ticket comes out or is     *)
(* dropped only while somebody was handed it, none is called printed before  *)
(* either, and on the agent path one that was given up is done with.         *)
THEOREM ImplementsTicketPaper == Spec => TicketSpec
<1>1. PInv /\ [Next]_vars => [Paper!Next]_(Paper!tickets)
  BY PaperNext, TodoNext, TicketStepsArePaperSteps DEF PInv, IInv
<1>2. PInv /\ [Next]_vars => PInv'
  BY TodoNext
<1>. QED
  BY <1>1, <1>2, PaperInit, PTL DEF Spec, TicketSpec, Paper!Spec
=============================================================================
