--------------------------- MODULE MailSync_proofs ---------------------------
(***************************************************************************)
(* Proofs about the mail sync, for any mailbox, any number of overlapping  *)
(* syncs, any page size and any number of faults.                          *)
(*                                                                         *)
(* The inductive invariant is an account each sync can give of the mail:   *)
(* every message up to where it has listed is still to do or excused, and  *)
(* it only writes a cursor when nothing is left to do.  Beside it stands    *)
(* the ledger's: a payment that nobody raced for is missing as long as its  *)
(* one writer is about to insert it.                                        *)
(***************************************************************************)
EXTENDS MailSync, SequenceTheorems, WellFoundedInduction, TLAPS

RowStates == {"OPEN", "FILED", "DISMISSED"}

SyncShape ==
  [step   : {"IDLE", "SEED", "SEEDED", "LIST", "FETCH", "INSERT", "FILE"},
   at     : 0..MaxMail,
   todo   : SUBSET Mail,
   newest : 0..MaxMail,
   failed : BOOLEAN]

LedgerShape ==
  /\ made \in [Refs -> Nat]
  /\ pending \in [Writers -> Payments \cup {NoRef}]

Shape ==
  /\ arrived \in 0..MaxMail
  /\ cursor \in {Unseeded} \cup 0..MaxMail
  /\ LedgerShape
  /\ rows \in [Mail -> Seq(RowStates)]
  /\ sync \in [Syncs -> SyncShape]

(* One under each reference that its index keeps, or that nobody raced for:   *)
(* the one who is about to insert such a payment found none, and is alone.   *)
LedgerSound ==
  \A r \in Refs :
    /\ r \in Indexed => made[r] <= 1
    /\ r \notin Indexed /\ r \notin raced =>
         /\ made[r] <= 1
         /\ \A v, w \in Writers :
              pending[v] = r => made[r] = 0 /\ (pending[w] = r => v = w)

(* A message need not be filed any more, or need never be. *)
Excused(m) == RefOf[m] = NoRef \/ Handled(m) \/ m \in failed \/ m \in gap

CursorSound ==
  /\ cursor = Unseeded => gap = {}
  /\ \A m \in Mail : m <= cursor => Excused(m)

InsertSound(s) ==
  sync[s].step = "INSERT" =>
    pending[s] = RefOf[Min(sync[s].todo)] /\ pending[s] \in Payments

AccountSound(s) ==
  /\ sync[s].todo # {} \/ sync[s].step \notin {"INSERT", "FILE"}
  /\ \A m \in sync[s].todo : RefOf[m] \in Refs
  /\ sync[s].step \in {"FETCH", "INSERT", "FILE"} => sync[s].newest = sync[s].at
  /\ sync[s].step \in {"LIST", "FETCH", "INSERT", "FILE"} =>
       \A m \in Mail : m <= sync[s].at => m \in sync[s].todo \/ Excused(m)

SyncSound(s) == AccountSound(s) /\ InsertSound(s)

(* Only mail about something has a row, and a filed row's mail was stored. *)
RowsSound ==
  \A m \in Mail :
    /\ rows[m] # << >> => RefOf[m] \in Refs
    /\ \A k \in 1..Len(rows[m]) : rows[m][k] = "FILED" => Stored(RefOf[m])

DeskSound ==
  /\ desk.step \in {"INSERT", "CLOSE"} => desk.of \in Mail
  /\ desk.step = "INSERT" =>
       /\ pending[Admin] = RefOf[desk.of] /\ pending[Admin] \in Payments
       /\ desk.row = 0 \/ desk.row \in 1..Len(rows[desk.of])
  /\ desk.step = "CLOSE" =>
       desk.row \in 1..Len(rows[desk.of]) /\ Stored(RefOf[desk.of])

IInv ==
  /\ Shape
  /\ LedgerSound
  /\ CursorSound
  /\ \A s \in Syncs : SyncSound(s)
  /\ RowsSound
  /\ DeskSound

LEMMA InitSound == Init => IInv
<1> SUFFICES ASSUME Init PROVE IInv
  OBVIOUS
<1>1. MaxMail \in Nat
  BY ConstantsAssumption
<1>2. /\ arrived \in 0..MaxMail /\ cursor \in {Unseeded} \cup 0..MaxMail
      /\ LedgerShape /\ LedgerSound
  BY <1>1, ConstantsAssumption DEF Init, LedgerShape, LedgerSound
<1>3. rows \in [Mail -> Seq(RowStates)]
  <2>1. << >> \in Seq(RowStates)
    BY EmptySeq
  <2>. QED
    BY <2>1 DEF Init
<1>4. sync \in [Syncs -> SyncShape]
  BY <1>1 DEF Init, Idle, SyncShape
<1>5. CursorSound
  BY <1>1 DEF Init, CursorSound, Unseeded, Mail
<1>6. \A s \in Syncs : SyncSound(s)
  BY DEF Init, SyncSound, AccountSound, InsertSound, Idle
<1>7. RowsSound
  <2>1. Len(<< >>) = 0
    BY EmptySeq
  <2>. QED
    BY <2>1 DEF Init, RowsSound
<1>8. DeskSound
  BY DEF Init, DeskSound, AtRest
<1>. QED
  BY <1>2, <1>3, <1>4, <1>5, <1>6, <1>7, <1>8 DEF IInv, Shape

-----------------------------------------------------------------------------
(* Facts about the least message still to do and about what is stored. *)

LessThan == {p \in Nat \X Nat : p[1] < p[2]}

LEMMA NotLessThan ==
  ASSUME NEW x \in Nat, NEW y \in Nat, <<y, x>> \notin LessThan
  PROVE  x <= y
<1>1. <<y, x>> \in Nat \X Nat
  OBVIOUS
<1>. QED
  BY <1>1 DEF LessThan

LEMMA SetHasLeast ==
  ASSUME NEW T \in SUBSET Nat, T # {}
  PROVE  \E x \in T : \A y \in T : x <= y
<1>1. OpToRel(<, Nat) = LessThan
  BY Zenon DEF OpToRel, LessThan
<1>2. IsWellFoundedOn(LessThan, Nat)
  BY Zenon, <1>1, NatLessThanWellFounded
<1>3. \E x \in T : \A y \in T : ~ (<<y, x>> \in LessThan)
  BY Zenon, <1>2, WFMin
<1>4. T \subseteq Nat
  OBVIOUS
<1>. QED
  BY Zenon, <1>3, <1>4, NotLessThan

LEMMA NextIsToDo ==
  ASSUME NEW T \in SUBSET Mail, T # {}
  PROVE  Min(T) \in T
<1>1. T \in SUBSET Nat
  BY ConstantsAssumption DEF Mail
<1>2. \E x \in T : \A y \in T : x <= y
  BY <1>1, SetHasLeast
<1>. QED
  BY Zenon, <1>2 DEF Min

-----------------------------------------------------------------------------
(* The ledger.  What a step leaves of it: its own soundness, and whatever was *)
(* stored.                                                                    *)

LedgerGoesOn ==
  /\ LedgerShape' /\ LedgerSound'
  /\ \A r \in Refs : Stored(r) => Stored(r)'

(* The look: a payment found missing is about to be inserted, and whatever is *)
(* not a missing payment is stored when the look is over.                     *)
LEMMA LooksGoesOn ==
  ASSUME LedgerShape, LedgerSound, NEW w \in Writers, NEW r \in Refs, Looks(w, r)
  PROVE  /\ LedgerGoesOn
         /\ \A v \in Writers \ {w} : pending'[v] = pending[v]
         /\ Missing(r) => r \in Payments /\ pending'[w] = r
         /\ ~Missing(r) => Stored(r)' /\ pending' = pending
<1>1. CASE Missing(r)
  <2>1. /\ r \in Payments /\ made[r] = 0 /\ UNCHANGED <<made, deleted>>
        /\ pending' = [pending EXCEPT ![w] = r]
        /\ raced' = IF \E v \in Writers : pending[v] = r THEN raced \cup {r} ELSE raced
    BY <1>1 DEF Looks, Missing
  <2>2. LedgerShape' /\ \A v \in Writers : pending'[v] = IF v = w THEN r ELSE pending[v]
    BY <2>1 DEF LedgerShape
  <2>3. ASSUME NEW q \in Refs, q \notin Indexed, q \notin raced'
        PROVE  /\ made[q] <= 1
               /\ \A u, v \in Writers :
                    pending'[u] = q => made[q] = 0 /\ (pending'[v] = q => u = v)
    <3>1. q \notin raced
      BY <2>1, <2>3
    <3>2. CASE q = r
      <4>1. \A v \in Writers : pending[v] # r
        BY <2>1, <2>3, <3>2
      <4>. QED
        BY <4>1, <2>1, <2>2, <3>2
    <3>3. CASE q # r
      BY <3>1, <3>3, <2>2, <2>3 DEF LedgerSound
    <3>. QED
      BY <3>2, <3>3
  <2>4. LedgerSound'
    BY <2>1, <2>3 DEF LedgerSound
  <2>5. \A q \in Refs : Stored(q) => Stored(q)'
    BY <2>1 DEF Stored
  <2>. QED
    BY <1>1, <2>1, <2>2, <2>4, <2>5 DEF LedgerGoesOn
<1>2. CASE ~Missing(r)
  <2>1. /\ made' = IF r \in Payments THEN made ELSE Inserted(r)
        /\ UNCHANGED <<deleted, pending, raced>>
    BY <1>2 DEF Looks
  <2>2. CASE made' = made
    <3>1. made[r] > 0
      <4>1. made[r] \in Nat
        BY DEF LedgerShape
      <4>2. CASE r \in Payments
        BY <4>1, <4>2, <1>2 DEF Missing
      <4>3. CASE r \notin Payments /\ ~(made[r] > 0)
        BY <4>1, <4>3, <2>1, <2>2 DEF Inserted, LedgerShape
      <4>. QED
        BY <4>2, <4>3
    <3>2. LedgerShape' /\ LedgerSound'
      BY <2>1, <2>2 DEF LedgerShape, LedgerSound
    <3>. QED
      BY <3>1, <3>2, <2>1, <2>2, <1>2 DEF LedgerGoesOn, Stored
  <2>3. CASE made' # made
    <3>1. r \notin Payments /\ r \in Indexed
      BY <2>1, <2>3, ConstantsAssumption
    <3>2. made[r] \in Nat /\ ~(made[r] > 0) /\ made' = [made EXCEPT ![r] = made[r] + 1]
      BY <2>1, <2>3, <3>1 DEF Inserted, LedgerShape
    <3>3. made' \in [Refs -> Nat] /\ \A q \in Refs : made'[q] = IF q = r THEN 1 ELSE made[q]
      BY <3>2 DEF LedgerShape
    <3>4. LedgerShape'
      BY <2>1, <3>3 DEF LedgerShape
    <3>5. LedgerSound'
      BY <2>1, <3>1, <3>3 DEF LedgerSound
    <3>6. \A q \in Refs : Stored(q) => Stored(q)'
      BY <2>1, <3>3 DEF Stored
    <3>. QED
      BY <3>3, <3>4, <3>5, <3>6, <2>1, <1>2 DEF LedgerGoesOn, Stored
  <2>. QED
    BY <2>2, <2>3
<1>. QED
  BY <1>1, <1>2

(* The insert: the payment is stored, and its writer is through with it. *)
LEMMA InsertsGoesOn ==
  ASSUME LedgerShape, LedgerSound, NEW w \in Writers, pending[w] \in Payments, Inserts(w)
  PROVE  /\ LedgerGoesOn
         /\ \A v \in Writers \ {w} : pending'[v] = pending[v]
         /\ \A r \in Refs : r = pending[w] => Stored(r)'
<1>1. PICK r : r = pending[w]
  OBVIOUS
<1>2. r \in Payments /\ r \in Refs /\ r # NoRef /\ made[r] \in Nat
  BY <1>1, ConstantsAssumption DEF LedgerShape
<1>3. /\ made' = Inserted(r) /\ pending' = [pending EXCEPT ![w] = NoRef]
      /\ UNCHANGED <<deleted, raced>>
  BY <1>1 DEF Inserts, GivesUp
<1>4. /\ made' \in [Refs -> Nat]
      /\ \A q \in Refs : q # r => made'[q] = made[q]
      /\ made'[r] = IF r \in Indexed /\ made[r] > 0 THEN made[r] ELSE made[r] + 1
  BY <1>2, <1>3 DEF Inserted, LedgerShape
<1>5. /\ pending' \in [Writers -> Payments \cup {NoRef}]
      /\ \A v \in Writers : pending'[v] = IF v = w THEN NoRef ELSE pending[v]
  BY <1>3 DEF LedgerShape
<1>6. ASSUME NEW q \in Refs, q \in Indexed PROVE made'[q] <= 1
  BY <1>2, <1>4, <1>6 DEF LedgerSound
<1>7. ASSUME NEW q \in Refs, q \notin Indexed, q \notin raced
      PROVE  /\ made'[q] <= 1
             /\ \A u, v \in Writers :
                  pending'[u] = q => made'[q] = 0 /\ (pending'[v] = q => u = v)
  <2>1. CASE q = r
    <3>1. made[r] = 0 /\ \A v \in Writers : pending[v] = r => w = v
      BY <1>1, <1>7, <2>1 DEF LedgerSound
    <3>2. \A v \in Writers : pending'[v] # r
      BY <3>1, <1>2, <1>5
    <3>. QED
      BY <3>1, <3>2, <2>1, <1>4
  <2>2. CASE q # r
    <3>1. q # NoRef
      BY ConstantsAssumption
    <3>. QED
      BY <2>2, <3>1, <1>4, <1>5, <1>7 DEF LedgerSound
  <2>. QED
    BY <2>1, <2>2
<1>8. LedgerSound'
  BY <1>3, <1>6, <1>7 DEF LedgerSound
<1>9. \A q \in Refs : Stored(q) => Stored(q)'
  BY <1>2, <1>3, <1>4 DEF Stored
<1>10. Stored(r)'
  BY <1>2, <1>4 DEF Stored
<1>. QED
  BY <1>1, <1>4, <1>5, <1>8, <1>9, <1>10 DEF LedgerGoesOn, LedgerShape

LEMMA GivingUpGoesOn ==
  ASSUME LedgerShape, LedgerSound, NEW w \in Writers, GivesUp(w),
         UNCHANGED <<made, deleted, raced>>
  PROVE  LedgerGoesOn /\ \A v \in Writers \ {w} : pending'[v] = pending[v]
<1>1. /\ pending' \in [Writers -> Payments \cup {NoRef}]
      /\ \A v \in Writers : pending'[v] = IF v = w THEN NoRef ELSE pending[v]
  BY DEF GivesUp, LedgerShape
<1>2. \A q \in Refs : q # NoRef
  BY ConstantsAssumption
<1>3. LedgerSound'
  BY <1>1, <1>2 DEF LedgerSound
<1>. QED
  BY <1>1, <1>3 DEF LedgerGoesOn, LedgerShape, Stored

LEMMA DeletingGoesOn ==
  ASSUME LedgerShape, LedgerSound, NEW r \in Refs, Delete(r)
  PROVE  LedgerGoesOn /\ pending' = pending
<1>1. /\ r \in Indexed /\ made[r] \in Nat /\ made[r] > 0 /\ UNCHANGED <<pending, raced>>
      /\ made' = [made EXCEPT ![r] = made[r] - 1] /\ deleted' = deleted \cup {r}
  BY ConstantsAssumption DEF Delete, LedgerShape
<1>2. /\ made' \in [Refs -> Nat]
      /\ \A q \in Refs : made'[q] = IF q = r THEN made[r] - 1 ELSE made[q]
  BY <1>1 DEF LedgerShape
<1>3. LedgerShape'
  BY <1>1, <1>2 DEF LedgerShape
<1>4. LedgerSound'
  BY <1>1, <1>2 DEF LedgerSound, LedgerShape
<1>5. \A q \in Refs : Stored(q) => Stored(q)'
  BY <1>1, <1>2 DEF Stored
<1>. QED
  BY <1>1, <1>3, <1>4, <1>5 DEF LedgerGoesOn

LEMMA LedgerAlone ==
  ASSUME LedgerShape, LedgerSound, UNCHANGED ledger
  PROVE  LedgerGoesOn /\ pending' = pending
BY DEF ledger, LedgerGoesOn, LedgerShape, LedgerSound, Stored

-----------------------------------------------------------------------------
(* What a step leaves of the accounts it is not about. *)

(* An excuse is never lost while rows only come to be and what was stored     *)
(* stays known.                                                               *)
LEMMA ExcusesStay ==
  ASSUME \A r \in Refs : Stored(r) => Stored(r)',
         \A m \in Mail : rows[m] # << >> => rows'[m] # << >>,
         failed \subseteq failed', gap \subseteq gap',
         NEW m \in Mail, Excused(m)
  PROVE  Excused(m)'
BY DEF Excused, Handled

(* A sync that did not move keeps its account. *)
LEMMA OthersSound ==
  ASSUME NEW s \in Syncs, SyncSound(s), sync'[s] = sync[s], pending'[s] = pending[s],
         \A m \in Mail : Excused(m) => Excused(m)'
  PROVE  SyncSound(s)'
BY DEF SyncSound, AccountSound, InsertSound

LEMMA RowHasRef ==
  ASSUME RowsSound, NEW m \in Mail, NEW k \in 1..Len(rows[m])
  PROVE  RefOf[m] \in Refs
<1>1. rows[m] # << >>
  BY EmptySeq
<1>. QED
  BY <1>1 DEF RowsSound

(* Neither the rows nor the desk are disturbed by what others store. *)
LEMMA RowsAndDeskStay ==
  ASSUME RowsSound, DeskSound, UNCHANGED <<rows, desk>>, pending'[Admin] = pending[Admin],
         \A r \in Refs : Stored(r) => Stored(r)'
  PROVE  RowsSound' /\ DeskSound'
<1>1. RowsSound'
  <2>1. ASSUME NEW m \in Mail, NEW k \in 1..Len(rows[m]), rows[m][k] = "FILED"
        PROVE  Stored(RefOf[m])'
    BY <2>1, RowHasRef DEF RowsSound
  <2>. QED
    BY <2>1 DEF RowsSound
<1>2. ASSUME desk.step = "CLOSE" PROVE Stored(RefOf[desk.of])'
  <2>1. RefOf[desk.of] \in Refs
    BY <1>2, RowHasRef DEF DeskSound
  <2>. QED
    BY <1>2, <2>1 DEF DeskSound
<1>3. DeskSound'
  BY <1>2 DEF DeskSound
<1>. QED
  BY <1>1, <1>3

-----------------------------------------------------------------------------
(* The world: mail, the mailbox's memory, the parsers, the watch. *)

WorldStep == Arrive \/ Forget \/ RenewWatch \/ \E m \in Mail : Teach(m)

LEMMA WorldKeeps ==
  ASSUME IInv, WorldStep
  PROVE  IInv'
<1>1. MaxMail \in Nat
  BY ConstantsAssumption
<1>2. UNCHANGED <<ledger, rows, sync, desk, failed>> /\ gap \subseteq gap'
  <2>1. CASE RenewWatch
    BY <2>1 DEF RenewWatch, IInv, CursorSound, mailbox, inbox, counts
  <2>2. CASE ~RenewWatch
    BY <2>2 DEF WorldStep, Arrive, Forget, Teach, inbox, ghosts, counts
  <2>. QED
    BY <2>1, <2>2
<1>2a. LedgerGoesOn /\ pending' = pending
  BY <1>2, LedgerAlone DEF IInv, Shape
<1>3. \A m \in Mail : Excused(m) => Excused(m)'
  BY <1>2, <1>2a, ExcusesStay DEF LedgerGoesOn
<1>4. CursorSound' /\ arrived' \in 0..MaxMail /\ cursor' \in {Unseeded} \cup 0..MaxMail
  <2>1. CASE Arrive \/ Forget \/ \E m \in Mail : Teach(m)
    <3>1. /\ UNCHANGED <<cursor, gap>> /\ arrived' \in 0..MaxMail
      BY <2>1, <1>1 DEF Arrive, Forget, Teach, IInv, Shape, ghosts
    <3>. QED
      BY <3>1, <1>3 DEF CursorSound, IInv, Shape
  <2>2. CASE RenewWatch /\ cursor # Unseeded
    BY <2>2, <1>3 DEF RenewWatch, IInv, Shape, CursorSound, mailbox
  <2>3. CASE RenewWatch /\ cursor = Unseeded
    <3>1. cursor' = arrived /\ gap' = 1..arrived /\ arrived' = arrived
      BY <2>3 DEF RenewWatch, mailbox
    <3>2. cursor' # Unseeded
      BY <3>1, <1>1 DEF IInv, Shape, Unseeded
    <3>3. \A m \in Mail : m <= cursor' => m \in gap'
      BY <3>1, <1>1 DEF Mail, IInv, Shape
    <3>. QED
      BY <3>1, <3>2, <3>3 DEF CursorSound, Excused, IInv, Shape
  <2>. QED
    BY <2>1, <2>2, <2>3 DEF WorldStep
<1>5. \A s \in Syncs : SyncSound(s)'
  BY <1>2, <1>2a, <1>3, OthersSound DEF IInv
<1>6. RowsSound' /\ DeskSound'
  BY <1>2, <1>2a, RowsAndDeskStay DEF IInv, LedgerGoesOn
<1>7. Shape' /\ LedgerSound'
  BY <1>2, <1>2a, <1>4 DEF IInv, Shape, LedgerGoesOn
<1>. QED
  BY <1>4, <1>5, <1>6, <1>7 DEF IInv

-----------------------------------------------------------------------------
(* The desk. *)

(* Closing or opening a row leaves the number of rows as it was. *)
LEMMA ClosingAltersOneRow ==
  ASSUME Shape, NEW m \in Mail, NEW k \in 1..Len(rows[m]), NEW state \in RowStates,
         Closes(m, k, state)
  PROVE  /\ rows' \in [Mail -> Seq(RowStates)]
         /\ \A n \in Mail : Len(rows'[n]) = Len(rows[n])
         /\ \A n \in Mail : rows[n] # << >> <=> rows'[n] # << >>
         /\ \A n \in Mail : \A i \in 1..Len(rows[n]) :
              rows'[n][i] = IF n = m /\ i = k THEN state ELSE rows[n][i]
<1>1. rows[m] \in Seq(RowStates)
  BY DEF Shape
<1>2. rows' = [rows EXCEPT ![m] = [rows[m] EXCEPT ![k] = state]]
  BY DEF Closes, Shape
<1>3. /\ [rows[m] EXCEPT ![k] = state] \in Seq(RowStates)
      /\ Len([rows[m] EXCEPT ![k] = state]) = Len(rows[m])
      /\ \A i \in 1..Len(rows[m]) :
           [rows[m] EXCEPT ![k] = state][i] = IF i = k THEN state ELSE rows[m][i]
  BY <1>1, ExceptSeq
<1>4. rows' \in [Mail -> Seq(RowStates)]
  BY <1>2, <1>3 DEF Shape
<1>5. \A n \in Mail : Len(rows'[n]) = Len(rows[n])
  BY <1>2, <1>3 DEF Shape
<1>6. \A n \in Mail : rows[n] # << >> <=> rows'[n] # << >>
  BY <1>4, <1>5, EmptySeq DEF Shape
<1>7. \A n \in Mail : \A i \in 1..Len(rows[n]) :
        rows'[n][i] = IF n = m /\ i = k THEN state ELSE rows[n][i]
  BY <1>2, <1>3 DEF Shape
<1>. QED
  BY <1>4, <1>5, <1>6, <1>7

DeskStep ==
  \/ \E m \in Mail : Paste(m) \/ RowStep(m)
  \/ DeskInserts \/ CloseRow \/ DeskDies
  \/ \E r \in Refs : Delete(r)

(* What a step at the desk leaves of what the invariant reads: rows keep      *)
(* their number, a filed one stays so, stored mail stays known.              *)
RowsGoOn ==
  /\ rows' \in [Mail -> Seq(RowStates)]
  /\ \A n \in Mail : Len(rows'[n]) = Len(rows[n])
  /\ \A n \in Mail : rows[n] # << >> <=> rows'[n] # << >>
  /\ \A n \in Mail : \A i \in 1..Len(rows[n]) : rows[n][i] = "FILED" => rows'[n][i] = "FILED"
  /\ \A n \in Mail : \A i \in 1..Len(rows[n]) :
       rows'[n][i] = "FILED" => rows[n][i] = "FILED" \/ Stored(RefOf[n])

DeskGoesOn ==
  /\ RowsGoOn /\ LedgerGoesOn /\ DeskSound'
  /\ \A w \in Syncs : pending'[w] = pending[w]

LEMMA AdminIsWriter == Admin \in Writers /\ \A s \in Syncs : s \in Writers \ {Admin}
BY ConstantsAssumption DEF Writers

LEMMA RowsAlone ==
  ASSUME Shape, UNCHANGED rows
  PROVE  RowsGoOn
BY DEF RowsGoOn, Shape

(* One row goes over to another state, and nothing is stored meanwhile. *)
LEMMA OneRowGoesOn ==
  ASSUME Shape, DeskSound, NEW m \in Mail, NEW k \in 1..Len(rows[m]), NEW state \in RowStates,
         Closes(m, k, state),
         state = "FILED" => Stored(RefOf[m]),
         rows[m][k] = "FILED" => state = "FILED"
  PROVE  RowsGoOn
<1>1. /\ rows' \in [Mail -> Seq(RowStates)]
      /\ \A n \in Mail : Len(rows'[n]) = Len(rows[n])
      /\ \A n \in Mail : rows[n] # << >> <=> rows'[n] # << >>
      /\ \A n \in Mail : \A i \in 1..Len(rows[n]) :
           rows'[n][i] = IF n = m /\ i = k THEN state ELSE rows[n][i]
  BY ClosingAltersOneRow
<1>. QED
  BY <1>1 DEF RowsGoOn

LEMMA DeskLeaves ==
  ASSUME IInv, DeskStep
  PROVE  DeskGoesOn /\ UNCHANGED <<arrived, cursor, sync, failed, gap>>
<1>1. Shape /\ LedgerShape /\ LedgerSound /\ RowsSound /\ DeskSound
  BY DEF IInv, Shape
<1>2. UNCHANGED <<arrived, cursor, sync, failed, gap>>
  BY DEF DeskStep, RowStep, Paste, Reingest, Dismiss, Reopen, DeskInserts, CloseRow, DeskDies,
         Delete, mailbox, ghosts
<1>3. ASSUME NEW m \in Mail, NEW k \in 1..Len(rows[m]), Reingest(m, k)
      PROVE  DeskGoesOn
  <2>1. RefOf[m] \in Refs
    BY <1>1, RowHasRef
  <2>2. /\ Looks(Admin, RefOf[m]) /\ rows' = rows
        /\ desk' = [step |-> IF Missing(RefOf[m]) THEN "INSERT" ELSE "CLOSE", of |-> m, row |-> k]
    BY <1>3 DEF Reingest
  <2>3. /\ LedgerGoesOn /\ \A w \in Syncs : pending'[w] = pending[w]
        /\ Missing(RefOf[m]) => RefOf[m] \in Payments /\ pending'[Admin] = RefOf[m]
        /\ ~Missing(RefOf[m]) => Stored(RefOf[m])'
    BY <1>1, <2>1, <2>2, LooksGoesOn, AdminIsWriter
  <2>4. DeskSound'
    BY <2>2, <2>3 DEF DeskSound
  <2>. QED
    BY <1>1, <2>2, <2>3, <2>4, RowsAlone DEF DeskGoesOn
<1>4. ASSUME NEW m \in Mail, Paste(m)
      PROVE  DeskGoesOn
  <2>1. RefOf[m] \in Refs
    BY <1>4, ConstantsAssumption DEF Paste
  <2>2. /\ Looks(Admin, RefOf[m]) /\ rows' = rows
        /\ desk' = IF Missing(RefOf[m]) THEN [step |-> "INSERT", of |-> m, row |-> 0] ELSE AtRest
    BY <1>4 DEF Paste
  <2>3. /\ LedgerGoesOn /\ \A w \in Syncs : pending'[w] = pending[w]
        /\ Missing(RefOf[m]) => RefOf[m] \in Payments /\ pending'[Admin] = RefOf[m]
    BY <1>1, <2>1, <2>2, LooksGoesOn, AdminIsWriter
  <2>4. DeskSound'
    BY <2>2, <2>3 DEF DeskSound, AtRest
  <2>. QED
    BY <1>1, <2>2, <2>3, <2>4, RowsAlone DEF DeskGoesOn
<1>5. ASSUME DeskInserts
      PROVE  DeskGoesOn
  <2>1. /\ desk.step = "INSERT" /\ Inserts(Admin) /\ rows' = rows
        /\ desk' = IF desk.row = 0 THEN AtRest ELSE [desk EXCEPT !.step = "CLOSE"]
    BY <1>5 DEF DeskInserts
  <2>2. /\ desk.of \in Mail /\ pending[Admin] = RefOf[desk.of] /\ pending[Admin] \in Payments
        /\ desk.row = 0 \/ desk.row \in 1..Len(rows[desk.of])
    BY <1>1, <2>1 DEF DeskSound
  <2>3. /\ LedgerGoesOn /\ \A w \in Syncs : pending'[w] = pending[w]
        /\ \A r \in Refs : r = RefOf[desk.of] => Stored(r)'
    BY <1>1, <2>1, <2>2, InsertsGoesOn, AdminIsWriter
  <2>4. DeskSound'
    <3>1. CASE desk.row = 0
      BY <3>1, <2>1 DEF DeskSound, AtRest
    <3>2. CASE desk.row # 0
      <4>1. desk'.of = desk.of /\ desk'.row = desk.row /\ desk'.step # "INSERT"
        BY <3>2, <2>1
      <4>2. RefOf[desk'.of] \in Refs /\ RefOf[desk'.of] = RefOf[desk.of]
        BY <4>1, <2>2, ConstantsAssumption
      <4>3. Stored(RefOf[desk.of])'
        BY <4>2, <2>3 DEF Stored
      <4>. QED
        BY <4>1, <4>3, <3>2, <2>1, <2>2 DEF DeskSound
    <3>. QED
      BY <3>1, <3>2
  <2>. QED
    BY <1>1, <2>1, <2>3, <2>4, RowsAlone DEF DeskGoesOn
<1>6. ASSUME CloseRow
      PROVE  DeskGoesOn
  <2>1. PICK m : m = desk.of
    OBVIOUS
  <2>2. PICK k : k = desk.row
    OBVIOUS
  <2>3. m \in Mail /\ k \in 1..Len(rows[m]) /\ Stored(RefOf[m])
    BY <2>1, <2>2, <1>1, <1>6 DEF DeskSound, CloseRow
  <2>4. Closes(m, k, "FILED") /\ UNCHANGED ledger /\ desk' = AtRest
    BY <2>1, <2>2, <1>6 DEF CloseRow
  <2>5. RowsGoOn
    BY <2>3, <2>4, <1>1, OneRowGoesOn DEF RowStates
  <2>. QED
    BY <2>4, <2>5, <1>1, LedgerAlone DEF DeskGoesOn, DeskSound, AtRest
<1>7. ASSUME NEW m \in Mail, NEW k \in 1..Len(rows[m]), Dismiss(m, k) \/ Reopen(m, k)
      PROVE  DeskGoesOn
  <2>1. PICK state \in RowStates :
          /\ Closes(m, k, state) /\ UNCHANGED <<ledger, desk>>
          /\ rows[m][k] # "FILED" /\ state # "FILED"
    BY <1>7 DEF Dismiss, Reopen, Reopenable, RowStates
  <2>2. RowsGoOn
    BY <2>1, <1>1, OneRowGoesOn
  <2>3. LedgerGoesOn /\ pending' = pending
    BY <2>1, <1>1, LedgerAlone
  <2>4. DeskSound'
    <3>1. ASSUME desk.step = "CLOSE" PROVE Stored(RefOf[desk.of])'
      <4>1. RefOf[desk.of] \in Refs /\ Stored(RefOf[desk.of])
        BY <3>1, <1>1, RowHasRef DEF DeskSound
      <4>. QED
        BY <4>1, <2>1, <2>3 DEF LedgerGoesOn
    <3>. QED
      BY <3>1, <2>1, <2>2, <2>3, <1>1 DEF DeskSound, RowsGoOn
  <2>. QED
    BY <2>2, <2>3, <2>4 DEF DeskGoesOn
<1>8. ASSUME DeskDies
      PROVE  DeskGoesOn
  <2>1. GivesUp(Admin) /\ desk' = AtRest /\ UNCHANGED <<made, deleted, raced, rows>>
    BY <1>8 DEF DeskDies
  <2>. QED
    BY <2>1, <1>1, GivingUpGoesOn, AdminIsWriter, RowsAlone DEF DeskGoesOn, DeskSound, AtRest
<1>9. ASSUME NEW r \in Refs, Delete(r)
      PROVE  DeskGoesOn
  <2>1. LedgerGoesOn /\ pending' = pending /\ UNCHANGED <<rows, desk>>
    BY <1>9, <1>1, DeletingGoesOn DEF Delete
  <2>. QED
    BY <2>1, <1>1, RowsAlone, RowsAndDeskStay DEF DeskGoesOn, LedgerGoesOn
<1>10. DeskGoesOn
  BY <1>3, <1>4, <1>5, <1>6, <1>7, <1>8, <1>9 DEF DeskStep, RowStep
<1>. QED
  BY <1>2, <1>10

LEMMA DeskKeeps ==
  ASSUME IInv, DeskStep
  PROVE  IInv'
<1>1. /\ RowsGoOn /\ LedgerGoesOn /\ DeskSound'
      /\ \A w \in Syncs : pending'[w] = pending[w]
      /\ UNCHANGED <<arrived, cursor, sync, failed, gap>>
  BY DeskLeaves DEF DeskGoesOn
<1>2. Shape' /\ LedgerSound'
  BY <1>1 DEF RowsGoOn, LedgerGoesOn, IInv, Shape
<1>3. \A m \in Mail : Excused(m) => Excused(m)'
  BY <1>1, ExcusesStay DEF RowsGoOn, LedgerGoesOn
<1>4. CursorSound'
  BY <1>1, <1>3 DEF IInv, CursorSound
<1>5. \A s \in Syncs : SyncSound(s)'
  BY <1>1, <1>3, OthersSound DEF IInv
<1>6. RowsSound'
  <2>1. ASSUME NEW m \in Mail, rows'[m] # << >>
        PROVE  RefOf[m] \in Refs
    BY <2>1, <1>1 DEF RowsGoOn, IInv, RowsSound
  <2>2. ASSUME NEW m \in Mail, NEW k \in 1..Len(rows'[m]), rows'[m][k] = "FILED"
        PROVE  Stored(RefOf[m])'
    <3>1. k \in 1..Len(rows[m])
      BY <1>1 DEF RowsGoOn
    <3>2. RefOf[m] \in Refs
      BY <3>1, RowHasRef DEF IInv
    <3>3. Stored(RefOf[m])
      BY <1>1, <2>2, <3>1 DEF RowsGoOn, IInv, RowsSound
    <3>. QED
      BY <3>2, <3>3, <1>1 DEF LedgerGoesOn
  <2>. QED
    BY <2>1, <2>2 DEF RowsSound
<1>. QED
  BY <1>1, <1>2, <1>4, <1>5, <1>6 DEF IInv

-----------------------------------------------------------------------------
(* A sync. *)

(* What one sync's step may do to everything but its own account. *)
StepOf(s) ==
  /\ \E w \in SyncShape : sync' = [sync EXCEPT ![s] = w]
  /\ LedgerGoesOn /\ \A v \in Writers \ {s} : pending'[v] = pending[v]
  /\ UNCHANGED <<arrived, desk>>
  /\ rows' \in [Mail -> Seq(RowStates)]
  /\ \A m \in Mail : rows[m] # << >> => rows'[m] # << >>
  /\ RowsSound' /\ DeskSound'
  /\ failed \subseteq failed' /\ gap \subseteq gap'

LEMMA StepKeeps ==
  ASSUME IInv, NEW s \in Syncs, StepOf(s), SyncSound(s)',
         cursor' \in {Unseeded} \cup 0..MaxMail, CursorSound'
  PROVE  IInv'
<1>1. Shape' /\ LedgerSound'
  BY DEF IInv, Shape, StepOf, LedgerGoesOn
<1>2. \A m \in Mail : Excused(m) => Excused(m)'
  BY ExcusesStay DEF StepOf, LedgerGoesOn
<1>3. \A t \in Syncs : SyncSound(t)'
  <2>1. ASSUME NEW t \in Syncs, t # s PROVE sync'[t] = sync[t] /\ pending'[t] = pending[t]
    BY <2>1 DEF StepOf, IInv, Shape, Writers
  <2>. QED
    BY <2>1, <1>2, OthersSound DEF IInv
<1>. QED
  BY <1>1, <1>3 DEF IInv, StepOf

(* Steps that move nothing but the sync itself. *)
Quiet(s) == Start(s) \/ ListPage(s) \/ ListFails(s) \/ TooOld(s) \/ SeedRead(s)

LEMMA QuietLeaves ==
  ASSUME IInv, NEW s \in Syncs, Quiet(s)
  PROVE  UNCHANGED <<arrived, cursor, ledger, rows, desk, failed, gap>>
BY DEF Quiet, Start, ListPage, ListFails, TooOld, SeedRead, mailbox, inbox, ghosts

(* A step that moves the sync and its hold on a payment at most. *)
LEMMA SyncAlone ==
  ASSUME IInv, NEW s \in Syncs, UNCHANGED <<arrived, cursor, rows, desk, failed, gap>>,
         LedgerGoesOn, \A v \in Writers \ {s} : pending'[v] = pending[v],
         NEW w \in SyncShape, Goes(s, w), SyncSound(s)'
  PROVE  IInv'
<1>1. RowsSound' /\ DeskSound'
  <2>1. pending'[Admin] = pending[Admin]
    BY ConstantsAssumption DEF Writers
  <2>. QED
    BY <2>1, RowsAndDeskStay DEF IInv, LedgerGoesOn
<1>2. StepOf(s)
  BY <1>1 DEF StepOf, Goes, IInv, Shape
<1>3. \A m \in Mail : Excused(m) => Excused(m)'
  BY ExcusesStay DEF LedgerGoesOn
<1>4. CursorSound' /\ cursor' \in {Unseeded} \cup 0..MaxMail
  BY <1>3 DEF IInv, Shape, CursorSound
<1>. QED
  BY <1>2, <1>4, StepKeeps

LEMMA QuietSteps ==
  ASSUME IInv, NEW s \in Syncs, UNCHANGED <<arrived, cursor, ledger, rows, desk, failed, gap>>,
         NEW w \in SyncShape, Goes(s, w), SyncSound(s)'
  PROVE  IInv'
<1>1. LedgerGoesOn /\ pending' = pending
  BY LedgerAlone DEF IInv, Shape
<1>. QED
  BY <1>1, SyncAlone

LEMMA IdleIsSound ==
  ASSUME Shape, NEW s \in Syncs, Goes(s, Idle)
  PROVE  Idle \in SyncShape /\ SyncSound(s)'
<1>1. Idle \in SyncShape
  BY ConstantsAssumption DEF Idle, SyncShape
<1>2. sync'[s] = Idle
  BY DEF Goes, Shape
<1>. QED
  BY <1>1, <1>2 DEF SyncSound, AccountSound, InsertSound, Idle

LEMMA QuietKeeps ==
  ASSUME IInv, NEW s \in Syncs, Quiet(s)
  PROVE  IInv'
<1>1. MaxMail \in Nat /\ Shape /\ SyncSound(s) /\ CursorSound /\ sync[s] \in SyncShape
  BY ConstantsAssumption DEF IInv, Shape
<1>2. UNCHANGED <<arrived, cursor, ledger, rows, desk, failed, gap>>
  BY QuietLeaves
<1>3. \A m \in Mail : Excused(m) => Excused(m)'
  BY <1>2 DEF ledger, Excused, Handled, Stored
<1>4. ASSUME Goes(s, Idle) PROVE IInv'
  BY <1>1, <1>2, <1>4, IdleIsSound, QuietSteps
<1>5. CASE Start(s)
  <2>1. CASE cursor = Unseeded
    <3>1. PICK w : w = [Idle EXCEPT !.step = "SEED"]
      OBVIOUS
    <3>2. Goes(s, w) /\ w \in SyncShape
      <4>1. Goes(s, w)
        BY <3>1, <2>1, <1>5 DEF Start
      <4>2. w = [step |-> "SEED", at |-> 0, todo |-> {}, newest |-> 0, failed |-> FALSE]
        BY <3>1 DEF Idle
      <4>. QED
        BY <4>1, <4>2, <1>1 DEF SyncShape
    <3>3. sync'[s] = w
      BY <3>2, <1>1 DEF Goes, Shape
    <3>4. SyncSound(s)'
      BY <3>1, <3>3 DEF SyncSound, AccountSound, InsertSound, Idle
    <3>. QED
      BY <3>2, <3>4, <1>2, QuietSteps
  <2>2. CASE cursor # Unseeded
    <3>1. PICK w : w = [Idle EXCEPT !.step = "LIST", !.at = cursor, !.newest = cursor]
      OBVIOUS
    <3>2. Goes(s, w) /\ w \in SyncShape
      BY <3>1, <2>2, <1>5, <1>1 DEF Start, Idle, SyncShape, Shape
    <3>3. sync'[s] = w
      BY <3>2, <1>1 DEF Goes, Shape
    <3>4. w.step = "LIST" /\ w.at = cursor /\ w.todo = {}
      BY <3>1 DEF Idle
    <3>5. SyncSound(s)'
      BY <3>3, <3>4, <1>1, <1>3 DEF SyncSound, AccountSound, InsertSound, CursorSound
    <3>. QED
      BY <3>2, <3>5, <1>2, QuietSteps
  <2>. QED
    BY <2>1, <2>2
<1>6. CASE ListPage(s)
  <2>1. PICK upTo : upTo = IF sync[s].at + PageSize < arrived THEN sync[s].at + PageSize ELSE arrived
    OBVIOUS
  <2>2. PICK w : w = [sync[s] EXCEPT !.todo = @ \cup {m \in sync[s].at + 1..upTo : RefOf[m] # NoRef},
                                     !.at = upTo,
                                     !.newest = arrived,
                                     !.step = IF upTo = arrived THEN "FETCH" ELSE "LIST"]
    OBVIOUS
  <2>3. Goes(s, w) /\ sync[s].step = "LIST"
    BY <2>1, <2>2, <1>6 DEF ListPage
  <2>4. upTo \in 0..MaxMail /\ arrived \in 0..MaxMail /\ sync[s].at \in 0..MaxMail
    BY <2>1, <1>1, ConstantsAssumption DEF Shape, SyncShape
  <2>5. /\ w.todo = sync[s].todo \cup {m \in sync[s].at + 1..upTo : RefOf[m] # NoRef}
        /\ w.at = upTo /\ w.newest = arrived
        /\ w.step = IF upTo = arrived THEN "FETCH" ELSE "LIST"
    BY <2>2, <1>1 DEF SyncShape
  <2>6. {m \in sync[s].at + 1..upTo : RefOf[m] # NoRef} \in SUBSET Mail
    BY <2>4, <1>1 DEF Mail
  <2>7. w \in SyncShape
    BY <2>2, <2>4, <2>6, <1>1 DEF SyncShape
  <2>8. sync'[s] = w
    BY <2>3, <1>1 DEF Goes, Shape
  <2>9. \A m \in w.todo : RefOf[m] \in Refs
    BY <2>5, <2>6, <1>1, ConstantsAssumption DEF SyncSound, AccountSound, InsertSound
  <2>10. \A m \in Mail : m <= w.at => m \in w.todo \/ Excused(m)'
    <3>1. ASSUME NEW m \in Mail, m <= upTo PROVE m \in w.todo \/ Excused(m)'
      <4>1. CASE m <= sync[s].at
        BY <4>1, <2>3, <2>5, <1>1, <1>3 DEF SyncSound, AccountSound, InsertSound
      <4>2. CASE ~(m <= sync[s].at)
        <5>1. m \in sync[s].at + 1..upTo
          BY <4>2, <3>1, <2>4, <1>1 DEF Mail
        <5>. QED
          BY <5>1, <2>5 DEF Excused
      <4>. QED
        BY <4>1, <4>2
    <3>. QED
      BY <3>1, <2>5
  <2>11. SyncSound(s)'
    BY <2>5, <2>8, <2>9, <2>10 DEF SyncSound, AccountSound, InsertSound
  <2>. QED
    BY <2>3, <2>7, <2>11, <1>2, QuietSteps
<1>7. CASE ListFails(s)
  BY <1>7, <1>4 DEF ListFails, AfterListFails
<1>8. CASE TooOld(s)
  <2>1. PICK w : w = [sync[s] EXCEPT !.step = "SEED"]
    OBVIOUS
  <2>2. Goes(s, w) /\ w \in SyncShape
    BY <2>1, <1>8, <1>1 DEF TooOld, AfterTooOld, SyncShape
  <2>3. sync'[s] = w /\ w.step = "SEED" /\ w.todo = sync[s].todo
    BY <2>1, <2>2, <1>1 DEF Goes, Shape, SyncShape
  <2>4. SyncSound(s)'
    BY <2>3, <1>1 DEF SyncSound, AccountSound, InsertSound
  <2>. QED
    BY <2>2, <2>4, <1>2, QuietSteps
<1>9. CASE SeedRead(s)
  <2>1. CASE arrived = 0
    BY <2>1, <1>9, <1>4 DEF SeedRead
  <2>2. CASE arrived # 0
    <3>1. PICK w : w = [Idle EXCEPT !.step = "SEEDED", !.at = arrived]
      OBVIOUS
    <3>2. Goes(s, w) /\ w \in SyncShape
      <4>1. Goes(s, w)
        BY <3>1, <2>2, <1>9 DEF SeedRead
      <4>2. w = [step |-> "SEEDED", at |-> arrived, todo |-> {}, newest |-> 0, failed |-> FALSE]
        BY <3>1 DEF Idle
      <4>. QED
        BY <4>1, <4>2, <1>1 DEF SyncShape, Shape
    <3>3. sync'[s] = w
      BY <3>2, <1>1 DEF Goes, Shape
    <3>4. SyncSound(s)'
      BY <3>1, <3>3 DEF SyncSound, AccountSound, InsertSound, Idle
    <3>. QED
      BY <3>2, <3>4, <1>2, QuietSteps
  <2>. QED
    BY <2>1, <2>2
<1>. QED
  BY <1>5, <1>6, <1>7, <1>8, <1>9 DEF Quiet

-----------------------------------------------------------------------------
(* The steps of a sync that leave something behind. *)

LEMMA SeedKeeps ==
  ASSUME IInv, NEW s \in Syncs, SeedWrite(s)
  PROVE  IInv'
<1>1. MaxMail \in Nat /\ Shape /\ CursorSound /\ sync[s] \in SyncShape
  BY ConstantsAssumption DEF IInv, Shape
<1>2. /\ Goes(s, Idle) /\ cursor' = sync[s].at /\ gap' = gap \cup 1..sync[s].at
      /\ UNCHANGED <<arrived, ledger, rows, desk, failed>>
  BY DEF SeedWrite, mailbox, inbox
<1>3. Idle \in SyncShape /\ SyncSound(s)'
  BY <1>1, <1>2, IdleIsSound
<1>4. StepOf(s)
  <2>1. LedgerGoesOn /\ pending' = pending
    BY <1>1, <1>2, LedgerAlone DEF IInv, Shape
  <2>2. RowsSound' /\ DeskSound'
    BY <1>2, <2>1, RowsAndDeskStay DEF IInv, LedgerGoesOn
  <2>. QED
    BY <1>1, <1>2, <1>3, <2>1, <2>2 DEF StepOf, Goes, IInv, Shape
<1>5. sync[s].at \in 0..MaxMail
  BY <1>1 DEF SyncShape
<1>6. CursorSound'
  <2>1. cursor' # Unseeded
    BY <1>2, <1>5, <1>1 DEF Unseeded
  <2>2. \A m \in Mail : m <= cursor' => m \in gap'
    BY <1>2, <1>5, <1>1 DEF Mail
  <2>. QED
    BY <2>1, <2>2 DEF CursorSound, Excused
<1>. QED
  BY <1>2, <1>3, <1>4, <1>5, <1>6, StepKeeps

LEMMA FinishKeeps ==
  ASSUME IInv, NEW s \in Syncs, Finish(s)
  PROVE  IInv'
<1>1. MaxMail \in Nat /\ Shape /\ CursorSound /\ SyncSound(s) /\ sync[s] \in SyncShape
  BY ConstantsAssumption DEF IInv, Shape
<1>2. /\ Goes(s, Idle) /\ cursor' = sync[s].newest
      /\ sync[s].step = "FETCH" /\ sync[s].todo = {}
      /\ UNCHANGED <<arrived, ledger, rows, desk, failed, gap>>
  BY DEF Finish, mailbox, inbox, ghosts
<1>3. Idle \in SyncShape /\ SyncSound(s)'
  BY <1>1, <1>2, IdleIsSound
<1>4. StepOf(s)
  <2>1. LedgerGoesOn /\ pending' = pending
    BY <1>1, <1>2, LedgerAlone DEF IInv, Shape
  <2>2. RowsSound' /\ DeskSound'
    BY <1>2, <2>1, RowsAndDeskStay DEF IInv, LedgerGoesOn
  <2>. QED
    BY <1>1, <1>2, <1>3, <2>1, <2>2 DEF StepOf, Goes, IInv, Shape
<1>5. sync[s].newest \in 0..MaxMail /\ sync[s].newest = sync[s].at
  BY <1>1, <1>2 DEF SyncShape, SyncSound, AccountSound
<1>6. CursorSound'
  <2>1. cursor' # Unseeded
    BY <1>2, <1>5, <1>1 DEF Unseeded
  <2>2. \A m \in Mail : m <= cursor' => Excused(m)
    BY <1>1, <1>2, <1>5 DEF SyncSound, AccountSound
  <2>. QED
    BY <2>1, <2>2, <1>2 DEF CursorSound, Excused, Handled, Stored, ledger
<1>. QED
  BY <1>2, <1>3, <1>4, <1>5, <1>6, StepKeeps

(* The sync is through with its next message, and goes on to the one after. *)
LEMMA DoneIsSound ==
  ASSUME Shape, NEW s \in Syncs, SyncSound(s), sync[s].todo # {},
         sync[s].step \in {"FETCH", "INSERT", "FILE"},
         NEW w, w.step = "FETCH", w.at = sync[s].at, w.newest = sync[s].newest,
         NEW n, w.todo = sync[s].todo \ {n}, sync'[s] = w,
         \A m \in Mail : Excused(m) => Excused(m)', Excused(n)'
  PROVE  SyncSound(s)'
<1>1. \A m \in w.todo : m \in sync[s].todo
  OBVIOUS
<1>2. \A m \in Mail : m <= w.at => m \in w.todo \/ Excused(m)'
  <2>1. Excused(n)'
    OBVIOUS
  <2>2. \A m \in sync[s].todo : m # n => m \in w.todo
    OBVIOUS
  <2>3. \A m \in Mail : m <= w.at => m \in sync[s].todo \/ Excused(m)
    BY DEF SyncSound, AccountSound
  <2>. QED
    BY <2>1, <2>2, <2>3
<1>. QED
  BY <1>1, <1>2 DEF SyncSound, AccountSound, InsertSound

LEMMA DoneHasShape ==
  ASSUME NEW w \in SyncShape
  PROVE  /\ Done(w) \in SyncShape
         /\ Done(w).step = "FETCH" /\ Done(w).at = w.at /\ Done(w).newest = w.newest
         /\ Done(w).todo = w.todo \ {Min(w.todo)}
BY DEF Done, SyncShape

LEMMA IngestKeeps ==
  ASSUME IInv, NEW s \in Syncs, Ingest(s)
  PROVE  IInv'
<1>1. /\ Shape /\ LedgerShape /\ LedgerSound /\ CursorSound /\ SyncSound(s) /\ sync[s] \in SyncShape
      /\ s \in Writers
  BY DEF IInv, Shape, Writers
<1>2. PICK m : m = Min(sync[s].todo)
  OBVIOUS
<1>3. m \in sync[s].todo /\ m \in Mail /\ RefOf[m] \in Refs
  BY <1>1, <1>2, NextIsToDo DEF Ingest, SyncShape, SyncSound, AccountSound
<1>4. sync[s].step = "FETCH" /\ UNCHANGED <<arrived, cursor, rows, desk, failed, gap>>
  BY DEF Ingest, mailbox, ghosts
<1>5. \/ Looks(s, RefOf[m]) /\ Missing(RefOf[m]) /\ Goes(s, [sync[s] EXCEPT !.step = "INSERT"])
      \/ Looks(s, RefOf[m]) /\ ~Missing(RefOf[m]) /\ Goes(s, Done(sync[s]))
      \/ UNCHANGED ledger /\ HasRow(m, "OPEN") /\ Goes(s, Done(sync[s]))
      \/ UNCHANGED ledger /\ Goes(s, [sync[s] EXCEPT !.step = "FILE"])
  BY <1>2 DEF Ingest
<1>6. /\ LedgerGoesOn /\ \A v \in Writers \ {s} : pending'[v] = pending[v]
      /\ Looks(s, RefOf[m]) /\ Missing(RefOf[m]) => RefOf[m] \in Payments /\ pending'[s] = RefOf[m]
      /\ Looks(s, RefOf[m]) /\ ~Missing(RefOf[m]) => Stored(RefOf[m])'
  BY <1>1, <1>3, <1>5, LooksGoesOn, LedgerAlone
<1>7. \A n \in Mail : Excused(n) => Excused(n)'
  BY <1>4, <1>6, ExcusesStay DEF LedgerGoesOn
<1>8. ASSUME NEW w \in SyncShape, Goes(s, w), SyncSound(s)' PROVE IInv'
  BY <1>4, <1>6, <1>8, SyncAlone
<1>9. ASSUME Goes(s, Done(sync[s])), Excused(m)' PROVE IInv'
  <2>1. PICK w : w = Done(sync[s])
    OBVIOUS
  <2>2. /\ w \in SyncShape /\ w.step = "FETCH" /\ w.at = sync[s].at /\ w.newest = sync[s].newest
        /\ w.todo = sync[s].todo \ {m}
    BY <2>1, <1>1, <1>2, DoneHasShape
  <2>3. Goes(s, w) /\ sync'[s] = w
    BY <2>1, <1>9, <1>1 DEF Goes, Shape
  <2>4. SyncSound(s)'
    BY <2>2, <2>3, <1>1, <1>3, <1>4, <1>7, <1>9, DoneIsSound
  <2>. QED
    BY <2>2, <2>3, <2>4, <1>8
<1>10. ASSUME NEW step \in {"INSERT", "FILE"}, Goes(s, [sync[s] EXCEPT !.step = step]),
              step = "INSERT" => pending'[s] = RefOf[m] /\ pending'[s] \in Payments
       PROVE  IInv'
  <2>1. PICK w : w = [sync[s] EXCEPT !.step = step]
    OBVIOUS
  <2>2. /\ w \in SyncShape /\ w.step = step /\ w.at = sync[s].at /\ w.newest = sync[s].newest
        /\ w.todo = sync[s].todo
    BY <2>1, <1>1 DEF SyncShape
  <2>3. Goes(s, w) /\ sync'[s] = w
    BY <2>1, <1>10, <1>1 DEF Goes, Shape
  <2>4. AccountSound(s)'
    BY <2>2, <2>3, <1>1, <1>3, <1>4, <1>7 DEF SyncSound, AccountSound
  <2>5. InsertSound(s)'
    BY <2>2, <2>3, <1>2, <1>10 DEF InsertSound
  <2>. QED
    BY <2>2, <2>3, <2>4, <2>5, <1>8 DEF SyncSound
<1>11. CASE Looks(s, RefOf[m]) /\ Missing(RefOf[m]) /\ Goes(s, [sync[s] EXCEPT !.step = "INSERT"])
  BY <1>6, <1>10, <1>11
<1>12. CASE Looks(s, RefOf[m]) /\ ~Missing(RefOf[m]) /\ Goes(s, Done(sync[s]))
  BY <1>3, <1>6, <1>9, <1>12 DEF Excused, Handled
<1>13. CASE UNCHANGED ledger /\ HasRow(m, "OPEN") /\ Goes(s, Done(sync[s]))
  <2>1. rows[m] # << >>
    BY <1>13, EmptySeq DEF HasRow
  <2>. QED
    BY <2>1, <1>4, <1>9, <1>13 DEF Excused, Handled
<1>14. CASE UNCHANGED ledger /\ Goes(s, [sync[s] EXCEPT !.step = "FILE"])
  BY <1>10, <1>14
<1>. QED
  BY <1>5, <1>11, <1>12, <1>13, <1>14

LEMMA InsertKeeps ==
  ASSUME IInv, NEW s \in Syncs, InsertPayment(s)
  PROVE  IInv'
<1>1. /\ Shape /\ LedgerShape /\ LedgerSound /\ SyncSound(s) /\ sync[s] \in SyncShape
      /\ s \in Writers
  BY DEF IInv, Shape, Writers
<1>2. PICK m : m = Min(sync[s].todo)
  OBVIOUS
<1>3. /\ sync[s].step = "INSERT" /\ Inserts(s) /\ Goes(s, Done(sync[s]))
      /\ UNCHANGED <<arrived, cursor, rows, desk, failed, gap>>
  BY DEF InsertPayment, mailbox, ghosts
<1>4. /\ sync[s].todo # {} /\ m \in sync[s].todo /\ m \in Mail /\ RefOf[m] \in Refs
      /\ pending[s] = RefOf[m] /\ pending[s] \in Payments
  BY <1>1, <1>2, <1>3, NextIsToDo DEF SyncShape, SyncSound, AccountSound, InsertSound
<1>5. /\ LedgerGoesOn /\ \A v \in Writers \ {s} : pending'[v] = pending[v]
      /\ Stored(RefOf[m])'
  BY <1>1, <1>3, <1>4, InsertsGoesOn
<1>6. \A n \in Mail : Excused(n) => Excused(n)'
  BY <1>3, <1>5, ExcusesStay DEF LedgerGoesOn
<1>7. Excused(m)'
  BY <1>4, <1>5 DEF Excused, Handled
<1>8. PICK w : w = Done(sync[s])
  OBVIOUS
<1>9. /\ w \in SyncShape /\ w.step = "FETCH" /\ w.at = sync[s].at /\ w.newest = sync[s].newest
      /\ w.todo = sync[s].todo \ {m}
  BY <1>8, <1>1, <1>2, DoneHasShape
<1>10. Goes(s, w) /\ sync'[s] = w
  BY <1>8, <1>3, <1>1 DEF Goes, Shape
<1>11. SyncSound(s)'
  BY <1>9, <1>10, <1>1, <1>3, <1>4, <1>6, <1>7, DoneIsSound
<1>. QED
  BY <1>3, <1>5, <1>9, <1>10, <1>11, SyncAlone

LEMMA DyingKeeps ==
  ASSUME IInv, NEW s \in Syncs, Die(s)
  PROVE  IInv'
<1>1. /\ GivesUp(s) /\ Goes(s, Idle) /\ UNCHANGED <<made, deleted, raced>>
      /\ UNCHANGED <<arrived, cursor, rows, desk, failed, gap>>
  BY DEF Die, mailbox, ghosts
<1>2. LedgerGoesOn /\ \A v \in Writers \ {s} : pending'[v] = pending[v]
  BY <1>1, GivingUpGoesOn DEF IInv, Shape, Writers
<1>3. Idle \in SyncShape /\ SyncSound(s)'
  BY <1>1, IdleIsSound DEF IInv
<1>. QED
  BY <1>1, <1>2, <1>3, SyncAlone

(* A step that files the next message, or notes that it could not be. *)
LEMMA FileKeeps ==
  ASSUME IInv, NEW s \in Syncs, File(s)
  PROVE  IInv'
<1>1. Shape /\ CursorSound /\ SyncSound(s) /\ sync[s] \in SyncShape /\ RowsSound /\ DeskSound
  BY DEF IInv, Shape
<1>2. PICK m : m = Min(sync[s].todo)
  OBVIOUS
<1>3. m \in sync[s].todo /\ m \in Mail /\ RefOf[m] \in Refs /\ sync[s].todo # {}
  BY <1>1, <1>2, NextIsToDo DEF File, SyncShape, SyncSound, AccountSound
<1>4. /\ sync[s].step = "FILE" /\ UNCHANGED <<arrived, cursor, ledger, desk, failed, gap>>
      /\ rows' = [rows EXCEPT ![m] = Append(rows[m], "OPEN")] /\ Goes(s, Done(sync[s]))
  BY <1>2 DEF File, mailbox, ghosts
<1>5. rows[m] \in Seq(RowStates) /\ "OPEN" \in RowStates
  BY <1>1, <1>3 DEF Shape, RowStates
<1>6. PICK longer : longer = Append(rows[m], "OPEN")
  OBVIOUS
<1>7. /\ longer \in Seq(RowStates) /\ Len(longer) = Len(rows[m]) + 1 /\ longer # << >>
      /\ \A k \in 1..Len(rows[m]) : longer[k] = rows[m][k]
      /\ longer[Len(rows[m]) + 1] = "OPEN"
  BY <1>5, <1>6, AppendProperties, EmptySeq
<1>8. rows' = [rows EXCEPT ![m] = longer]
  BY <1>4, <1>6
<1>9. rows' \in [Mail -> Seq(RowStates)] /\ \A n \in Mail : rows[n] # << >> => rows'[n] # << >>
  BY <1>1, <1>3, <1>7, <1>8 DEF Shape
<1>9a. LedgerGoesOn /\ pending' = pending
  BY <1>1, <1>4, LedgerAlone DEF Shape, IInv
<1>10. RowsSound'
  <2>1. ASSUME NEW n \in Mail, n # m
        PROVE  /\ rows'[n] # << >> => RefOf[n] \in Refs
               /\ \A k \in 1..Len(rows'[n]) : rows'[n][k] = "FILED" => Stored(RefOf[n])
    BY <2>1, <1>1, <1>8 DEF RowsSound, Shape
  <2>2. ASSUME NEW k \in 1..Len(rows'[m]), rows'[m][k] = "FILED"
        PROVE  Stored(RefOf[m])
    <3>1. rows'[m] = longer
      BY <1>1, <1>3, <1>8 DEF Shape
    <3>2. k \in 1..Len(rows[m])
      BY <2>2, <3>1, <1>5, <1>7, LenProperties
    <3>. QED
      BY <2>2, <3>1, <3>2, <1>1, <1>3, <1>7 DEF RowsSound
  <2>3. \A n \in Mail : Stored(RefOf[n]) => Stored(RefOf[n])'
    BY <1>4 DEF ledger, Stored
  <2>. QED
    BY <2>1, <2>2, <2>3, <1>3 DEF RowsSound
<1>11. DeskSound'
  <2>1. \A n \in Mail : \A k \in 1..Len(rows[n]) : k \in 1..Len(rows'[n])
    BY <1>1, <1>3, <1>5, <1>7, <1>8, LenProperties DEF Shape
  <2>2. Stored(RefOf[desk.of]) => Stored(RefOf[desk.of])'
    BY <1>4 DEF ledger, Stored
  <2>. QED
    BY <2>1, <2>2, <1>1, <1>4, <1>9a DEF DeskSound
<1>12. \A n \in Mail : Excused(n) => Excused(n)'
  BY <1>4, <1>9, <1>9a, ExcusesStay DEF LedgerGoesOn
<1>13. Excused(m)'
  BY <1>1, <1>3, <1>7, <1>8 DEF Excused, Handled, Shape
<1>14. CursorSound' /\ cursor' \in {Unseeded} \cup 0..MaxMail
  BY <1>1, <1>4, <1>12 DEF CursorSound, Shape
<1>15. PICK w : w = Done(sync[s])
  OBVIOUS
<1>16. /\ w \in SyncShape /\ w.step = "FETCH" /\ w.at = sync[s].at /\ w.newest = sync[s].newest
       /\ w.todo = sync[s].todo \ {m}
  BY <1>15, <1>1, <1>2, DoneHasShape
<1>17. Goes(s, w) /\ sync'[s] = w
  BY <1>15, <1>4, <1>1 DEF Goes, Shape
<1>18. SyncSound(s)'
  BY <1>16, <1>17, <1>13, <1>1, <1>3, <1>4, <1>12, DoneIsSound
<1>19. StepOf(s)
  BY <1>1, <1>4, <1>9, <1>9a, <1>10, <1>11, <1>16, <1>17 DEF StepOf, Goes, Shape
<1>. QED
  BY <1>14, <1>18, <1>19, StepKeeps

LEMMA FailureKeeps ==
  ASSUME IInv, NEW s \in Syncs, IngestFails(s)
  PROVE  IInv'
<1>1. Shape /\ CursorSound /\ SyncSound(s) /\ sync[s] \in SyncShape /\ RowsSound /\ DeskSound
  BY DEF IInv, Shape
<1>2. PICK m : m = Min(sync[s].todo)
  OBVIOUS
<1>3. m \in Mail /\ sync[s].todo # {} /\ sync[s].step \in {"FETCH", "INSERT", "FILE"}
  BY <1>1, <1>2, NextIsToDo DEF IngestFails, SyncShape
<1>4. /\ UNCHANGED <<arrived, cursor, made, deleted, raced, rows, desk, gap>> /\ GivesUp(s)
      /\ failed' = failed \cup {m} /\ Goes(s, [Done(sync[s]) EXCEPT !.failed = TRUE])
  BY <1>2 DEF IngestFails, mailbox, inbox
<1>5. /\ LedgerGoesOn /\ \A v \in Writers \ {s} : pending'[v] = pending[v]
      /\ RowsSound' /\ DeskSound'
  <2>1. LedgerGoesOn /\ \A v \in Writers \ {s} : pending'[v] = pending[v]
    BY <1>4, GivingUpGoesOn DEF IInv, Shape, Writers
  <2>2. pending'[Admin] = pending[Admin]
    BY <2>1, ConstantsAssumption DEF Writers
  <2>. QED
    BY <1>1, <1>4, <2>1, <2>2, RowsAndDeskStay DEF LedgerGoesOn
<1>6. \A n \in Mail : Excused(n) => Excused(n)'
  BY <1>4, <1>5, ExcusesStay DEF LedgerGoesOn
<1>7. Excused(m)'
  BY <1>4 DEF Excused
<1>8. CursorSound' /\ cursor' \in {Unseeded} \cup 0..MaxMail
  BY <1>1, <1>4, <1>6 DEF CursorSound, Shape
<1>9. PICK v : v = Done(sync[s])
  OBVIOUS
<1>10. PICK w : w = [v EXCEPT !.failed = TRUE]
  OBVIOUS
<1>11. /\ v \in SyncShape /\ v.step = "FETCH" /\ v.at = sync[s].at /\ v.newest = sync[s].newest
       /\ v.todo = sync[s].todo \ {m}
  BY <1>9, <1>1, <1>2, DoneHasShape
<1>12. /\ w \in SyncShape /\ w.step = "FETCH" /\ w.at = sync[s].at /\ w.newest = sync[s].newest
       /\ w.todo = sync[s].todo \ {m}
  BY <1>10, <1>11 DEF SyncShape
<1>13. Goes(s, w) /\ sync'[s] = w
  BY <1>9, <1>10, <1>4, <1>1 DEF Goes, Shape
<1>14. SyncSound(s)'
  BY <1>12, <1>13, <1>7, <1>1, <1>3, <1>6, DoneIsSound
<1>15. StepOf(s)
  BY <1>1, <1>4, <1>5, <1>12, <1>13 DEF StepOf, Goes, Shape
<1>. QED
  BY <1>8, <1>14, <1>15, StepKeeps

-----------------------------------------------------------------------------
(* The theorems. *)

LEMMA StepSound == IInv /\ [Next]_vars => IInv'
<1> SUFFICES ASSUME IInv, [Next]_vars PROVE IInv'
  OBVIOUS
<1>1. CASE WorldStep
  BY <1>1, WorldKeeps
<1>2. CASE DeskStep
  BY <1>2, DeskKeeps
<1>3. ASSUME NEW s \in Syncs, SyncStep(s) \/ SyncFault(s)
      PROVE  IInv'
  BY <1>3, QuietKeeps, SeedKeeps, FinishKeeps, IngestKeeps, InsertKeeps, FileKeeps, FailureKeeps,
     DyingKeeps
  DEF SyncStep, SyncFault, Quiet
<1>4. CASE UNCHANGED vars
  BY <1>4 DEF vars, mailbox, inbox, ledger, ghosts, counts, IInv, Shape, LedgerShape, LedgerSound,
              CursorSound, SyncSound, AccountSound, InsertSound, RowsSound, DeskSound, Excused,
              Handled, Stored
<1>. QED
  BY <1>1, <1>2, <1>3, <1>4 DEF Next, WorldStep, DeskStep

(* The account the syncs give of the mail holds in every reachable state. *)
THEOREM AllSound == Spec => []IInv
<1>1. Init => IInv
  BY InitSound
<1>2. IInv /\ [Next]_vars => IInv'
  BY StepSound
<1>. QED
  BY <1>1, <1>2, PTL DEF Spec

(* insertOrder and recordPayment: whoever stores a mail's order or payment,   *)
(* and however often, there is one, unless the ledger of payments has no     *)
(* unique index and two were between its look and its insert at once.        *)
THEOREM MailStoredOnce == Spec => []StoredOnce
<1>1. IInv => StoredOnce
  BY DEF IInv, LedgerSound, StoredOnce
<1>. QED
  BY <1>1, AllSound, PTL

(* syncGmailHistory: the cursor passes no message that is neither filed, nor  *)
(* failed in a sync's hands, nor behind a seeded cursor.                      *)
THEOREM NoMailSkipped == Spec => []NothingSkipped
<1>1. IInv => NothingSkipped
  BY DEF IInv, CursorSound, Excused, NothingSkipped
<1>. QED
  BY <1>1, AllSound, PTL

(* reingestInboxRow and reopenInboxRow: a row that became an order or a       *)
(* payment stays closed, and what it became was stored, deleted or not.      *)
THEOREM ResolvedRowsStay == Spec => ResolvedStays
<1> DEFINE Stays ==
  \A m \in Mail : \A k \in 1..Len(rows[m]) :
    rows[m][k] = "FILED" => rows'[m][k] = "FILED" /\ Stored(RefOf[m])
<1>1. IInv /\ [Next]_vars => [Stays]_vars
  <2> SUFFICES ASSUME IInv, Next PROVE Stays
    OBVIOUS
  <2>1. \A m \in Mail : \A k \in 1..Len(rows[m]) : rows[m][k] = "FILED" => Stored(RefOf[m])
    BY DEF IInv, RowsSound
  <2>2. CASE DeskStep
    BY <2>1, <2>2, DeskLeaves DEF DeskGoesOn, RowsGoOn
  <2>3. CASE \E s \in Syncs : File(s)
    <3>1. PICK s \in Syncs : File(s)
      BY <2>3
    <3>2. PICK n : n = Min(sync[s].todo)
      OBVIOUS
    <3>3. rows' = [rows EXCEPT ![n] = Append(rows[n], "OPEN")] /\ rows \in [Mail -> Seq(RowStates)]
      BY <3>1, <3>2 DEF File, IInv, Shape
    <3>4. ASSUME NEW m \in Mail, NEW k \in 1..Len(rows[m])
          PROVE  rows'[m][k] = rows[m][k]
      <4>1. rows[m] \in Seq(RowStates) /\ "OPEN" \in RowStates
        BY <3>3 DEF RowStates
      <4>2. Append(rows[m], "OPEN")[k] = rows[m][k]
        BY <4>1, AppendProperties
      <4>. QED
        BY <4>2, <3>3
    <3>. QED
      BY <2>1, <3>4
  <2>4. CASE UNCHANGED rows
    BY <2>1, <2>4
  <2>. QED
    BY <2>2, <2>3, <2>4
    DEF Next, DeskStep, SyncStep, SyncFault, Arrive, Forget, RenewWatch, Teach, Start, ListPage,
        TooOld, SeedRead, SeedWrite, Ingest, InsertPayment, Finish, ListFails, IngestFails, Die, inbox
<1>. QED
  BY <1>1, AllSound, PTL DEF Spec, ResolvedStays
=============================================================================
