----------------------- MODULE TrainStatusCache_proofs -----------------------
(***************************************************************************)
(* Proofs about the train status row, for any runs, refreshes, lookups and *)
(* orders, however the calls overlap.                                      *)
(*                                                                         *)
(* Nothing that is true of the row itself is inductive, since an answer    *)
(* that names no timetable may spoil it; what is inductive is that a call  *)
(* whose answer names one is about to write that run's ETA and arrival     *)
(* (CallSound), and from it a step that writes the row is followed from    *)
(* the row it finds to the row it leaves.                                  *)
(***************************************************************************)
EXTENDS TrainStatusCache, TLAPS

-----------------------------------------------------------------------------
(* The orders. *)

OrderShape == [time : {"BOOKED", "RAILWAY", "ADMIN"}, byAdmin : BOOLEAN]

OrdersSound ==
  /\ order \in [Orders -> OrderShape]
  /\ AdminTimeStands

LEMMA OrdersStaySound == OrdersSound /\ [Next]_vars => OrdersSound'
<1> SUFFICES ASSUME OrdersSound, [Next]_vars PROVE OrdersSound'
  OBVIOUS
<1>1. ASSUME NEW o \in Orders, AdminTimes(o) PROVE OrdersSound'
  <2>1. PICK d : d = [order[o] EXCEPT !.time = "ADMIN", !.byAdmin = TRUE]
    OBVIOUS
  <2>2. d \in OrderShape /\ d.time = "ADMIN"
    BY <2>1 DEF OrdersSound, OrderShape
  <2>3. order' = [order EXCEPT ![o] = d]
    BY <1>1, <2>1 DEF AdminTimes, OrdersSound
  <2>. QED
    BY <2>2, <2>3 DEF OrdersSound, AdminTimeStands
<1>2. ASSUME NEW c \in Calls, NEW o \in Orders, MoveOrder(c, o) PROVE OrdersSound'
  BY <1>2 DEF MoveOrder, StillAsRead, Movable, OrdersSound, OrderShape, AdminTimeStands
<1>3. CASE UNCHANGED order
  BY <1>3 DEF OrdersSound, AdminTimeStands
<1>4. CASE World
  BY <1>1, <1>3, <1>4 DEF World, Leave, Rebook, Age, Prune
<1>5. ASSUME NEW c \in Calls, CallStep(c) PROVE OrdersSound'
  <2>1. CASE Moves(c)
    BY <1>2, <1>3, <2>1 DEF Moves, ReadOrders
  <2>2. CASE ~Moves(c)
    <3>1. UNCHANGED order
      BY <1>5, <2>2 DEF CallStep, Ends, Tick, AskNow, LookUp, Begin, MoveFromRow, Answers, Answer,
                        Write, Fail, Die
    <3>. QED
      BY <3>1, <1>3
  <2>. QED
    BY <2>1, <2>2
<1>6. CASE UNCHANGED vars
  BY <1>3, <1>6 DEF vars
<1>. QED
  BY <1>4, <1>5, <1>6 DEF Next

(* systemRescheduleArrivals: the railway's timetable never overrules a time   *)
(* an admin set by hand, however the poll and the admin overlap.              *)
THEOREM AdminTimesStand == Spec => []AdminTimeStands
<1>1. Init => OrdersSound
  BY DEF Init, OrdersSound, OrderShape, AdminTimeStands
<1>2. OrdersSound => AdminTimeStands
  BY DEF OrdersSound
<1>. QED
  BY <1>1, <1>2, OrdersStaySound, PTL DEF Spec

-----------------------------------------------------------------------------
(* The calls. *)

CallShape ==
  [step      : {"IDLE", "ASK", "WRITE", "MOVE", "MOVING"},
   run       : Runs \cup {NoRun},
   timetable : Runs \cup {NoRun},
   eta       : Runs \cup {NoRun},
   learned   : BOOLEAN,
   arrived   : BOOLEAN,
   otherRun  : BOOLEAN,
   seen      : SUBSET Orders]

(* A call asks about a run, and what it is about to write under a timetable is *)
(* of that timetable's run.                                                    *)
OfItsRun(w) ==
  /\ w.step = "ASK" => w.run \in Runs
  /\ w.step = "WRITE" /\ w.timetable # NoRun =>
       /\ w.eta \in {NoRun, w.timetable}
       /\ w.arrived => w.timetable \in gone

IInv ==
  /\ TypeOK
  /\ call \in [Calls -> CallShape]
  /\ \A c \in Calls : OfItsRun(call[c])

LEMMA IdleHasShape == Idle \in CallShape /\ Idle.step = "IDLE"
BY DEF Idle, CallShape

LEMMA InitSound == Init => IInv
BY IdleHasShape DEF Init, IInv, TypeOK, Row, NoRow, OfItsRun

(* Trains leave, bookings move, rows age and go: the calls are as they were. *)
LEMMA WorldKeeps ==
  ASSUME IInv, World
  PROVE  IInv'
<1>1. UNCHANGED call /\ gone \subseteq gone'
  BY DEF World, Leave, Rebook, Age, Prune, AdminTimes
<1>2. TypeOK'
  <2>1. ASSUME NEW r \in Runs, Leave(r) PROVE TypeOK'
    BY <2>1 DEF Leave, IInv, TypeOK
  <2>2. ASSUME NEW r \in Runs \cup {NoRun}, Rebook(r) PROVE TypeOK'
    BY <2>2 DEF Rebook, IInv, TypeOK
  <2>3. CASE Age
    BY <2>3 DEF Age, IInv, TypeOK, Row
  <2>4. CASE Prune
    <3>1. NoRow \in Row
      BY DEF NoRow, Row
    <3>. QED
      BY <2>4, <3>1 DEF Prune, IInv, TypeOK
  <2>5. ASSUME NEW o \in Orders, AdminTimes(o) PROVE TypeOK'
    BY <2>5 DEF AdminTimes, IInv, TypeOK
  <2>. QED
    BY <2>1, <2>2, <2>3, <2>4, <2>5 DEF World
<1>. QED
  BY <1>1, <1>2 DEF IInv, OfItsRun

(* A call that moves on, the row being written or not. *)
LEMMA CallKeeps ==
  ASSUME IInv, UNCHANGED <<booking, gone>>, row' \in Row,
         NEW c \in Calls, NEW w \in CallShape, call' = [call EXCEPT ![c] = w], OfItsRun(w)
  PROVE  IInv'
<1>1. call' \in [Calls -> CallShape] /\ call'[c] = w /\ \A d \in Calls : d # c => call'[d] = call[d]
  BY DEF IInv
<1>2. \A d \in Calls : OfItsRun(call[d])'
  BY <1>1 DEF IInv, OfItsRun
<1>. QED
  BY <1>1, <1>2 DEF IInv, TypeOK

LEMMA BeginKeeps ==
  ASSUME IInv, NEW c \in Calls, NEW r \in Runs, Begin(c, r)
  PROVE  IInv'
<1>1. PICK w : w = [Idle EXCEPT !.step = "ASK", !.run = r]
  OBVIOUS
<1>2. w \in CallShape /\ OfItsRun(w)
  BY <1>1 DEF Idle, CallShape, OfItsRun
<1>3. call' = [call EXCEPT ![c] = w] /\ UNCHANGED <<booking, gone>> /\ row' \in Row
  BY <1>1 DEF Begin, IInv, TypeOK
<1>. QED
  BY <1>2, <1>3, CallKeeps

LEMMA AnswerKeeps ==
  ASSUME IInv, NEW c \in Calls, Answers(c)
  PROVE  IInv'
<1>1. PICK of \in Runs, names \in BOOLEAN, arrived \in BOOLEAN, says \in Says :
        Answer(c, of, names, says, arrived)
  BY DEF Answers
<1>2. PICK timetable : timetable = IF names THEN of ELSE NoRun
  OBVIOUS
<1>3. PICK w : w = [Idle EXCEPT !.step = "WRITE",
                                !.timetable = timetable,
                                !.eta = IF says = "ETA" THEN of ELSE NoRun,
                                !.learned = LearnedSomething(c, says),
                                !.arrived = arrived,
                                !.otherRun = HoldsOtherRun(timetable)]
  OBVIOUS
<1>4. call' = [call EXCEPT ![c] = w] /\ UNCHANGED <<booking, gone>> /\ row' \in Row
  BY <1>1, <1>2, <1>3 DEF Answer, IInv, TypeOK
<1>5. /\ timetable \in Runs \cup {NoRun}
      /\ LearnedSomething(c, says) \in BOOLEAN
      /\ HoldsOtherRun(timetable) \in BOOLEAN
  BY <1>2 DEF LearnedSomething, HoldsOtherRun
<1>6. /\ w \in CallShape /\ w.step = "WRITE"
      /\ w.timetable = timetable /\ w.arrived = arrived
      /\ w.eta = IF says = "ETA" THEN of ELSE NoRun
  BY <1>3, <1>5 DEF Idle, CallShape
<1>7. arrived => of \in gone
  BY <1>1 DEF Answer
<1>8. OfItsRun(w)
  BY <1>2, <1>6, <1>7 DEF OfItsRun
<1>. QED
  BY <1>4, <1>6, <1>8, CallKeeps

LEMMA WrittenIsRow ==
  ASSUME IInv, NEW c \in Calls
  PROVE  Written(c) \in Row
<1>1. call[c] \in CallShape /\ row \in Row
  BY DEF IInv, TypeOK
<1>2. EtaAfter(c) \in Runs \cup {NoRun}
  BY <1>1 DEF EtaAfter, CallShape, Row
<1>. QED
  BY <1>1, <1>2 DEF Written, CallShape, Row

LEMMA EndsKeep ==
  ASSUME IInv, NEW c \in Calls, Ends(c)
  PROVE  IInv'
<1>1. CASE Answers(c)
  BY <1>1, AnswerKeeps
<1>2. CASE Write(c)
  <2>1. PICK w : w = IF c \in Refreshes /\ call[c].timetable # NoRun
                     THEN [Idle EXCEPT !.step = "MOVE"] ELSE Idle
    OBVIOUS
  <2>2. w \in CallShape /\ OfItsRun(w)
    BY <2>1 DEF Idle, CallShape, OfItsRun
  <2>3. call' = [call EXCEPT ![c] = w] /\ UNCHANGED <<booking, gone>> /\ row' \in Row
    BY <1>2, <2>1, WrittenIsRow DEF Write
  <2>. QED
    BY <2>2, <2>3, CallKeeps
<1>3. CASE Fail(c)
  <2>1. call' = [call EXCEPT ![c] = Idle] /\ UNCHANGED <<booking, gone>> /\ row' \in Row
    BY <1>3 DEF Fail, IInv, TypeOK, Row
  <2>2. OfItsRun(Idle)
    BY DEF Idle, OfItsRun
  <2>. QED
    BY <2>1, <2>2, IdleHasShape, CallKeeps
<1>. QED
  BY <1>1, <1>2, <1>3 DEF Ends

LEMMA MovesKeep ==
  ASSUME IInv, NEW c \in Calls, MoveFromRow(c) \/ Moves(c) \/ Die(c)
  PROVE  IInv'
<1>1. call[c] \in CallShape
  BY DEF IInv
<1>2. ASSUME NEW w \in CallShape, call' = [call EXCEPT ![c] = w], w.step \in {"IDLE", "MOVE", "MOVING"},
             UNCHANGED <<booking, gone, row>>
      PROVE  IInv'
  <2>1. OfItsRun(w) /\ row' \in Row
    BY <1>2 DEF OfItsRun, IInv, TypeOK
  <2>. QED
    BY <1>2, <2>1, CallKeeps
<1>3. CASE MoveFromRow(c)
  <2>1. PICK w : w = [Idle EXCEPT !.step = "MOVE"]
    OBVIOUS
  <2>2. w \in CallShape /\ w.step = "MOVE"
    BY <2>1 DEF Idle, CallShape
  <2>3. call' = [call EXCEPT ![c] = w] /\ UNCHANGED <<booking, gone, row>>
    BY <2>1, <1>3 DEF MoveFromRow
  <2>. QED
    BY <2>2, <2>3, <1>2
<1>4. CASE ReadOrders(c)
  <2>1. PICK w : w = IF {o \in Orders : Movable(o)} = {} THEN Idle
                     ELSE [call[c] EXCEPT !.step = "MOVING", !.seen = {o \in Orders : Movable(o)}]
    OBVIOUS
  <2>2. w \in CallShape /\ w.step \in {"IDLE", "MOVING"}
    BY <2>1, <1>1, IdleHasShape DEF CallShape
  <2>3. call' = [call EXCEPT ![c] = w] /\ UNCHANGED <<booking, gone, row>>
    BY <2>1, <1>4 DEF ReadOrders
  <2>. QED
    BY <2>2, <2>3, <1>2
<1>5. ASSUME NEW o \in Orders, MoveOrder(c, o) PROVE IInv'
  <2>1. PICK w : w = IF call[c].seen \ {o} = {} THEN Idle ELSE [call[c] EXCEPT !.seen = call[c].seen \ {o}]
    OBVIOUS
  <2>2. w \in CallShape /\ w.step \in {"IDLE", "MOVING"}
    BY <2>1, <1>1, <1>5, IdleHasShape DEF CallShape, MoveOrder
  <2>3. call' = [call EXCEPT ![c] = w] /\ UNCHANGED <<booking, gone, row>>
    BY <2>1, <1>5 DEF MoveOrder
  <2>. QED
    BY <2>2, <2>3, <1>2
<1>6. CASE Die(c)
  BY <1>6, <1>2, IdleHasShape DEF Die
<1>. QED
  BY <1>3, <1>4, <1>5, <1>6 DEF Moves

LEMMA StepSound == IInv /\ [Next]_vars => IInv'
<1> SUFFICES ASSUME IInv, [Next]_vars PROVE IInv'
  OBVIOUS
<1>1. CASE World
  BY <1>1, WorldKeeps
<1>2. ASSUME NEW c \in Calls, CallStep(c) PROVE IInv'
  <2>1. CASE Tick(c) \/ LookUp(c) \/ \E r \in Runs : AskNow(c, r)
    <3>1. PICK r \in Runs : Begin(c, r)
      BY <2>1 DEF Tick, LookUp, AskNow, IInv, TypeOK
    <3>. QED
      BY <3>1, BeginKeeps
  <2>2. CASE Ends(c)
    BY <2>2, EndsKeep
  <2>3. CASE MoveFromRow(c) \/ Moves(c) \/ Die(c)
    BY <2>3, MovesKeep
  <2>. QED
    BY Zenon, <1>2, <2>1, <2>2, <2>3 DEF CallStep
<1>3. CASE UNCHANGED vars
  BY <1>3 DEF vars, IInv, TypeOK, OfItsRun
<1>. QED
  BY <1>1, <1>2, <1>3 DEF Next

-----------------------------------------------------------------------------
(* What a step does to the row. *)

(* A write is the only thing that gives the row an ETA, an arrival or a run;  *)
(* the prune alone takes them away otherwise.                                 *)
LEMMA RowWriters ==
  ASSUME IInv, [Next]_vars
  PROVE  \/ \E c \in Calls : Write(c)
         \/ row' = NoRow /\ gone' = gone
         \/ row'.run = row.run /\ row'.eta = row.eta /\ row'.arrived = row.arrived /\ gone \subseteq gone'
<1> DEFINE Same == /\ row'.run = row.run /\ row'.eta = row.eta /\ row'.arrived = row.arrived
                   /\ gone \subseteq gone'
<1>1. row \in Row
  BY DEF IInv, TypeOK
<1>2. ASSUME World PROVE Same \/ (row' = NoRow /\ gone' = gone)
  BY <1>1, <1>2 DEF World, Leave, Rebook, Age, Prune, AdminTimes, Row
<1>3. ASSUME NEW c \in Calls, CallStep(c), ~Write(c) PROVE Same
  <2>1. CASE Fail(c)
    BY <1>1, <2>1 DEF Fail, Row
  <2>2. CASE ~Fail(c)
    <3>1. UNCHANGED <<row, gone>>
      BY <1>3, <2>2 DEF CallStep, Ends, Answers, Answer, Moves, Tick, AskNow, LookUp, Begin,
                        MoveFromRow, Die, ReadOrders, MoveOrder
    <3>. QED
      BY <3>1
  <2>. QED
    BY <2>1, <2>2
<1>4. CASE UNCHANGED vars
  BY <1>4 DEF vars
<1>. QED
  BY <1>2, <1>3, <1>4 DEF Next

(* refreshTrainStatus and lookupTrainDetail: however calls overlap, a row that *)
(* is one train's stays so, but for a write whose answer named no timetable or *)
(* whose look at the row another call has overtaken.                           *)
THEOREM RowOfOneTrain == Spec => RowStaysOneTrains
<1> DEFINE Stays ==
  OneTrains =>
    \/ OneTrains'
    \/ \E c \in Calls : Write(c) /\ (call[c].timetable = NoRun \/ LookIsOld(call[c]))
<1>1. IInv /\ [Next]_vars => [Stays]_vars
  <2> SUFFICES ASSUME IInv, Next, OneTrains
               PROVE  \/ OneTrains'
                      \/ \E c \in Calls : Write(c) /\ (call[c].timetable = NoRun \/ LookIsOld(call[c]))
    OBVIOUS
  <2>1. ASSUME NEW c \in Calls, Write(c), call[c].timetable # NoRun, ~LookIsOld(call[c])
        PROVE  OneTrains'
    <3>1. PICK w : w = call[c]
      OBVIOUS
    <3>2. /\ w \in CallShape /\ w.step = "WRITE" /\ w.timetable # NoRun /\ OfItsRun(w)
          /\ w.otherRun = HoldsOtherRun(w.timetable)
      BY <2>1, <3>1 DEF Write, IInv, LookIsOld
    <3>3. /\ row'.run = w.timetable /\ row'.eta = EtaAfter(c) /\ gone' = gone
          /\ row'.arrived = (w.arrived \/ (row.arrived /\ ~w.otherRun))
      BY <2>1, <3>1, <3>2 DEF Write, Written
    <3>4. w.eta \in {NoRun, w.timetable} /\ (w.arrived => w.timetable \in gone)
      BY <3>2 DEF OfItsRun
    <3>5. ~w.otherRun => row.run \in {NoRun, w.timetable}
      BY <3>2 DEF HoldsOtherRun
    <3>6. NoRun \notin gone
      BY ConstantsAssumption DEF IInv, TypeOK
    <3>7. row'.eta \in {NoRun, row'.run}
      BY <3>1, <3>3, <3>4, <3>5 DEF EtaAfter, OneTrains
    <3>8. row'.arrived => row'.run \in gone'
      BY <3>3, <3>4, <3>5, <3>6 DEF OneTrains
    <3>. QED
      BY <3>7, <3>8 DEF OneTrains
  <2>2. CASE row' = NoRow
    BY <2>2 DEF NoRow, OneTrains
  <2>3. CASE row'.run = row.run /\ row'.eta = row.eta /\ row'.arrived = row.arrived /\ gone \subseteq gone'
    BY <2>3 DEF OneTrains
  <2>. QED
    BY <2>1, <2>2, <2>3, RowWriters
<1>. QED
  BY <1>1, InitSound, StepSound, PTL DEF Spec, RowStaysOneTrains

(* refreshTrainStatus: however calls overlap, nothing takes a known ETA of the *)
(* same run away but an answer that says something, a lookup, a look at the    *)
(* row that another call has overtaken, and the prune.                         *)
THEOREM KnownEtaIsKept == Spec => KnownIsKept
<1> DEFINE Kept ==
  row.eta # NoRun /\ row'.eta = NoRun =>
    \/ row' = NoRow
    \/ row'.run # row.run
    \/ \E c \in Calls : Write(c) /\ (call[c].learned \/ LookIsOld(call[c]))
<1>1. IInv /\ [Next]_vars => [Kept]_vars
  <2> SUFFICES ASSUME IInv, Next PROVE Kept
    OBVIOUS
  <2>1. ASSUME NEW c \in Calls, Write(c), ~call[c].learned, ~LookIsOld(call[c]) PROVE Kept
    <3>1. PICK w : w = call[c]
      OBVIOUS
    <3>2. w.otherRun = HoldsOtherRun(w.timetable) /\ w \in CallShape
      BY <2>1, <3>1 DEF LookIsOld, IInv
    <3>3. /\ row'.run = IF w.timetable = NoRun THEN row.run ELSE w.timetable
          /\ row'.eta = IF w.otherRun THEN w.eta ELSE row.eta
      BY <2>1, <3>1, <3>2 DEF Write, Written, EtaAfter
    <3>4. CASE w.otherRun
      BY <3>2, <3>3, <3>4 DEF HoldsOtherRun
    <3>5. CASE ~w.otherRun
      BY <3>3, <3>5
    <3>. QED
      BY <3>4, <3>5
  <2>2. CASE row' = NoRow \/ row'.eta = row.eta
    BY <2>2
  <2>. QED
    BY <2>1, <2>2, RowWriters
<1>. QED
  BY <1>1, InitSound, StepSound, PTL DEF Spec, KnownIsKept
=============================================================================
