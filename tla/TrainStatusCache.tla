--------------------------- MODULE TrainStatusCache ---------------------------
(***************************************************************************)
(* What the boards know of one train at one station: a cached row that     *)
(* refreshes write after a slow call to a provider, and the arrival times  *)
(* of the orders that the railway's timetable moves.                       *)
(* lib/train/service.ts, lib/train/policy.ts, lib/queue/trainPolling.ts    *)
(* and the system* functions of lib/repo/orderRepo.ts.                     *)
(*                                                                         *)
(* One row serves every order of a train number, station and service date, *)
(* and these may belong to two runs of the train, more than half a day     *)
(* apart.  A time is kept as the run it belongs to; ages are kept as       *)
(* "within the tier" or not.  An answer may name the run's timetable or    *)
(* not: two of the four providers never do.                                *)
(***************************************************************************)
EXTENDS Integers

CONSTANTS
  Runs,    \* runs of the train
  NoRun,
  Refreshes, \* the poll, the boards and the persons who ask now, who may overlap
  Lookups,   \* persons looking the train up, who may overlap them
  Orders     \* open orders whose booking puts the train on another day than the railway

ASSUME ConstantsAssumption == NoRun \notin Runs /\ Refreshes \cap Lookups = {}

Calls == Refreshes \cup Lookups

VARIABLES
  booking, \* the run the open orders are booked on (runBooking), NoRun when there are none
  gone,    \* runs that have left the station
  row,     \* the cached row
  call,    \* where each refresh or lookup is
  order    \* what each order says of its arrival

vars == <<booking, gone, row, call, order>>

Row ==
  [run     : Runs \cup {NoRun},  \* timetableAt, NoRun when null
   eta     : Runs \cup {NoRun},  \* etaAt: whose it is, NoRun when null
   arrived : BOOLEAN,
   asked   : BOOLEAN,            \* fetchedAt is within the tier
   learned : BOOLEAN]            \* lastSuccessAt is within the tier

NoRow == [run |-> NoRun, eta |-> NoRun, arrived |-> FALSE, asked |-> FALSE, learned |-> FALSE]

Idle == [step |-> "IDLE", run |-> NoRun, timetable |-> NoRun, eta |-> NoRun,
         learned |-> FALSE, arrived |-> FALSE, otherRun |-> FALSE, seen |-> {}]

Init ==
  /\ booking \in Runs \cup {NoRun}
  /\ gone = {}
  /\ row = NoRow
  /\ call = [c \in Calls |-> Idle]
  /\ order = [o \in Orders |-> [time |-> "BOOKED", byAdmin |-> FALSE]]

-----------------------------------------------------------------------------
(* Whether a row's arrival belongs to the run a booking is on, and whether  *)
(* the row is due.                                                          *)

(* Mutant: an arrival is an arrival, whichever day's train it was. *)
LatchedForRun_AnyRun(r) == row.arrived

LatchedForRun(r) == row.arrived /\ (row.run = NoRun \/ r = NoRun \/ row.run = r)

IsStale(r) == ~LatchedForRun(r) /\ ~row.asked

-----------------------------------------------------------------------------
(* The world. *)

(* Nothing tells the runs apart, so a fixed one may as well leave first. *)
Leave(r) ==
  /\ r \notin gone
  /\ gone = {} => r = CHOOSE q \in Runs : TRUE
  /\ gone' = gone \cup {r}
  /\ UNCHANGED <<booking, row, call, order>>

(* An order opens, closes or is moved, or a booking becomes long gone. *)
Rebook(r) ==
  /\ booking # r
  /\ booking' = r
  /\ UNCHANGED <<gone, row, call, order>>

(* The tier of the last fetch runs out. *)
Age ==
  /\ row.asked \/ row.learned
  /\ row' = [row EXCEPT !.asked = FALSE, !.learned = FALSE]
  /\ UNCHANGED <<booking, gone, call, order>>

(* pruneOldTrainStatuses *)
Prune ==
  /\ row # NoRow /\ ~row.asked
  /\ row' = NoRow
  /\ UNCHANGED <<booking, gone, call, order>>

-----------------------------------------------------------------------------
(* refreshTrainStatus and lookupTrainDetail. *)

Begin(c, r) ==
  /\ call[c].step = "IDLE"
  /\ call' = [call EXCEPT ![c] = [Idle EXCEPT !.step = "ASK", !.run = r]]
  /\ UNCHANGED <<booking, gone, row, order>>

(* The polling tick, and getTrainStatus when a board is drawn. *)
Tick(c) == booking # NoRun /\ IsStale(booking) /\ Begin(c, booking)

(* A person asks now; with no order open the run is that of the order at hand. *)
AskNow(c, r) == (booking = NoRun \/ r = booking) /\ Begin(c, r)

(* With no order open the lookup writes nothing. *)
LookUp(c) == booking # NoRun /\ Begin(c, booking)

(* Mutant: the row is taken to be of the run just read. *)
HoldsOtherRun_Never(timetable) == FALSE

HoldsOtherRun(timetable) == timetable # NoRun /\ row.run # NoRun /\ row.run # timetable

(* What an answer may say of the arrival time. *)
Says == {"NOTHING", "DELAY", "ETA"}

(* A lookup takes its answer for something learned, whatever it says. *)
LearnedSomething(c, says) == says # "NOTHING" \/ c \in Lookups

(* The provider answers, and the row is looked at.  An answer that names its *)
(* timetable is about the run asked for; one that does not may be about the  *)
(* service date's.  It may miss an arrival it has reported before.           *)
Answer(c, of, names, says, arrived) ==
  LET w == call[c]
      timetable == IF names THEN of ELSE NoRun
  IN  /\ w.step = "ASK"
      /\ names => of = w.run
      /\ arrived => of \in gone
      /\ call' = [call EXCEPT ![c] = [Idle EXCEPT !.step = "WRITE",
                                                 !.timetable = timetable,
                                                 !.eta = IF says = "ETA" THEN of ELSE NoRun,
                                                 !.learned = LearnedSomething(c, says),
                                                 !.arrived = arrived,
                                                 !.otherRun = HoldsOtherRun(timetable)]]
      /\ UNCHANGED <<booking, gone, row, order>>

(* Mutant: an empty reading is written like any other. *)
EtaAfter_Blanks(c) == call[c].eta

(* An empty reading of the same run keeps what was known; not so one with a   *)
(* delay alone, nor a lookup.                                                *)
EtaAfter(c) ==
  IF call[c].learned \/ call[c].otherRun THEN call[c].eta ELSE row.eta

Written(c) ==
  LET w == call[c]
  IN  [run     |-> IF w.timetable = NoRun THEN row.run ELSE w.timetable,
       eta     |-> EtaAfter(c),
       arrived |-> w.arrived \/ (row.arrived /\ ~w.otherRun),
       asked   |-> TRUE,
       learned |-> w.learned \/ row.learned]

(* Only a refresh that knows the timetable goes on to move orders. *)
Write(c) ==
  LET moves == c \in Refreshes /\ call[c].timetable # NoRun
  IN  /\ call[c].step = "WRITE"
      /\ row' = Written(c)
      /\ call' = [call EXCEPT ![c] = IF moves THEN [Idle EXCEPT !.step = "MOVE"] ELSE Idle]
      /\ UNCHANGED <<booking, gone, order>>

(* The provider fails: a refresh notes that it asked, a lookup just throws. *)
Fail(c) ==
  /\ call[c].step = "ASK"
  /\ row' = IF c \in Lookups THEN row ELSE [row EXCEPT !.asked = TRUE]
  /\ call' = [call EXCEPT ![c] = Idle]
  /\ UNCHANGED <<booking, gone, order>>

(* getTrainStatus without a fetch: the timetable of the row it holds moves    *)
(* the orders that joined the run since.                                     *)
MoveFromRow(c) ==
  /\ call[c].step = "IDLE"
  /\ booking # NoRun /\ row.run = booking
  /\ call' = [call EXCEPT ![c] = [Idle EXCEPT !.step = "MOVE"]]
  /\ UNCHANGED <<booking, gone, row, order>>

Die(c) ==
  /\ call[c].step # "IDLE"
  /\ call' = [call EXCEPT ![c] = Idle]
  /\ UNCHANGED <<booking, gone, row, order>>

-----------------------------------------------------------------------------
(* systemRescheduleArrivals: read the orders to be moved, then move each one *)
(* that is still as it was read.                                             *)
Movable(o) == ~order[o].byAdmin /\ order[o].time = "BOOKED"

ReadOrders(c) ==
  LET found == {o \in Orders : Movable(o)}
  IN  /\ call[c].step = "MOVE"
      /\ call' = [call EXCEPT ![c] = IF found = {} THEN Idle ELSE [@ EXCEPT !.step = "MOVING", !.seen = found]]
      /\ UNCHANGED <<booking, gone, row, order>>

(* Mutant: the update names the order alone. *)
StillAsRead_ById(o) == TRUE

StillAsRead(o) == Movable(o)

MoveOrder(c, o) ==
  LET left == call[c].seen \ {o}
  IN  /\ call[c].step = "MOVING"
      /\ o \in call[c].seen
      /\ order' = IF StillAsRead(o) THEN [order EXCEPT ![o].time = "RAILWAY"] ELSE order
      /\ call' = [call EXCEPT ![c] = IF left = {} THEN Idle ELSE [@ EXCEPT !.seen = left]]
      /\ UNCHANGED <<booking, gone, row>>

(* adminEditOrder of the arrival or the service date.  A close keeps the       *)
(* update off in the same way and is left out.                                *)
AdminTimes(o) ==
  /\ order' = [order EXCEPT ![o].time = "ADMIN", ![o].byAdmin = TRUE]
  /\ UNCHANGED <<booking, gone, row, call>>

-----------------------------------------------------------------------------
World ==
  \/ \E r \in Runs : Leave(r)
  \/ \E r \in Runs \cup {NoRun} : Rebook(r)
  \/ Age \/ Prune
  \/ \E o \in Orders : AdminTimes(o)

Moves(c) == ReadOrders(c) \/ (\E o \in Orders : MoveOrder(c, o))

Answers(c) ==
  \E of \in Runs, names, arrived \in BOOLEAN, says \in Says : Answer(c, of, names, says, arrived)

Ends(c) == Answers(c) \/ Write(c) \/ Fail(c)

CallStep(c) ==
  \/ c \in Refreshes /\ (Tick(c) \/ MoveFromRow(c) \/ \E r \in Runs : AskNow(c, r))
  \/ c \in Lookups /\ LookUp(c)
  \/ Ends(c) \/ Moves(c) \/ Die(c)

Next == World \/ \E c \in Calls : CallStep(c)

(* Time passes, a call ends and the tick keeps coming, whatever the boards do. *)
(* A provider asked again and again about a train that has left says so in the *)
(* end, and names its timetable, and the server lives to write that.           *)
WritesArrived(c) == call[c].arrived /\ call[c].timetable # NoRun /\ Write(c)

Fairness ==
  /\ WF_vars(Age)
  /\ \A c \in Refreshes : []<>(call[c].step = "IDLE") /\ SF_vars(Tick(c))
  /\ \A c \in Calls :
       []<>(call[c].step = "ASK" /\ call[c].run \in gone) => []<><<WritesArrived(c)>>_vars

Spec == Init /\ [][Next]_vars /\ Fairness

-----------------------------------------------------------------------------
TypeOK ==
  /\ booking \in Runs \cup {NoRun}
  /\ gone \subseteq Runs
  /\ row \in Row

(* The row is one train's: its ETA and its arrival are those of the run its  *)
(* timetable names.                                                         *)
OneTrains ==
  /\ row.eta \in {NoRun, row.run}
  /\ row.arrived => row.run \in gone

(* The row changed hands between this call's look at it and now. *)
LookIsOld(w) == w.otherRun # HoldsOtherRun(w.timetable)

(* However refreshes and lookups overlap and the bookings move between last  *)
(* night's train and tonight's, a row that is one train's stays one train's, *)
(* but for a write whose answer named no timetable or whose look at the row  *)
(* another call has overtaken.                                               *)
RowStaysOneTrains ==
  [][OneTrains =>
       \/ OneTrains'
       \/ \E c \in Calls : Write(c) /\ (call[c].timetable = NoRun \/ LookIsOld(call[c]))]_vars

(* A refresh that learned nothing never takes away an ETA of the same run    *)
(* that was known, nor does a failure or an age, whatever calls overlap it;  *)
(* a delay without an ETA does, a person's lookup, a look at the row that    *)
(* another call has overtaken, and the prune.                                *)
KnownIsKept ==
  [][row.eta # NoRun /\ row'.eta = NoRun =>
       \/ row' = NoRow
       \/ row'.run # row.run
       \/ \E c \in Calls :
            Write(c) /\ (call[c].learned \/ LookIsOld(call[c]))]_vars

(* "its arrival, ETA and platform are that train's, not this one's, so they   *)
(* are replaced outright rather than kept or latched": no row mixes two       *)
(* trains.                                                                    *)
NeverTwoTrains == row.run = NoRun \/ OneTrains

(* "A reading that carries no arrival time is the feed having nothing to      *)
(* say": no refresh takes away a known ETA of the same run.                   *)
RefreshKeepsEta ==
  [][\A c \in Refreshes :
       Write(c) /\ row.eta # NoRun /\ row'.run = row.run
         => row'.eta # NoRun]_vars

(* The railway's timetable never overrules a time an admin set by hand,      *)
(* though the poll read the order before the admin did.                      *)
AdminTimeStands == \A o \in Orders : order[o].byAdmin => order[o].time = "ADMIN"

(* Yesterday's arrival never stops today's train from being followed: once a  *)
(* train has left, the row says so, unless the bookings move on or the row    *)
(* says that a train has left and cannot tell which.                          *)
ArrivalIsSeen ==
  \A r \in Runs :
    (booking = r /\ r \in gone) ~> (row.arrived /\ row.run \in {r, NoRun}) \/ booking # r

(* "Never present a stale ETA as live": an ETA shown as live was learned      *)
(* within the tier.                                                           *)
LiveIsFresh ==
  row.eta # NoRun /\ ~LatchedForRun(booking) /\ row.asked => row.learned
=============================================================================
