------------------------------- MODULE KotRun -------------------------------
(***************************************************************************)
(* Printing a train's kitchen tickets: the store's Generate KOT buttons,   *)
(* on one order and on a whole train (app/store/actions.ts), the admin's   *)
(* own (app/admin/orders/[id]/actions.ts), and the render that turns the   *)
(* click into print jobs (lib/printer/queue.ts).                           *)
(*                                                                         *)
(* Every click is a request of its own, and each of its awaits is a step:  *)
(* other clicks, and the rest of the pipeline, go on between them.         *)
(***************************************************************************)
EXTENDS OrderStatus, Naturals, FiniteSets

CONSTANTS
  Orders,       \* the orders of one train at one station
  OrderClicks,  \* clicks on one order's button, the store's or the admin's
  RunClicks,    \* clicks on the train's button
  Onward        \* bound: the statuses the rest of the pipeline moves an order to

ASSUME KotAssumption == IsFiniteSet(RunClicks) /\ OrderClicks \cap RunClicks = {} /\ Onward \subseteq OrderStatuses

VARIABLES
  status,   \* Order.status
  click,    \* what each click has read and done
  tickets   \* how many print jobs of each of an order's tickets, reprints apart

vars == <<status, click, tickets>>

(* TICKETS_PER_ORDER: every order prints as two tickets, each a print job of *)
(* its own.                                                                  *)
Papers == {"kot", "slip"}

Jobs == Orders \X Papers

Clicks == OrderClicks \cup RunClicks

(* LIVE_STATUSES: the orders findRun sees. *)
LiveStatuses == {"RECEIVED", "ACCEPTED", "KOT_PRINTED", "PREPARED", "DISPATCHED"}

Unpressed ==
  [phase |-> "unpressed", picked |-> {}, accepted |-> {}, todo |-> {}, moved |-> {},
   batch |-> {}, unsent |-> {}]

Init ==
  /\ status \in [Orders -> {"RECEIVED", "ACCEPTED"}]
  /\ click = [c \in Clicks |-> Unpressed]
  /\ tickets = [j \in Jobs |-> 0]

WithStatus(S, st) == {o \in S : status[o] = st}

-----------------------------------------------------------------------------
(* pickOrders: the ticked orders, or the whole run when none is ticked. *)
Pick(S, picked) == IF picked = {} THEN S ELSE S \cap picked

(* generateRunKot: the snapshot of what this click is for. *)
Snapshot(picked) == WithStatus(Pick(Orders, picked), "ACCEPTED")

PressRun(c, picked) ==
  /\ click[c].phase = "unpressed"
  /\ click' = [click EXCEPT
       ![c] = [Unpressed EXCEPT !.phase = "read", !.picked = picked,
                 !.accepted = Snapshot(picked)]]
  /\ UNCHANGED <<status, tickets>>

(* transitionRun reads the run again ... *)
ReadRun(c) ==
  /\ click[c].phase = "read"
  /\ click' = [click EXCEPT
       ![c].phase = "move",
       ![c].picked = {},
       ![c].todo = WithStatus(Pick(Orders, click[c].picked), "ACCEPTED")]
  /\ UNCHANGED <<status, tickets>>

(* ... and moves its orders one transaction each: one that moved on in the   *)
(* meantime is refused, and the rest still move.                             *)
MoveNext(c, o) ==
  /\ click[c].phase = "move" /\ o \in click[c].todo
  /\ IF status[o] = "ACCEPTED"
     THEN /\ status' = [status EXCEPT ![o] = "KOT_PRINTED"]
          /\ click' = [click EXCEPT ![c].todo = @ \ {o}, ![c].moved = @ \cup {o}]
     ELSE /\ click' = [click EXCEPT ![c].todo = @ \ {o}]
          /\ UNCHANGED status
  /\ UNCHANGED tickets

(* Mutant: the second read keeps the orders that still wait for their KOT. *)
PrintedNow_StillAccepted(c) == WithStatus(click[c].accepted, "ACCEPTED")

(* Mutant: the second read takes the whole train, and not this click's part. *)
PrintedNow_WholeTrain(c) == {o \in Orders : status[o] \in LiveStatuses}

(* The orders of the snapshot that now read KOT_PRINTED, whoever moved them. *)
PrintedNow(c) == WithStatus(click[c].accepted, "KOT_PRINTED")

AfterReread(c) == IF PrintedNow(c) = {} THEN "done" ELSE "print"

Reread(c) ==
  /\ click[c].phase = "move" /\ click[c].todo = {}
  /\ click' = [click EXCEPT ![c].batch = PrintedNow(c), ![c].phase = AfterReread(c)]
  /\ UNCHANGED <<status, tickets>>

(* Mutant: an order that is there already counts as moved, and is printed. *)
Moves_OrIsThere(o) == status[o] \in {"ACCEPTED", "KOT_PRINTED"}

(* generateKot and adminTransitionAction: the order is moved, or the click   *)
(* ends there.                                                               *)
Moves(o) == status[o] = "ACCEPTED"

PressOrder(c, o) ==
  /\ click[c].phase = "unpressed"
  /\ IF Moves(o)
     THEN /\ status' = [status EXCEPT ![o] = "KOT_PRINTED"]
          /\ click' = [click EXCEPT
               ![c] = [Unpressed EXCEPT !.phase = "print", !.moved = {o}, !.batch = {o}]]
     ELSE /\ click' = [click EXCEPT ![c].phase = "done"]
          /\ UNCHANGED status
  /\ UNCHANGED tickets

-----------------------------------------------------------------------------
(* What the print page renders: one order's whatever its status, a run's     *)
(* only while the order is live.                                             *)
OnPage(c) ==
  IF c \in OrderClicks THEN click[c].batch
  ELSE {o \in click[c].batch : status[o] \in LiveStatuses}

Matches(c) == OnPage(c) = click[c].batch

(* enqueueOrderKotPrint and enqueueRunKotPrint: the page was told which      *)
(* orders to render, and what it shows is compared with that.                *)
Render(c) ==
  /\ click[c].phase = "print" /\ Matches(c)
  /\ click' = [click EXCEPT
       ![c].phase = "queue", ![c].batch = {}, ![c].unsent = OnPage(c) \X Papers]
  /\ UNCHANGED <<status, tickets>>

(* The page's order: each order's KOT, and its bag slip right after it.      *)
HalfSent(S) == {o \in Orders : <<o, "slip">> \in S /\ <<o, "kot">> \notin S}

Upcoming(S) ==
  IF HalfSent(S) # {} THEN HalfSent(S) \X {"slip"} ELSE {j \in S : j[2] = "kot"}

(* enqueueTickets creates the jobs one by one, each with an await of its own. *)
QueueNext(c, j) ==
  /\ click[c].phase = "queue" /\ j \in Upcoming(click[c].unsent)
  /\ tickets' = [tickets EXCEPT ![j] = @ + 1]
  /\ click' = [click EXCEPT
       ![c].unsent = @ \ {j},
       ![c].phase = IF click[c].unsent = {j} THEN "done" ELSE "queue"]
  /\ UNCHANGED status

(* The page shows another set than was asked for, or the browser, the token  *)
(* or the database fails: the failure is logged, and what is not queued yet  *)
(* never is.  The server may also die anywhere in a click.                   *)
Fail(c) ==
  /\ click[c].phase \notin {"unpressed", "done", "failed"}
  /\ click' = [click EXCEPT
       ![c].phase = "failed", ![c].todo = {}, ![c].batch = {}, ![c].unsent = {}]
  /\ UNCHANGED <<status, tickets>>

(* The rest of the pipeline, for which KOT_PRINTED is only a step. *)
MoveOn(o, to, role) ==
  /\ to # "KOT_PRINTED"
  /\ IsTransitionAllowed(status[o], to, role)
  /\ status' = [status EXCEPT ![o] = to]
  /\ UNCHANGED <<click, tickets>>

Next ==
  \/ \E c \in RunClicks, picked \in SUBSET Orders : PressRun(c, picked)
  \/ \E c \in RunClicks : ReadRun(c) \/ Reread(c)
  \/ \E c \in RunClicks, o \in Orders : MoveNext(c, o)
  \/ \E c \in OrderClicks, o \in Orders : PressOrder(c, o)
  \/ \E c \in Clicks : Render(c) \/ Fail(c)
  \/ \E c \in Clicks, j \in Jobs : QueueNext(c, j)
  \/ \E o \in Orders, to \in Onward, role \in Roles : MoveOn(o, to, role)

Spec == Init /\ [][Next]_vars

-----------------------------------------------------------------------------
Click ==
  [phase : {"unpressed", "read", "move", "print", "queue", "done", "failed"},
   picked : SUBSET Orders, accepted : SUBSET Orders, todo : SUBSET Orders,
   moved : SUBSET Orders, batch : SUBSET Orders, unsent : SUBSET Jobs]

(* Only a click that has something to print asks for a page of it, and its   *)
(* work ends with the last job.                                              *)
TypeOK ==
  /\ status \in [Orders -> OrderStatuses]
  /\ click \in [Clicks -> Click]
  /\ \A c \in Clicks : (click[c].phase = "print") <=> (click[c].batch # {})
  /\ \A c \in Clicks : (click[c].phase = "queue") <=> (click[c].unsent # {})
  /\ tickets \in [Jobs -> Nat]

MovedBy(o) == {c \in Clicks : o \in click[c].moved}

(* An order still waiting to be accepted, or taken off the train before its  *)
(* KOT, gets no ticket: each ticket has a click behind it that moved its     *)
(* order from ACCEPTED to KOT_PRINTED.                                       *)
TicketsHaveAMove ==
  \A o \in Orders, p \in Papers : tickets[<<o, p>>] > 0 => MovedBy(o) # {}

(* An order moves to KOT_PRINTED once, so each of its tickets is queued once, *)
(* and once more at most for each train click that had seen it ACCEPTED and  *)
(* lost the race to move it, wherever a click failed on its way.             *)
CopiesExplained ==
  \A o \in Orders :
    /\ Cardinality(MovedBy(o)) <= 1
    /\ \A p \in Papers :
         tickets[<<o, p>>] <=
           1 + Cardinality({c \in RunClicks : o \in click[c].accepted \ click[c].moved})

(* Whatever order a click was for, moved to KOT_PRINTED and left there has   *)
(* both its tickets in the queue once the click has ended well.              *)
SeenAndMovedHasTicket ==
  \A c \in Clicks : click[c].phase = "done" =>
    \A o \in click[c].moved :
      (c \in OrderClicks \/ o \in click[c].accepted) /\ status[o] = "KOT_PRINTED"
      => \A p \in Papers : tickets[<<o, p>>] > 0

(* What the comments in generateRunKot say: only the orders this click moved *)
(* itself are printed, and one that moved under another click is not.        *)
OnlyMovedArePrinted ==
  [][\A c \in RunClicks :
       click[c].phase = "print" /\ click'[c].phase = "queue" => click[c].batch \subseteq click[c].moved]_vars

(* What the comment on generateRunKot says: it prints the KOTs of every order *)
(* on the train that is waiting for one.  Then no order that a click which   *)
(* ended well left in KOT_PRINTED is without tickets.                        *)
PrintedHasTicket ==
  \A c \in Clicks : click[c].phase = "done" =>
    \A o \in click[c].moved :
      status[o] = "KOT_PRINTED" => \A p \in Papers : tickets[<<o, p>>] > 0
=============================================================================
