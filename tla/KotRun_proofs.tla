--------------------------- MODULE KotRun_proofs ---------------------------
(***************************************************************************)
(* Proofs about the Generate KOT clicks, for any orders and any clicks.    *)
(*                                                                         *)
(* The inductive invariant joins each click to the orders: an order reads  *)
(* KOT_PRINTED only when some click moved it, once moved it never reads    *)
(* ACCEPTED again, and so no later click can change what an earlier one    *)
(* has seen of it into a reason to print.                                  *)
(***************************************************************************)
EXTENDS KotRun, FiniteSetTheorems, TLAPS

Moved(o) == \E c \in Clicks : o \in click[c].moved

Seen(c, o) == c \in OrderClicks \/ o \in click[c].accepted

OrderSound(o) ==
  /\ Moved(o) => status[o] \notin {"ENQUIRY", "QUOTED", "RECEIVED", "ACCEPTED"}
  /\ status[o] = "KOT_PRINTED" => Moved(o)
  /\ \A p \in Papers : tickets[<<o, p>>] > 0 => Moved(o)

(* Its orders still in KOT_PRINTED are on its batch, wait for their turn to   *)
(* be queued, or have their tickets.                                         *)
ClickSound(c) ==
  /\ click[c].phase = "unpressed" => click[c].moved = {}
  /\ \A o \in click[c].batch : Moved(o)
  /\ \A o \in Orders, p \in Papers : <<o, p>> \in click[c].unsent => Moved(o)
  /\ click[c].phase = "print" =>
       \A o \in click[c].moved :
         Seen(c, o) /\ status[o] = "KOT_PRINTED" => o \in click[c].batch
  /\ click[c].phase \in {"queue", "done"} =>
       \A o \in click[c].moved, p \in Papers :
         Seen(c, o) /\ status[o] = "KOT_PRINTED"
         => <<o, p>> \in click[c].unsent \/ tickets[<<o, p>>] > 0

IInv ==
  /\ TypeOK
  /\ \A o \in Orders : OrderSound(o)
  /\ \A c \in Clicks : ClickSound(c)

LEMMA InitSound == Init => IInv
<1> SUFFICES ASSUME Init PROVE IInv
  OBVIOUS
<1>1. \A c \in Clicks : click[c] = Unpressed
  BY DEF Init
<1>2. TypeOK
  BY DEF Init, TypeOK, Click, Unpressed, Clicks, OrderStatuses, OpenStatuses
<1>3. \A o \in Orders : ~Moved(o)
  BY <1>1 DEF Moved, Unpressed
<1>4. \A o \in Orders : OrderSound(o)
  BY <1>3 DEF Init, OrderSound, Jobs
<1>5. \A c \in Clicks : ClickSound(c)
  BY <1>1 DEF ClickSound, Unpressed
<1>. QED
  BY <1>2, <1>4, <1>5 DEF IInv

-----------------------------------------------------------------------------
(* What every step keeps: moved orders stay moved, tickets are not taken     *)
(* back, and an order comes to read KOT_PRINTED before any click moved it.   *)
Forward ==
  \A o \in Orders :
    /\ Moved(o) => Moved(o)'
    /\ \A p \in Papers : tickets[<<o, p>>] > 0 => tickets'[<<o, p>>] > 0
    /\ status'[o] = "KOT_PRINTED" /\ Moved(o) => status[o] = "KOT_PRINTED"

(* A click that a step leaves alone stays sound.                             *)
LEMMA BystanderSound ==
  ASSUME IInv, Forward, NEW c \in Clicks, click'[c] = click[c]
  PROVE  ClickSound(c)'
<1>1. ClickSound(c) /\ click[c] \in Click
  BY DEF IInv, TypeOK
<1>2. \A o \in click[c].moved : o \in Orders /\ Moved(o)
  BY <1>1 DEF Click, Moved
<1>3. \A o \in click[c].batch : o \in Orders
  BY <1>1 DEF Click
<1>4. click[c].phase = "unpressed" => click'[c].moved = {}
  BY <1>1 DEF ClickSound
<1>5. \A o \in click'[c].batch : Moved(o)'
  BY <1>1, <1>3 DEF Forward, ClickSound
<1>6. click[c].phase = "print" =>
        \A o \in click'[c].moved :
          Seen(c, o)' /\ status'[o] = "KOT_PRINTED" => o \in click'[c].batch
  BY <1>1, <1>2 DEF Forward, ClickSound, Seen
<1>7. click[c].phase \in {"queue", "done"} =>
        \A o \in click'[c].moved, p \in Papers :
          Seen(c, o)' /\ status'[o] = "KOT_PRINTED"
          => <<o, p>> \in click'[c].unsent \/ tickets'[<<o, p>>] > 0
  BY <1>1, <1>2 DEF Forward, ClickSound, Seen
<1>8. \A o \in Orders, p \in Papers : <<o, p>> \in click'[c].unsent => Moved(o)'
  BY <1>1 DEF Forward, ClickSound
<1>. QED
  BY <1>4, <1>5, <1>6, <1>7, <1>8 DEF ClickSound

(* A step that moves no order, and gives no order tickets it should not      *)
(* have, keeps the orders sound.                                             *)
LEMMA OrdersSound ==
  ASSUME IInv,
         \A o \in Orders : Moved(o)' <=> Moved(o),
         status' = status, tickets' = tickets
  PROVE  \A o \in Orders : OrderSound(o)'
BY DEF IInv, OrderSound

-----------------------------------------------------------------------------
(* A step of a click that touches nothing but its own record, and neither    *)
(* moves an order nor forgets one.                                           *)
LEMMA OwnStep ==
  ASSUME IInv, NEW c \in Clicks, NEW r \in Click,
         click' = [click EXCEPT ![c] = r], UNCHANGED <<status, tickets>>,
         r.moved = click[c].moved,
         (r.phase = "print") <=> (r.batch # {}),
         (r.phase = "queue") <=> (r.unsent # {})
  PROVE  /\ TypeOK' /\ Forward
         /\ \A o \in Orders : OrderSound(o)'
         /\ \A k \in Clicks \ {c} : ClickSound(k)'
         /\ \A o \in Orders : Moved(o)' <=> Moved(o)
         /\ click'[c] = r
<1>1. /\ click'[c] = r
      /\ \A k \in Clicks \ {c} : click'[k] = click[k]
  BY DEF IInv, TypeOK
<1>2. TypeOK'
  BY <1>1 DEF IInv, TypeOK
<1>3. \A o \in Orders : Moved(o)' <=> Moved(o)
  BY <1>1 DEF Moved
<1>4. Forward
  BY <1>3 DEF Forward, IInv, TypeOK
<1>5. \A k \in Clicks \ {c} : ClickSound(k)'
  BY <1>1, <1>4, BystanderSound
<1>. QED
  BY <1>1, <1>2, <1>3, <1>4, <1>5, OrdersSound

LEMMA PressRunSound ==
  ASSUME IInv, NEW c \in RunClicks, NEW picked \in SUBSET Orders, PressRun(c, picked)
  PROVE  IInv'
<1>. DEFINE r == [Unpressed EXCEPT !.phase = "read", !.picked = picked,
                    !.accepted = Snapshot(picked)]
<1>1. c \in Clicks /\ click[c].moved = {}
  BY DEF IInv, ClickSound, PressRun, Clicks
<1>2. r \in Click /\ r.phase = "read" /\ r.moved = {} /\ r.batch = {} /\ r.unsent = {}
  BY DEF Click, Unpressed, Snapshot, Pick, WithStatus
<1>3. click' = [click EXCEPT ![c] = r] /\ UNCHANGED <<status, tickets>>
  BY DEF PressRun
<1>. HIDE DEF r
<1>4. click'[c] = r
  BY <1>1, <1>2, <1>3, OwnStep
<1>5. ClickSound(c)'
  BY <1>1, <1>2, <1>4 DEF ClickSound
<1>. QED
  BY <1>1, <1>2, <1>3, <1>5, OwnStep DEF IInv

LEMMA ReadRunSound ==
  ASSUME IInv, NEW c \in RunClicks, ReadRun(c)
  PROVE  IInv'
<1>. DEFINE r == [click[c] EXCEPT !.phase = "move", !.picked = {},
                    !.todo = WithStatus(Pick(Orders, click[c].picked), "ACCEPTED")]
<1>1. c \in Clicks /\ click[c] \in Click /\ click[c].batch = {} /\ click[c].unsent = {}
  BY DEF IInv, TypeOK, ReadRun, Clicks
<1>2. /\ r \in Click /\ r.phase = "move"
      /\ r.moved = click[c].moved /\ r.batch = {} /\ r.unsent = {}
  BY <1>1 DEF Click, Pick, WithStatus
<1>3. click' = [click EXCEPT ![c] = r] /\ UNCHANGED <<status, tickets>>
  BY <1>1 DEF ReadRun, IInv, TypeOK
<1>. HIDE DEF r
<1>4. click'[c] = r
  BY <1>1, <1>2, <1>3, OwnStep
<1>5. ClickSound(c)'
  BY <1>1, <1>2, <1>4 DEF ClickSound
<1>. QED
  BY <1>1, <1>2, <1>3, <1>5, OwnStep DEF IInv

(* What is found KOT_PRINTED was moved by some click; an empty batch means   *)
(* that no order of this click's own was left there.                         *)
LEMMA RereadSound ==
  ASSUME IInv, NEW c \in RunClicks, Reread(c)
  PROVE  IInv'
<1>. DEFINE r == [click[c] EXCEPT !.batch = PrintedNow(c), !.phase = AfterReread(c)]
<1>1. /\ c \in Clicks /\ c \notin OrderClicks /\ click[c] \in Click
      /\ click[c].phase = "move" /\ click[c].unsent = {}
  BY KotAssumption DEF IInv, TypeOK, Clicks, Reread
<1>2. /\ PrintedNow(c) \in SUBSET Orders
      /\ AfterReread(c) = IF PrintedNow(c) = {} THEN "done" ELSE "print"
  BY <1>1 DEF PrintedNow, AfterReread, WithStatus, Click
<1>3. /\ r \in Click /\ r.moved = click[c].moved /\ r.accepted = click[c].accepted
      /\ r.batch = PrintedNow(c) /\ r.phase = AfterReread(c) /\ r.unsent = {}
  BY <1>1, <1>2 DEF Click
<1>4. click' = [click EXCEPT ![c] = r] /\ UNCHANGED <<status, tickets>>
  BY <1>1 DEF Reread, IInv, TypeOK
<1>. HIDE DEF r
<1>5. /\ click'[c] = r
      /\ \A o \in Orders : Moved(o)' <=> Moved(o)
  BY <1>1, <1>2, <1>3, <1>4, OwnStep
<1>6. \A o \in PrintedNow(c) : o \in Orders /\ Moved(o)
  BY <1>2 DEF PrintedNow, WithStatus, IInv, OrderSound
<1>7. \A o \in r.moved : Seen(c, o)' /\ status'[o] = "KOT_PRINTED" => o \in PrintedNow(c)
  BY <1>1, <1>3, <1>4, <1>5 DEF Seen, PrintedNow, WithStatus
<1>8. ClickSound(c)'
  BY <1>2, <1>3, <1>5, <1>6, <1>7 DEF ClickSound
<1>. QED
  BY <1>1, <1>2, <1>3, <1>4, <1>8, OwnStep DEF IInv

LEMMA FailSound ==
  ASSUME IInv, NEW c \in Clicks, Fail(c)
  PROVE  IInv'
<1>. DEFINE r == [click[c] EXCEPT !.phase = "failed", !.todo = {}, !.batch = {}, !.unsent = {}]
<1>1. click[c] \in Click
  BY DEF IInv, TypeOK
<1>2. /\ r \in Click /\ r.phase = "failed" /\ r.moved = click[c].moved
      /\ r.batch = {} /\ r.unsent = {}
  BY <1>1 DEF Click
<1>3. click' = [click EXCEPT ![c] = r] /\ UNCHANGED <<status, tickets>>
  BY <1>1 DEF Fail, IInv, TypeOK
<1>. HIDE DEF r
<1>4. click'[c] = r
  BY <1>2, <1>3, OwnStep
<1>5. ClickSound(c)'
  BY <1>2, <1>4 DEF ClickSound
<1>. QED
  BY <1>2, <1>3, <1>5, OwnStep DEF IInv

-----------------------------------------------------------------------------
(* The step that moves an order from ACCEPTED to KOT_PRINTED.  No click had  *)
(* moved it before, so no other click's account of it is upset.              *)
LEMMA MoveSound ==
  ASSUME IInv, NEW c \in Clicks, NEW o \in Orders, NEW r \in Click,
         status[o] = "ACCEPTED",
         status' = [status EXCEPT ![o] = "KOT_PRINTED"],
         click' = [click EXCEPT ![c] = r], tickets' = tickets,
         r.moved = click[c].moved \cup {o},
         \A p \in r.batch : p = o \/ Moved(p),
         (r.phase = "print") <=> (r.batch # {}),
         r.phase \notin {"unpressed", "queue", "done"}, r.unsent = {},
         r.phase = "print" => r.batch = {o} /\ r.moved = {o}
  PROVE  IInv'
<1>1. /\ click'[c] = r
      /\ \A k \in Clicks \ {c} : click'[k] = click[k]
  BY DEF IInv, TypeOK
<1>2. /\ status'[o] = "KOT_PRINTED"
      /\ \A p \in Orders \ {o} : status'[p] = status[p]
  BY DEF IInv, TypeOK
<1>3. TypeOK'
  BY <1>1 DEF IInv, TypeOK, OrderStatuses, OpenStatuses
<1>4. ~Moved(o) /\ \A p \in Papers : tickets[<<o, p>>] \in Nat /\ ~(tickets[<<o, p>>] > 0)
  BY DEF IInv, OrderSound, TypeOK, Jobs
<1>5. Moved(o)' /\ \A p \in Orders \ {o} : Moved(p)' <=> Moved(p)
  BY <1>1 DEF Moved
<1>6. Forward
  BY <1>2, <1>4, <1>5 DEF Forward
<1>7. \A p \in Orders : OrderSound(p)'
  BY <1>2, <1>4, <1>5 DEF OrderSound, IInv
<1>8. \A k \in Clicks \ {c} : ClickSound(k)'
  BY <1>1, <1>6, BystanderSound
<1>9. r.batch \subseteq Orders
  BY DEF Click
<1>10. ClickSound(c)'
  BY <1>1, <1>5, <1>9 DEF ClickSound
<1>. QED
  BY <1>3, <1>7, <1>8, <1>10 DEF IInv

LEMMA MoveNextSound ==
  ASSUME IInv, NEW c \in RunClicks, NEW o \in Orders, MoveNext(c, o)
  PROVE  IInv'
<1>1. /\ c \in Clicks /\ click[c] \in Click /\ click[c].phase = "move"
      /\ click[c].batch = {} /\ click[c].unsent = {}
  BY DEF IInv, TypeOK, MoveNext, Clicks
<1>2. CASE status[o] = "ACCEPTED"
  <2>. DEFINE r == [click[c] EXCEPT !.todo = click[c].todo \ {o},
                                    !.moved = click[c].moved \cup {o}]
  <2>1. /\ r \in Click /\ r.phase = "move" /\ r.batch = {} /\ r.unsent = {}
        /\ r.moved = click[c].moved \cup {o}
    BY <1>1 DEF Click
  <2>2. /\ click' = [click EXCEPT ![c] = r] /\ tickets' = tickets
        /\ status' = [status EXCEPT ![o] = "KOT_PRINTED"]
    BY <1>1, <1>2 DEF MoveNext, IInv, TypeOK
  <2>. HIDE DEF r
  <2>. QED
    BY <1>1, <1>2, <2>1, <2>2, MoveSound
<1>3. CASE status[o] # "ACCEPTED"
  <2>. DEFINE r == [click[c] EXCEPT !.todo = click[c].todo \ {o}]
  <2>1. /\ r \in Click /\ r.phase = "move" /\ r.batch = {} /\ r.unsent = {}
        /\ r.moved = click[c].moved
    BY <1>1 DEF Click
  <2>2. click' = [click EXCEPT ![c] = r] /\ UNCHANGED <<status, tickets>>
    BY <1>1, <1>3 DEF MoveNext, IInv, TypeOK
  <2>. HIDE DEF r
  <2>3. click'[c] = r
    BY <1>1, <2>1, <2>2, OwnStep
  <2>4. ClickSound(c)'
    BY <2>1, <2>3 DEF ClickSound
  <2>. QED
    BY <1>1, <2>1, <2>2, <2>4, OwnStep DEF IInv
<1>. QED
  BY <1>2, <1>3

LEMMA PressOrderSound ==
  ASSUME IInv, NEW c \in OrderClicks, NEW o \in Orders, PressOrder(c, o)
  PROVE  IInv'
<1>1. /\ c \in Clicks /\ click[c] \in Click /\ click[c].phase = "unpressed"
      /\ click[c].moved = {} /\ click[c].batch = {} /\ click[c].unsent = {}
  BY DEF IInv, TypeOK, PressOrder, Clicks, ClickSound
<1>2. CASE Moves(o)
  <2>. DEFINE r == [Unpressed EXCEPT !.phase = "print", !.moved = {o}, !.batch = {o}]
  <2>1. /\ r \in Click /\ r.phase = "print" /\ r.batch = {o} /\ r.moved = {o}
        /\ r.unsent = {}
    BY DEF Click, Unpressed
  <2>2. /\ click' = [click EXCEPT ![c] = r] /\ tickets' = tickets
        /\ status' = [status EXCEPT ![o] = "KOT_PRINTED"]
    BY <1>2 DEF PressOrder
  <2>3. status[o] = "ACCEPTED"
    BY <1>2 DEF Moves
  <2>. HIDE DEF r
  <2>4. /\ r.moved = click[c].moved \cup {o}
        /\ \A p \in r.batch : p = o \/ Moved(p)
        /\ r.batch # {} /\ r.phase \notin {"unpressed", "queue", "done"}
    BY <1>1, <2>1
  <2>. QED
    BY <1>1, <2>1, <2>2, <2>3, <2>4, MoveSound
<1>3. CASE ~Moves(o)
  <2>. DEFINE r == [click[c] EXCEPT !.phase = "done"]
  <2>1. r \in Click /\ r.phase = "done" /\ r.batch = {} /\ r.moved = {} /\ r.unsent = {}
    BY <1>1 DEF Click
  <2>2. click' = [click EXCEPT ![c] = r] /\ UNCHANGED <<status, tickets>>
    BY <1>1, <1>3 DEF PressOrder, IInv, TypeOK
  <2>. HIDE DEF r
  <2>3. click'[c] = r
    BY <1>1, <2>1, <2>2, OwnStep
  <2>4. ClickSound(c)'
    BY <2>1, <2>3 DEF ClickSound
  <2>. QED
    BY <1>1, <2>1, <2>2, <2>4, OwnStep DEF IInv
<1>. QED
  BY <1>2, <1>3

-----------------------------------------------------------------------------
(* The page stands for the whole batch: each order the click still answers   *)
(* for has both its jobs among those to come.                                *)
LEMMA RenderSound ==
  ASSUME IInv, NEW c \in Clicks, Render(c)
  PROVE  IInv'
<1>. DEFINE r == [click[c] EXCEPT !.phase = "queue", !.batch = {}, !.unsent = OnPage(c) \X Papers]
<1>1. /\ click[c] \in Click /\ click[c].phase = "print" /\ click[c].batch # {}
      /\ OnPage(c) = click[c].batch /\ click[c].batch \in SUBSET Orders
  BY DEF IInv, TypeOK, Render, Matches, Click
<1>2. /\ r \in Click /\ r.phase = "queue" /\ r.batch = {} /\ r.moved = click[c].moved
      /\ r.accepted = click[c].accepted /\ r.unsent = click[c].batch \X Papers
  BY <1>1 DEF Click, Jobs
<1>3. r.unsent # {}
  <2>1. PICK o \in Orders : o \in click[c].batch
    BY <1>1
  <2>2. <<o, "kot">> \in click[c].batch \X Papers
    BY <2>1 DEF Papers
  <2>. QED
    BY <1>2, <2>2
<1>4. click' = [click EXCEPT ![c] = r] /\ UNCHANGED <<status, tickets>>
  BY <1>1 DEF Render, IInv, TypeOK
<1>. HIDE DEF r
<1>5. /\ click'[c] = r
      /\ \A o \in Orders : Moved(o)' <=> Moved(o)
  BY <1>2, <1>3, <1>4, OwnStep
<1>6. \A o \in Orders, p \in Papers : <<o, p>> \in r.unsent => Moved(o)
  BY <1>1, <1>2 DEF IInv, ClickSound
<1>7. \A o \in r.moved, p \in Papers :
        Seen(c, o)' /\ status'[o] = "KOT_PRINTED" => <<o, p>> \in r.unsent
  BY <1>1, <1>2, <1>4, <1>5 DEF IInv, ClickSound, Seen
<1>8. ClickSound(c)'
  BY <1>2, <1>5, <1>6, <1>7 DEF ClickSound
<1>. QED
  BY <1>2, <1>3, <1>4, <1>8, OwnStep DEF IInv

(* A job queued is one whose order was moved, and it leaves the list of those *)
(* to come as it gets its ticket.                                            *)
LEMMA QueueNextSound ==
  ASSUME IInv, NEW c \in Clicks, NEW j \in Jobs, QueueNext(c, j)
  PROVE  IInv'
<1>. DEFINE r == [click[c] EXCEPT !.unsent = click[c].unsent \ {j},
                    !.phase = IF click[c].unsent = {j} THEN "done" ELSE "queue"]
<1>1. click[c] \in Click /\ click[c].phase = "queue" /\ click[c].batch = {}
  BY DEF IInv, TypeOK, QueueNext
<1>2. j \in click[c].unsent
  BY DEF QueueNext, Upcoming, HalfSent, Papers
<1>3. /\ r \in Click /\ r.phase \in {"queue", "done"} /\ r.batch = {}
      /\ r.moved = click[c].moved /\ r.accepted = click[c].accepted
      /\ r.unsent = click[c].unsent \ {j}
      /\ (r.phase = "queue") <=> (r.unsent # {})
  BY <1>1, <1>2 DEF Click
<1>4. click' = [click EXCEPT ![c] = r] /\ status' = status
  BY <1>1 DEF QueueNext, IInv, TypeOK
<1>. HIDE DEF r
<1>5. /\ click'[c] = r
      /\ \A k \in Clicks \ {c} : click'[k] = click[k]
  BY <1>4 DEF IInv, TypeOK
<1>6. /\ tickets' = [tickets EXCEPT ![j] = @ + 1] /\ tickets \in [Jobs -> Nat]
  BY DEF QueueNext, IInv, TypeOK
<1>7. /\ tickets'[j] > 0
      /\ \A i \in Jobs : i # j => tickets'[i] = tickets[i]
      /\ tickets' \in [Jobs -> Nat]
  BY <1>6
<1>8. \A o \in Orders : Moved(o)' <=> Moved(o)
  BY <1>3, <1>5 DEF Moved
<1>9. TypeOK'
  BY <1>3, <1>4, <1>5, <1>7 DEF IInv, TypeOK
<1>10. Forward
  BY <1>4, <1>7, <1>8 DEF Forward, Jobs
<1>11. \A o \in Orders, p \in Papers : <<o, p>> \in click[c].unsent => Moved(o)
  BY DEF IInv, ClickSound
<1>12. \A o \in Orders : OrderSound(o)'
  BY <1>2, <1>4, <1>7, <1>8, <1>11 DEF IInv, OrderSound, Jobs
<1>13. \A o \in r.moved, p \in Papers :
         Seen(c, o)' /\ status'[o] = "KOT_PRINTED"
         => <<o, p>> \in r.unsent \/ tickets'[<<o, p>>] > 0
  <2> SUFFICES ASSUME NEW o \in r.moved, NEW p \in Papers,
                      Seen(c, o)', status'[o] = "KOT_PRINTED", <<o, p>> # j
               PROVE  <<o, p>> \in r.unsent \/ tickets'[<<o, p>>] > 0
    BY <1>7
  <2>1. o \in Orders /\ <<o, p>> \in Jobs
    BY <1>1, <1>3 DEF Click, Jobs
  <2>2. Seen(c, o) /\ status[o] = "KOT_PRINTED"
    BY <1>3, <1>4, <1>5 DEF Seen
  <2>3. <<o, p>> \in click[c].unsent \/ tickets[<<o, p>>] > 0
    BY <1>1, <1>3, <2>2 DEF IInv, ClickSound
  <2>. QED
    BY <1>3, <1>7, <2>1, <2>3
<1>14. ClickSound(c)'
  BY <1>3, <1>5, <1>8, <1>11, <1>13 DEF ClickSound
<1>15. \A k \in Clicks \ {c} : ClickSound(k)'
  BY <1>5, <1>10, BystanderSound
<1>. QED
  BY <1>9, <1>12, <1>14, <1>15 DEF IInv

(* The allow-list has no way back to a status before KOT_PRINTED.            *)
LEMMA NoWayBack ==
  ASSUME NEW from, NEW to, NEW role, IsTransitionAllowed(from, to, role),
         from \notin {"ENQUIRY", "QUOTED", "RECEIVED", "ACCEPTED"}
  PROVE  to \notin {"ENQUIRY", "QUOTED", "RECEIVED", "ACCEPTED"}
BY DEF IsTransitionAllowed, AdminEdges, KitchenEdges, SupportOutcomes

LEMMA MoveOnSound ==
  ASSUME IInv, NEW o \in Orders, NEW to \in Onward, NEW role \in Roles, MoveOn(o, to, role)
  PROVE  IInv'
<1>1. /\ UNCHANGED <<click, tickets>> /\ to # "KOT_PRINTED" /\ to \in OrderStatuses
      /\ status' = [status EXCEPT ![o] = to]
      /\ IsTransitionAllowed(status[o], to, role)
  BY KotAssumption DEF MoveOn
<1>2. /\ status'[o] = to
      /\ \A p \in Orders \ {o} : status'[p] = status[p]
  BY <1>1 DEF IInv, TypeOK
<1>3. TypeOK'
  BY <1>1 DEF IInv, TypeOK
<1>4. \A p \in Orders : Moved(p)' <=> Moved(p)
  BY <1>1 DEF Moved
<1>5. Forward
  BY <1>1, <1>2, <1>4 DEF Forward
<1>6. Moved(o) => to \notin {"ENQUIRY", "QUOTED", "RECEIVED", "ACCEPTED"}
  BY <1>1, NoWayBack DEF IInv, OrderSound
<1>7. \A p \in Orders : OrderSound(p)'
  BY <1>1, <1>2, <1>4, <1>6 DEF IInv, OrderSound
<1>8. \A c \in Clicks : ClickSound(c)'
  BY <1>1, <1>5, BystanderSound
<1>. QED
  BY <1>3, <1>7, <1>8 DEF IInv

-----------------------------------------------------------------------------
LEMMA StepSound == IInv /\ [Next]_vars => IInv'
<1> SUFFICES ASSUME IInv, [Next]_vars PROVE IInv'
  OBVIOUS
<1>1. CASE \E c \in RunClicks, picked \in SUBSET Orders : PressRun(c, picked)
  BY <1>1, PressRunSound
<1>2. CASE \E c \in RunClicks : ReadRun(c) \/ Reread(c)
  BY <1>2, ReadRunSound, RereadSound
<1>3. CASE \E c \in RunClicks, o \in Orders : MoveNext(c, o)
  BY <1>3, MoveNextSound
<1>4. CASE \E c \in OrderClicks, o \in Orders : PressOrder(c, o)
  BY <1>4, PressOrderSound
<1>5. CASE \E c \in Clicks : Render(c) \/ Fail(c) \/ (\E j \in Jobs : QueueNext(c, j))
  BY <1>5, RenderSound, QueueNextSound, FailSound
<1>6. CASE \E o \in Orders, to \in Onward, role \in Roles : MoveOn(o, to, role)
  BY <1>6, MoveOnSound
<1>7. CASE UNCHANGED vars
  BY <1>7 DEF vars, IInv, TypeOK, OrderSound, ClickSound, Moved, Seen, Clicks
<1>. QED
  BY <1>1, <1>2, <1>3, <1>4, <1>5, <1>6, <1>7 DEF Next

LEMMA AlwaysSound == Spec => []IInv
BY InitSound, StepSound, PTL DEF Spec

(* Every click's record keeps its shape, and a click asks for a page exactly *)
(* when it has something to print.                                           *)
THEOREM KotTypeCorrect == Spec => []TypeOK
<1>1. IInv => TypeOK
  BY DEF IInv
<1>. QED
  BY <1>1, AlwaysSound, PTL

(* No ticket without a click that moved its order from ACCEPTED to           *)
(* KOT_PRINTED, however many clicks read and wait at once.                   *)
THEOREM NoTicketUnmoved == Spec => []TicketsHaveAMove
<1>1. IInv => TicketsHaveAMove
  BY DEF IInv, OrderSound, TicketsHaveAMove, MovedBy, Moved
<1>. QED
  BY <1>1, AlwaysSound, PTL

(* A click that ended well has tickets in the queue for every order it had   *)
(* seen ACCEPTED, moved, and left in KOT_PRINTED.                            *)
THEOREM SeenIsPrinted == Spec => []SeenAndMovedHasTicket
<1>1. IInv => SeenAndMovedHasTicket
  <2> SUFFICES ASSUME IInv, NEW c \in Clicks, click[c].phase = "done",
                      NEW o \in click[c].moved, Seen(c, o), status[o] = "KOT_PRINTED",
                      NEW p \in Papers
               PROVE  tickets[<<o, p>>] > 0
    BY DEF SeenAndMovedHasTicket, Seen
  <2>1. click[c].unsent = {}
    BY DEF IInv, TypeOK
  <2>. QED
    BY <2>1 DEF IInv, ClickSound
<1>. QED
  BY <1>1, AlwaysSound, PTL

-----------------------------------------------------------------------------
(* Copies.  A ticket of an order is queued by a click that had it still to   *)
(* come and then has it no more, wherever the click fails afterwards; that   *)
(* click moved the order or had seen it ACCEPTED; and no two clicks move the *)
(* same order.                                                               *)

Concerns(c, o) == o \in click[c].accepted \cup click[c].moved

Past == {"queue", "done", "failed"}

Printers(o, p) ==
  {c \in Clicks : click[c].phase \in Past /\ Concerns(c, o) /\ <<o, p>> \notin click[c].unsent}

Racers(o) == {c \in RunClicks : o \in click[c].accepted \ click[c].moved}

OneMover ==
  \A c, d \in Clicks : \A o \in Orders : o \in click[c].moved /\ o \in click[d].moved => c = d

BatchSound(c) ==
  /\ c \in OrderClicks => click[c].accepted = {}
  /\ \A o \in click[c].batch : Concerns(c, o)
  /\ \A o \in Orders, p \in Papers : <<o, p>> \in click[c].unsent => Concerns(c, o)
  /\ click[c].phase = "unpressed" => click[c].accepted = {} /\ click[c].batch = {}

CopyInv ==
  /\ OneMover
  /\ \A c \in Clicks : BatchSound(c)
  /\ \A o \in Orders, p \in Papers : tickets[<<o, p>>] <= Cardinality(Printers(o, p))

(* An order was moved by one click at most. *)
LEMMA AtMostOneMover ==
  ASSUME OneMover, NEW o \in Orders
  PROVE  IsFiniteSet(MovedBy(o)) /\ Cardinality(MovedBy(o)) <= 1
<1>1. CASE MovedBy(o) = {}
  BY <1>1, FS_EmptySet
<1>2. CASE MovedBy(o) # {}
  <2>1. PICK c \in Clicks : o \in click[c].moved
    BY <1>2 DEF MovedBy
  <2>2. MovedBy(o) = {c}
    BY <2>1 DEF MovedBy, OneMover
  <2>3. IsFiniteSet({c}) /\ Cardinality({c}) = 1
    BY FS_Singleton
  <2>. QED
    BY <2>2, <2>3
<1>. QED
  BY <1>1, <1>2

(* So the clicks that printed it are that one and those that lost the race. *)
LEMMA FewPrint ==
  ASSUME OneMover, \A c \in Clicks : BatchSound(c), NEW o \in Orders, NEW p \in Papers
  PROVE  /\ IsFiniteSet(Printers(o, p))
         /\ Cardinality(Printers(o, p)) \in Nat
         /\ Cardinality(Racers(o)) \in Nat
         /\ Cardinality(Printers(o, p)) <= 1 + Cardinality(Racers(o))
<1>1. IsFiniteSet(MovedBy(o)) /\ Cardinality(MovedBy(o)) <= 1 /\ Cardinality(MovedBy(o)) \in Nat
  BY AtMostOneMover, FS_CardinalityType
<1>2. Racers(o) \in SUBSET RunClicks
  BY DEF Racers
<1>3. IsFiniteSet(Racers(o)) /\ Cardinality(Racers(o)) \in Nat
  BY <1>2, KotAssumption, FS_Subset, FS_CardinalityType
<1>4. Printers(o, p) \in SUBSET (MovedBy(o) \cup Racers(o))
  BY DEF Printers, Concerns, MovedBy, Racers, Clicks, BatchSound
<1>5. /\ IsFiniteSet(MovedBy(o) \cup Racers(o))
      /\ Cardinality(MovedBy(o) \cup Racers(o)) =
           Cardinality(MovedBy(o)) + Cardinality(Racers(o)) - Cardinality(MovedBy(o) \cap Racers(o))
  BY <1>1, <1>3, FS_Union
<1>6. Cardinality(MovedBy(o) \cap Racers(o)) \in Nat
  <2>1. MovedBy(o) \cap Racers(o) \in SUBSET Racers(o)
    OBVIOUS
  <2>2. IsFiniteSet(MovedBy(o) \cap Racers(o))
    BY <2>1, <1>3, FS_Subset
  <2>. QED
    BY <2>2, FS_CardinalityType
<1>7. /\ IsFiniteSet(Printers(o, p)) /\ Cardinality(Printers(o, p)) \in Nat
      /\ Cardinality(Printers(o, p)) <= Cardinality(MovedBy(o) \cup Racers(o))
  <2>1. IsFiniteSet(Printers(o, p)) /\ Cardinality(Printers(o, p)) <= Cardinality(MovedBy(o) \cup Racers(o))
    BY <1>4, <1>5, FS_Subset
  <2>. QED
    BY <2>1, FS_CardinalityType
<1>. QED
  BY <1>1, <1>3, <1>5, <1>6, <1>7

(* What a click's step owes to the account of copies: it moves only what no   *)
(* click moved before, and queues a ticket only as it ends.                   *)
LEMMA CopyStep ==
  ASSUME IInv, CopyInv, NEW c \in Clicks, NEW r \in Click,
         click' = [click EXCEPT ![c] = r],
         click[c].phase \in Past =>
           /\ r.phase \in Past /\ r.unsent \subseteq click[c].unsent
           /\ click[c].accepted \cup click[c].moved \subseteq r.accepted \cup r.moved,
         \A o \in r.moved : o \in click[c].moved \/ ~Moved(o),
         c \in OrderClicks => r.accepted = {},
         r.batch \subseteq r.accepted \cup r.moved,
         \A o \in Orders, p \in Papers :
           <<o, p>> \in r.unsent => o \in r.accepted \cup r.moved,
         r.phase # "unpressed",
         \A o \in Orders, p \in Papers :
           \/ tickets'[<<o, p>>] = tickets[<<o, p>>]
           \/ /\ tickets'[<<o, p>>] = tickets[<<o, p>>] + 1
              /\ <<o, p>> \in click[c].unsent \ r.unsent
              /\ r.phase \in Past /\ o \in r.accepted \cup r.moved
  PROVE  CopyInv'
<1>1. click'[c] = r /\ \A d \in Clicks : d # c => click'[d] = click[d]
  BY DEF IInv, TypeOK
<1>2. \A d \in Clicks : click[d] \in Click
  BY DEF IInv, TypeOK
<1>3. OneMover'
  <2>1. ASSUME NEW d \in Clicks, d # c, NEW o \in Orders, o \in r.moved, o \in click[d].moved
        PROVE  FALSE
    <3>1. o \in click[c].moved
      BY <2>1 DEF Moved
    <3>. QED
      BY <2>1, <3>1 DEF CopyInv, OneMover
  <2>. QED
    BY <2>1, <1>1 DEF CopyInv, OneMover
<1>4. \A d \in Clicks : BatchSound(d)'
  <2>1. BatchSound(c)'
    BY <1>1 DEF BatchSound, Concerns
  <2>2. \A d \in Clicks : d # c => BatchSound(d)'
    BY <1>1 DEF CopyInv, BatchSound, Concerns
  <2>. QED
    BY <2>1, <2>2
<1>5. ASSUME NEW o \in Orders, NEW p \in Papers
      PROVE  tickets'[<<o, p>>] <= Cardinality(Printers(o, p))'
  <2>1. PICK before : before = Printers(o, p)
    OBVIOUS
  <2>2. PICK after : after = Printers(o, p)'
    OBVIOUS
  <2>3. /\ IsFiniteSet(before) /\ Cardinality(before) \in Nat
        /\ tickets[<<o, p>>] <= Cardinality(before)
    BY <2>1, FewPrint DEF CopyInv
  <2>4. IsFiniteSet(after) /\ Cardinality(after) \in Nat
    <3>1. after \in SUBSET (before \cup {c})
      BY <2>1, <2>2, <1>1 DEF Printers, Concerns
    <3>2. IsFiniteSet(before \cup {c})
      BY <2>3, FS_AddElement
    <3>. QED
      BY <3>1, <3>2, FS_Subset, FS_CardinalityType
  <2>5. before \in SUBSET after
    <3>1. ASSUME NEW d \in before PROVE d \in after
      <4>1. d \in Clicks /\ click[d].phase \in Past /\ Concerns(d, o) /\ <<o, p>> \notin click[d].unsent
        BY <2>1, <3>1 DEF Printers
      <4>2. CASE d = c
        BY <2>2, <4>1, <4>2, <1>1 DEF Printers, Concerns
      <4>3. CASE d # c
        BY <2>2, <4>1, <4>3, <1>1 DEF Printers, Concerns
      <4>. QED
        BY <4>2, <4>3
    <3>. QED
      BY <3>1
  <2>6. Cardinality(before) <= Cardinality(after)
    BY <2>4, <2>5, FS_Subset
  <2>7. tickets[<<o, p>>] \in Nat
    BY DEF IInv, TypeOK, Jobs
  <2>8. CASE tickets'[<<o, p>>] = tickets[<<o, p>>]
    BY <2>2, <2>3, <2>4, <2>6, <2>7, <2>8
  <2>9. CASE /\ tickets'[<<o, p>>] = tickets[<<o, p>>] + 1
             /\ <<o, p>> \in click[c].unsent \ r.unsent
             /\ r.phase \in Past /\ o \in r.accepted \cup r.moved
    <3>1. c \in after /\ c \notin before
      BY <2>1, <2>2, <2>9, <1>1 DEF Printers, Concerns
    <3>2. /\ IsFiniteSet(before \cup {c}) /\ Cardinality(before \cup {c}) = Cardinality(before) + 1
      BY <2>3, <3>1, FS_AddElement
    <3>3. Cardinality(before \cup {c}) <= Cardinality(after)
      BY <2>4, <2>5, <3>1, FS_Subset
    <3>. QED
      BY <2>2, <2>3, <2>4, <2>7, <2>9, <3>2, <3>3
  <2>. QED
    BY <2>8, <2>9
<1>. QED
  BY <1>3, <1>4, <1>5 DEF CopyInv

LEMMA CopyInit == Init => CopyInv
<1> SUFFICES ASSUME Init PROVE CopyInv
  OBVIOUS
<1>1. \A c \in Clicks : click[c] = Unpressed
  BY DEF Init
<1>2. OneMover /\ \A c \in Clicks : BatchSound(c)
  BY <1>1 DEF OneMover, BatchSound, Unpressed
<1>3. ASSUME NEW o \in Orders, NEW p \in Papers
      PROVE  tickets[<<o, p>>] <= Cardinality(Printers(o, p))
  <2>1. Cardinality(Printers(o, p)) \in Nat
    BY <1>2, FewPrint
  <2>. QED
    BY <2>1 DEF Init, Jobs
<1>. QED
  BY <1>2, <1>3 DEF CopyInv

LEMMA CopyNext ==
  ASSUME IInv, CopyInv, [Next]_vars
  PROVE  CopyInv'
<1>1. /\ \A c \in Clicks : click[c] \in Click /\ BatchSound(c) /\ ClickSound(c)
      /\ RunClicks \subseteq Clicks /\ OrderClicks \subseteq Clicks
      /\ click \in [Clicks -> Click] /\ tickets \in [Jobs -> Nat]
      /\ \A c \in Clicks : click[c].phase \notin {"queue"} => click[c].unsent = {}
  BY DEF IInv, CopyInv, TypeOK, Clicks
<1>2. \A c \in RunClicks : c \notin OrderClicks
  BY KotAssumption
<1>3. ASSUME NEW c \in RunClicks, NEW picked \in SUBSET Orders, PressRun(c, picked) PROVE CopyInv'
  <2>1. PICK r : r = [Unpressed EXCEPT !.phase = "read", !.picked = picked, !.accepted = Snapshot(picked)]
    OBVIOUS
  <2>2. r \in Click /\ r.phase = "read" /\ r.moved = {} /\ r.batch = {} /\ r.unsent = {}
    BY <2>1 DEF Click, Unpressed, Snapshot, Pick, WithStatus
  <2>3. click' = [click EXCEPT ![c] = r] /\ UNCHANGED tickets /\ click[c].phase = "unpressed"
    BY <1>3, <2>1 DEF PressRun
  <2>. QED
    BY <1>1, <1>2, <2>2, <2>3, CopyStep DEF Past
<1>4. ASSUME NEW c \in RunClicks, ReadRun(c) PROVE CopyInv'
  <2>1. PICK r : r = [click[c] EXCEPT !.phase = "move", !.picked = {},
                        !.todo = WithStatus(Pick(Orders, click[c].picked), "ACCEPTED")]
    OBVIOUS
  <2>2. /\ r \in Click /\ r.phase = "move" /\ r.moved = click[c].moved
        /\ r.batch = click[c].batch /\ r.accepted = click[c].accepted
        /\ r.unsent = click[c].unsent
    BY <1>1, <2>1 DEF Click, Pick, WithStatus
  <2>3. click' = [click EXCEPT ![c] = r] /\ UNCHANGED tickets /\ click[c].phase = "read"
    BY <1>1, <1>4, <2>1 DEF ReadRun
  <2>4. r.batch \subseteq r.accepted \cup r.moved
    BY <1>1, <2>2 DEF BatchSound, Concerns
  <2>. QED
    BY <1>1, <1>2, <2>2, <2>3, <2>4, CopyStep DEF Past
<1>5. ASSUME NEW c \in RunClicks, Reread(c) PROVE CopyInv'
  <2>1. PICK r : r = [click[c] EXCEPT !.batch = PrintedNow(c), !.phase = AfterReread(c)]
    OBVIOUS
  <2>2. /\ r \in Click /\ r.phase \in {"done", "print"} /\ r.moved = click[c].moved
        /\ r.batch \subseteq click[c].accepted /\ r.accepted = click[c].accepted
        /\ r.unsent = click[c].unsent
    BY <1>1, <2>1 DEF Click, PrintedNow, AfterReread, WithStatus
  <2>3. click' = [click EXCEPT ![c] = r] /\ UNCHANGED tickets /\ click[c].phase = "move"
    BY <1>1, <1>5, <2>1 DEF Reread
  <2>. QED
    BY <1>1, <1>2, <2>2, <2>3, CopyStep DEF Past
<1>6. ASSUME NEW c \in RunClicks, NEW o \in Orders, MoveNext(c, o) PROVE CopyInv'
  <2>1. status[o] = "ACCEPTED" => ~Moved(o)
    BY DEF IInv, OrderSound
  <2>2. PICK r : r = IF status[o] = "ACCEPTED"
                     THEN [click[c] EXCEPT !.todo = @ \ {o}, !.moved = @ \cup {o}]
                     ELSE [click[c] EXCEPT !.todo = @ \ {o}]
    OBVIOUS
  <2>3. /\ r \in Click /\ r.phase = click[c].phase
        /\ r.batch = click[c].batch /\ r.accepted = click[c].accepted
        /\ r.unsent = click[c].unsent
        /\ r.moved = IF status[o] = "ACCEPTED" THEN click[c].moved \cup {o} ELSE click[c].moved
    BY <1>1, <2>2 DEF Click
  <2>4. click' = [click EXCEPT ![c] = r] /\ UNCHANGED tickets /\ click[c].phase = "move"
    BY <1>1, <1>6, <2>2 DEF MoveNext
  <2>5. r.batch \subseteq r.accepted \cup r.moved
    BY <1>1, <2>3 DEF BatchSound, Concerns
  <2>6. \A p \in r.moved : p \in click[c].moved \/ ~Moved(p)
    BY <2>1, <2>3
  <2>7. c \in Clicks /\ c \notin OrderClicks /\ r.phase = "move"
    BY <1>1, <1>2, <2>3, <2>4
  <2>8. tickets' = tickets /\ r.unsent = {} /\ click[c].phase \notin Past
    BY <1>1, <2>3, <2>4 DEF Past
  <2>. QED
    BY <2>3, <2>4, <2>5, <2>6, <2>7, <2>8, CopyStep
<1>7. ASSUME NEW c \in OrderClicks, NEW o \in Orders, PressOrder(c, o) PROVE CopyInv'
  <2>1. status[o] = "ACCEPTED" => ~Moved(o)
    BY DEF IInv, OrderSound
  <2>2. /\ click[c].moved = {} /\ click[c].accepted = {} /\ click[c].batch = {}
        /\ click[c].unsent = {}
    BY <1>1, <1>7 DEF PressOrder, ClickSound, BatchSound
  <2>3. PICK r : r = IF Moves(o)
                     THEN [Unpressed EXCEPT !.phase = "print", !.moved = {o}, !.batch = {o}]
                     ELSE [click[c] EXCEPT !.phase = "done"]
    OBVIOUS
  <2>4. /\ r \in Click /\ r.phase \in {"print", "done"} /\ r.accepted = {}
        /\ r.moved = IF Moves(o) THEN {o} ELSE {}
        /\ r.batch = IF Moves(o) THEN {o} ELSE {}
        /\ r.unsent = {}
    BY <1>1, <2>2, <2>3 DEF Click, Unpressed
  <2>5. click' = [click EXCEPT ![c] = r] /\ UNCHANGED tickets /\ click[c].phase = "unpressed"
    BY <1>1, <1>7, <2>3 DEF PressOrder
  <2>. QED
    BY <1>1, <2>1, <2>4, <2>5, CopyStep DEF Moves, Past
<1>8. ASSUME NEW c \in Clicks, Render(c) PROVE CopyInv'
  <2>1. PICK r : r = [click[c] EXCEPT !.phase = "queue", !.batch = {}, !.unsent = OnPage(c) \X Papers]
    OBVIOUS
  <2>2. OnPage(c) = click[c].batch /\ click[c].batch \in SUBSET Orders /\ click[c].phase = "print"
    BY <1>1, <1>8 DEF Render, Matches, Click
  <2>3. /\ r \in Click /\ r.phase = "queue" /\ r.moved = click[c].moved
        /\ r.batch = {} /\ r.accepted = click[c].accepted
        /\ r.unsent = click[c].batch \X Papers
    <3>1. click[c].batch \X Papers \in SUBSET Jobs
      BY <2>2 DEF Jobs
    <3>2. r = [click[c] EXCEPT !.phase = "queue", !.batch = {}, !.unsent = click[c].batch \X Papers]
      BY <2>1, <2>2
    <3>. QED
      BY <1>1, <3>1, <3>2 DEF Click
  <2>4. click' = [click EXCEPT ![c] = r] /\ UNCHANGED tickets
    BY <1>1, <1>8, <2>1 DEF Render
  <2>5. c \in OrderClicks => r.accepted = {}
    BY <1>1, <2>3 DEF BatchSound
  <2>6. \A o \in Orders, p \in Papers : <<o, p>> \in r.unsent => o \in r.accepted \cup r.moved
    BY <1>1, <2>3 DEF BatchSound, Concerns
  <2>7. click[c].phase \notin Past
    BY <2>2 DEF Past
  <2>. QED
    BY <2>3, <2>4, <2>5, <2>6, <2>7, CopyStep
<1>9. ASSUME NEW c \in Clicks, NEW j \in Jobs, QueueNext(c, j) PROVE CopyInv'
  <2>1. PICK r : r = [click[c] EXCEPT !.unsent = click[c].unsent \ {j},
                        !.phase = IF click[c].unsent = {j} THEN "done" ELSE "queue"]
    OBVIOUS
  <2>2. /\ r \in Click /\ r.phase \in {"queue", "done"} /\ r.moved = click[c].moved
        /\ r.batch = click[c].batch /\ r.accepted = click[c].accepted
        /\ r.unsent = click[c].unsent \ {j}
    BY <1>1, <2>1 DEF Click
  <2>3. click' = [click EXCEPT ![c] = r]
    BY <1>1, <1>9, <2>1 DEF QueueNext
  <2>4. j \in click[c].unsent
    BY <1>9 DEF QueueNext, Upcoming, HalfSent, Papers
  <2>5. \A o \in Orders, p \in Papers : <<o, p>> \in click[c].unsent => o \in r.accepted \cup r.moved
    BY <1>1, <2>2 DEF BatchSound, Concerns
  <2>6. \A o \in Orders, p \in Papers :
          \/ tickets'[<<o, p>>] = tickets[<<o, p>>]
          \/ /\ tickets'[<<o, p>>] = tickets[<<o, p>>] + 1
             /\ <<o, p>> \in click[c].unsent \ r.unsent
    BY <1>1, <1>9, <2>2, <2>4 DEF QueueNext, Jobs
  <2>7. c \in OrderClicks => r.accepted = {}
    BY <1>1, <2>2 DEF BatchSound
  <2>8. r.batch \subseteq r.accepted \cup r.moved
    BY <1>1, <2>2 DEF BatchSound, Concerns
  <2>9. r.phase \in Past /\ r.phase # "unpressed"
    BY <2>2 DEF Past
  <2>. QED
    BY <2>2, <2>3, <2>5, <2>6, <2>7, <2>8, <2>9, CopyStep
<1>11. ASSUME NEW c \in Clicks, Fail(c) PROVE CopyInv'
  <2>1. PICK r : r = [click[c] EXCEPT !.phase = "failed", !.todo = {}, !.batch = {}, !.unsent = {}]
    OBVIOUS
  <2>2. /\ r \in Click /\ r.phase = "failed" /\ r.moved = click[c].moved
        /\ r.batch = {} /\ r.unsent = {} /\ r.accepted = click[c].accepted
    BY <1>1, <2>1 DEF Click
  <2>3. click' = [click EXCEPT ![c] = r] /\ UNCHANGED tickets
    BY <1>1, <1>11, <2>1 DEF Fail
  <2>4. c \in OrderClicks => r.accepted = {}
    BY <1>1, <2>2 DEF BatchSound
  <2>. QED
    BY <2>2, <2>3, <2>4, CopyStep DEF Past
<1>10. CASE UNCHANGED <<click, tickets>>
  BY <1>10 DEF CopyInv, OneMover, BatchSound, Concerns, Printers
<1>. QED
  BY <1>3, <1>4, <1>5, <1>6, <1>7, <1>8, <1>9, <1>10, <1>11 DEF Next, MoveOn, vars

(* generateRunKot and generateKot: an order is moved once, and printed once   *)
(* and once more at most for each train click that lost the race to move it.  *)
THEOREM EachCopyIsExplained == Spec => []CopiesExplained
<1>1. IInv /\ CopyInv /\ [Next]_vars => IInv' /\ CopyInv'
  BY StepSound, CopyNext
<1>2. Init => IInv /\ CopyInv
  BY InitSound, CopyInit
<1>3. IInv /\ CopyInv => CopiesExplained
  <2> SUFFICES ASSUME IInv, CopyInv, NEW o \in Orders, NEW p \in Papers
               PROVE  /\ Cardinality(MovedBy(o)) <= 1
                      /\ tickets[<<o, p>>] <= 1 + Cardinality(Racers(o))
    BY DEF CopiesExplained, Racers, Papers
  <2>1. Cardinality(MovedBy(o)) <= 1
    BY AtMostOneMover DEF CopyInv
  <2>2. /\ Cardinality(Printers(o, p)) <= 1 + Cardinality(Racers(o))
        /\ Cardinality(Printers(o, p)) \in Nat /\ Cardinality(Racers(o)) \in Nat
    BY FewPrint DEF CopyInv
  <2>3. tickets[<<o, p>>] \in Nat /\ tickets[<<o, p>>] <= Cardinality(Printers(o, p))
    BY DEF IInv, TypeOK, CopyInv, Jobs
  <2>. QED
    BY <2>1, <2>2, <2>3
<1>. QED
  BY <1>1, <1>2, <1>3, PTL DEF Spec

-----------------------------------------------------------------------------
(* How this module fits with OrderLifecycle, which is shown to keep to the   *)
(* same path; no override is among the steps here.                           *)
Path == INSTANCE OrderPath WITH OverrideTargets <- {}

PathSpec == Path!Spec

(* Whatever order a click moves, on the store's board or the admin's, it is  *)
(* along the path every order takes, however old what the click has read.    *)
THEOREM KeepsToPath == Spec => PathSpec
<1>1. Init => Path!Init
  BY DEF Init, Path!Init, Path!Statuses, OrderStatuses, OpenStatuses
<1>2. IsTransitionAllowed("ACCEPTED", "KOT_PRINTED", "ADMIN")
  BY DEF IsTransitionAllowed, KitchenEdges
<1>3. "ADMIN" \in Roles /\ "KOT_PRINTED" \in OrderStatuses
  BY DEF Roles, OrderStatuses, OpenStatuses
<1>4. [Next]_vars => [Path!Next]_status
  <2> SUFFICES ASSUME Next, status' # status PROVE Path!Next
    BY DEF vars
  <2>1. ASSUME NEW o \in Orders, status[o] = "ACCEPTED", status' = [status EXCEPT ![o] = "KOT_PRINTED"]
        PROVE  Path!Next
    BY <1>2, <1>3, <2>1 DEF Path!MoveOn, Path!Next, Path!Step
  <2>2. ASSUME NEW o \in Orders, NEW to \in Onward, NEW role \in Roles, MoveOn(o, to, role)
        PROVE  Path!Next
    BY <2>2, KotAssumption DEF MoveOn, Path!MoveOn, Path!Next, Path!Step
  <2>3. ASSUME NEW c \in RunClicks, NEW o \in Orders, MoveNext(c, o) PROVE Path!Next
    BY <2>1, <2>3 DEF MoveNext
  <2>4. ASSUME NEW c \in OrderClicks, NEW o \in Orders, PressOrder(c, o) PROVE Path!Next
    BY <2>1, <2>4 DEF PressOrder, Moves
  <2>5. ASSUME \/ \E c \in RunClicks, picked \in SUBSET Orders : PressRun(c, picked)
               \/ \E c \in RunClicks : ReadRun(c) \/ Reread(c)
               \/ \E c \in Clicks : Render(c) \/ Fail(c)
               \/ \E c \in Clicks, j \in Jobs : QueueNext(c, j)
        PROVE  FALSE
    BY <2>5 DEF PressRun, ReadRun, Reread, Render, QueueNext, Fail
  <2>. QED
    BY <2>2, <2>3, <2>4, <2>5 DEF Next
<1>. QED
  BY <1>1, <1>4, PTL DEF Spec, PathSpec, Path!Spec
=============================================================================
