---------------------------- MODULE TicketPaper ----------------------------
(***************************************************************************)
(* What a station's print queue promises about each kitchen ticket: where  *)
(* its records put it, who may print it, and when they may call it         *)
(* printed.  This is the abstract specification PrintQueue implements; it  *)
(* knows nothing of polls, leases, batches, acks, retries or time.         *)
(*                                                                         *)
(* A ticket is out once paper came out for it, or once the print queue of  *)
(* the computer at the printer dropped it, which nobody tells from the     *)
(* first.  It goes out only while it is due: somebody was handed it and    *)
(* has not let go of it.  Where nothing prints by host the queue hands out *)
(* only what waits in it, and what was given up is never handed out again, *)
(* nor called printed.  Wherever it prints, a ticket is called printed     *)
(* only once it is out, and for good.                                      *)
(*                                                                         *)
(* One sweep of the queue may move many tickets, so a step moves each one  *)
(* by itself.                                                              *)
(***************************************************************************)
CONSTANTS
  Tickets,
  ByHost     \* BOOLEAN: the server also sends tickets to the printer itself

VARIABLES
  place,     \* where the records put each ticket
  due,       \* whether somebody has it to print
  out        \* whether paper has come out for it, or a print queue dropped it

tickets == <<place, due, out>>

Places == {"none", "waiting", "handed", "printed", "givenUp"}

Move(t, from, to) == place[t] \in from /\ place'[t] = to

Stays(t) == place'[t] = place[t]

SameOut(t) == out'[t] = out[t]

NoneHanded(t) == due'[t] => due[t]

Queue(t) == Move(t, {"none"}, "waiting") /\ SameOut(t) /\ (ByHost \/ NoneHanded(t))

HandOut(t) == Move(t, {"waiting"}, "handed") /\ SameOut(t) /\ due'[t]

(* The server takes it up to send it, wherever the records put it. *)
TakeUp(t) == ByHost /\ place[t] # "none" /\ Stays(t) /\ SameOut(t)

GoOut(t) == due[t] /\ out'[t] /\ Stays(t) /\ NoneHanded(t)

LetGo(t) == Stays(t) /\ SameOut(t) /\ NoneHanded(t)

TakeBack(t) == Move(t, {"handed"}, "waiting") /\ SameOut(t) /\ NoneHanded(t)

GiveUp(t) == Move(t, {"waiting", "handed"}, "givenUp") /\ SameOut(t) /\ NoneHanded(t)

Record(t) ==
  /\ out[t]
  /\ Move(t, {"handed"}, "printed") \/ (ByHost /\ due[t] /\ Move(t, {"waiting", "givenUp"}, "printed"))
  /\ SameOut(t) /\ NoneHanded(t)

Init ==
  /\ place = [t \in Tickets |-> "none"]
  /\ due = [t \in Tickets |-> FALSE]
  /\ out = [t \in Tickets |-> FALSE]

Next ==
  /\ place' \in [Tickets -> Places]
  /\ due' \in [Tickets -> BOOLEAN]
  /\ out' \in [Tickets -> BOOLEAN]
  /\ \A t \in Tickets :
       \/ LetGo(t) \/ Queue(t) \/ HandOut(t) \/ TakeUp(t) \/ GoOut(t)
       \/ TakeBack(t) \/ GiveUp(t) \/ Record(t)

Spec == Init /\ [][Next]_tickets
=============================================================================
