----------------------------- MODULE AlertFeed -----------------------------
(***************************************************************************)
(* The kitchen's alert that an order was cancelled, refunded, misdelivered *)
(* or filed as a rating order: a list read off the event log, a stream     *)
(* that sends it when it changes, a poll that takes over while the stream  *)
(* is silent, and one screen that shows what it last heard less what was   *)
(* dismissed.                                                              *)
(*                                                                         *)
(* recentCancellations (lib/repo/orderRepo.ts),                            *)
(* app/api/store/cancellations/route.ts and components/CancellationAlert.  *)
(*                                                                         *)
(* Every event advances the clock, so no two carry the same time.          *)
(***************************************************************************)
EXTENDS Integers, Sequences, FiniteSets, SequencesExt

CONSTANTS
  Orders,
  Window,      \* WINDOW_MINUTES, in clock ticks
  FeedLimit,   \* the limit of recentCancellations
  MaxVisible,  \* MAX_VISIBLE
  MaxPolls,    \* bound: polls on the wire at once
  MaxTime      \* bound: the last clock reading

ASSUME ConstantsAssumption ==
  /\ {Window, FeedLimit, MaxVisible, MaxTime} \subseteq Nat
  /\ MaxPolls \in Nat \ {0}
  /\ IsFiniteSet(Orders)

VARIABLES
  alertAt,  \* time of the last alert-status event of an order in an alert status, else Never
  now,      \* the server's clock
  stream,   \* the screen's EventSource and the list the server last sent on it
  polls,    \* lists answered to polls, still on their way to the screen
  items,    \* the list the screen holds
  acked     \* orders dismissed on this screen, kept in localStorage

server == <<alertAt, now>>
vars == <<alertAt, now, stream, polls, items, acked>>

Never == -1

Newer(o, p) == alertAt[o] > alertAt[p]

(* recentCancellations: the alerts of the window, newest first, up to the    *)
(* limit.  An alert's place is how many are as new as it is.                 *)
InWindow(o) == alertAt[o] # Never /\ alertAt[o] >= now - Window

Alerts == {o \in Orders : InWindow(o)}

Place(o) == Cardinality({p \in Alerts : p = o \/ Newer(p, o)})

FeedLength == IF Cardinality(Alerts) < FeedLimit THEN Cardinality(Alerts) ELSE FeedLimit

Feed == [k \in 1..FeedLength |-> CHOOSE o \in Alerts : Place(o) = k]

Holds(list, o) == \E i \in 1..Len(list) : list[i] = o

Init ==
  /\ alertAt = [o \in Orders |-> Never]
  /\ now = 0
  /\ stream = [up |-> "CLOSED", sent |-> << >>]
  /\ polls = {}
  /\ items = << >>
  /\ acked = {}

-----------------------------------------------------------------------------
(* The orders. *)

Event(o) ==
  /\ now < MaxTime
  /\ now' = now + 1
  /\ alertAt' = [alertAt EXCEPT ![o] = now + 1]
  /\ UNCHANGED <<stream, polls, items, acked>>

(* transitionOrder, flagRatingOrder or adminOverrideStatus moves it to an alert status. *)
Raise(o) == alertAt[o] = Never /\ Event(o)

(* A later event of an order already in one: an edit, an assignment, the      *)
(* refusal of a request.  Its toStatus is the order's own, an alert status.   *)
Renew(o) == alertAt[o] # Never /\ Event(o)

(* adminOverrideStatus moves it out again, or its document is deleted. *)
Withdraw(o) ==
  /\ alertAt[o] # Never
  /\ alertAt' = [alertAt EXCEPT ![o] = Never]
  /\ UNCHANGED <<now, stream, polls, items, acked>>

Tick == now < MaxTime /\ now' = now + 1 /\ UNCHANGED <<alertAt, stream, polls, items, acked>>

-----------------------------------------------------------------------------
(* The stream.  A proxy may hold it open and deliver nothing.              *)

Open ==
  /\ stream.up = "CLOSED"
  /\ \/ stream' = [up |-> "DELIVERING", sent |-> Feed] /\ items' = Feed
     \/ stream' = [up |-> "SILENT", sent |-> Feed] /\ UNCHANGED items
  /\ UNCHANGED <<alertAt, now, polls, acked>>

(* The signature: which orders, in which order. *)
Changed == Feed # stream.sent

ServerTick ==
  /\ stream.up # "CLOSED"
  /\ Changed
  /\ stream' = [stream EXCEPT !.sent = Feed]
  /\ items' = IF stream.up = "DELIVERING" THEN Feed ELSE items
  /\ UNCHANGED <<alertAt, now, polls, acked>>

GoSilent ==
  /\ stream.up = "DELIVERING"
  /\ stream' = [stream EXCEPT !.up = "SILENT"]
  /\ UNCHANGED <<alertAt, now, polls, items, acked>>

(* STREAM_LIFETIME_MS, or the connection drops. *)
Close ==
  /\ stream.up # "CLOSED"
  /\ stream' = [up |-> "CLOSED", sent |-> << >>]
  /\ UNCHANGED <<alertAt, now, polls, items, acked>>

-----------------------------------------------------------------------------
(* The poll: at the page's start, and while nothing was heard for STALE_MS.  *)

(* Mutant: only a closed stream is polled around. *)
Unheard_Closed == stream.up = "CLOSED"

Unheard == stream.up # "DELIVERING"

PollRead ==
  /\ Unheard
  /\ Cardinality(polls) < MaxPolls
  /\ Feed \notin polls
  /\ polls' = polls \cup {Feed}
  /\ UNCHANGED <<alertAt, now, stream, items, acked>>

PollLands(list) ==
  /\ list \in polls
  /\ polls' = polls \ {list}
  /\ items' = list
  /\ UNCHANGED <<alertAt, now, stream, acked>>

PollLost(list) ==
  /\ list \in polls
  /\ polls' = polls \ {list}
  /\ UNCHANGED <<alertAt, now, stream, items, acked>>

-----------------------------------------------------------------------------
(* The screen. *)
Showing == SelectSeq(items, LAMBDA o : o \notin acked)

(* showing.slice(-MAX_VISIBLE).reverse() *)
Visible ==
  LET n == IF Len(Showing) < MaxVisible THEN Len(Showing) ELSE MaxVisible
  IN  Reverse(SubSeq(Showing, Len(Showing) - n + 1, Len(Showing)))

Dismiss(o) ==
  /\ Holds(Visible, o)
  /\ acked' = acked \cup {o}
  /\ UNCHANGED <<alertAt, now, stream, polls, items>>

(* The page is opened again: its dismissals are kept, everything else starts over. *)
Reload ==
  /\ items' = << >>
  /\ polls' = {}
  /\ stream' = [up |-> "CLOSED", sent |-> << >>]
  /\ UNCHANGED <<alertAt, now, acked>>

-----------------------------------------------------------------------------
Next ==
  \/ \E o \in Orders : Raise(o) \/ Renew(o) \/ Withdraw(o) \/ Dismiss(o)
  \/ Tick \/ Open \/ ServerTick \/ GoSilent \/ Close \/ PollRead \/ Reload
  \/ \E list \in polls : PollLands(list) \/ PollLost(list)

(* The browser reconnects, the server's timers run, and the network carries an *)
(* answer now and then.                                                        *)
Fairness ==
  /\ WF_vars(Open) /\ WF_vars(ServerTick) /\ WF_vars(Close)
  /\ WF_vars(PollRead)
  /\ SF_vars(\E list \in polls : PollLands(list))

Spec == Init /\ [][Next]_vars /\ Fairness

-----------------------------------------------------------------------------
(* However the stream stalls and the polls come in, an alert the server      *)
(* lists reaches the screen, unless it leaves the list first.                *)
AlertReachesScreen ==
  \A o \in Orders : Holds(Feed, o) ~> (Holds(items, o) \/ ~Holds(Feed, o))

(* The other way round: an alert that has left the server's list - withdrawn, *)
(* out of its window, or crowded out - leaves the screen too, unless it is    *)
(* listed again first, though an older list may still be on its way.         *)
GoneLeavesScreen ==
  \A o \in Orders : (Holds(items, o) /\ ~Holds(Feed, o)) ~> (~Holds(items, o) \/ Holds(Feed, o))

(* "updatedAt moves on any later edit, which would keep re-raising an alert   *)
(* that was already dealt with": an alert that is past its window is not in   *)
(* it again unless its order is moved to an alert status anew.                *)
AlertFades == [][\A o \in Orders : alertAt[o] # Never /\ ~InWindow(o) => ~InWindow(o)']_vars

(* "Newest first, and only a few": the newest alert not dismissed is on the  *)
(* screen, above the others.                                                 *)
NewestIsOnTop == Showing # << >> => Visible[1] = Showing[1]
=============================================================================
