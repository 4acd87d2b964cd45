------------------------------ MODULE MailSync ------------------------------
(***************************************************************************)
(* Mail becomes orders: a sync reads the mailbox's history from a stored   *)
(* cursor and files each message as an order, a payment or an inbox row    *)
(* that an admin resolves.  lib/ingest/gmail/sync.ts, lib/ingest/index.ts, *)
(* lib/ingest/payments/index.ts and lib/repo/inboxRepo.ts.                 *)
(*                                                                         *)
(* A sync is started by the scheduler and by each push from the mailbox,   *)
(* and nothing keeps two of them apart.  Its steps are the awaits: each    *)
(* page of the history, each message, the two halves of filing a row, the  *)
(* write of the cursor.  A message is named by its place in the history.   *)
(***************************************************************************)
EXTENDS Integers, Sequences, FiniteSetsExt

CONSTANTS
  Refs,      \* external order ids and bank references: what a message is about
  Payments,  \* the bank references among them
  Indexed,   \* those whose collection has its unique index
  RefOf,     \* the reference of each message
  Readable,  \* the messages the parsers and outlets can read from the start
  NoRef,     \* of a message not to be filed: the mailbox's own, or its sender not listed
  Admin,     \* the admin at the inbox, who stores payments as the syncs do
  Syncs,     \* runs of syncGmailHistory that may overlap
  Cron,      \* the one of them the scheduler starts
  PageSize,  \* messages on one page of the history
  MaxMail,   \* bound: messages that arrive
  MaxClosings, \* bound: times an admin pastes mail, closes a row or deletes an order
  MaxFaults  \* bound: deaths of the server and calls that fail

Mail == 1..MaxMail

ASSUME ConstantsAssumption ==
  /\ NoRef \notin Refs
  /\ Payments \subseteq Refs /\ Refs \ Payments \subseteq Indexed
  /\ RefOf \in [Mail -> Refs \cup {NoRef}]
  /\ Cron \in Syncs /\ Admin \notin Syncs
  /\ PageSize \in Nat \ {0}
  /\ {MaxMail, MaxClosings, MaxFaults} \subseteq Nat

VARIABLES
  readable,  \* the parsers and the outlet's aliases can read it
  arrived,   \* messages in the mailbox: its newest history id
  horizon,   \* the mailbox no longer lists from a history id below this
  cursor,    \* IngestState.historyId
  lastError, \* IngestState.lastError is set
  made,      \* orders or payments stored under each reference
  deleted,   \* the orders an admin has deleted
  pending,   \* the payment each writer looked for, found missing and is about to insert
  rows,      \* the inbox rows of each message, oldest first
  sync,      \* where each sync is
  desk,      \* what the admin's paste or correction has still to do
  failed,    \* messages some sync failed to fetch or store
  gap,       \* messages behind a cursor seeded from the latest message
  raced,     \* payments that two writers were about to insert at once
  closings,
  faults

mailbox == <<readable, arrived, horizon>>
ledger == <<made, deleted, pending, raced>>
inbox == <<ledger, rows>>
counts == <<closings, faults>>
ghosts == <<failed, gap>>
vars == <<mailbox, cursor, lastError, inbox, sync, desk, ghosts, counts>>

Unseeded == -1

Idle == [step |-> "IDLE", at |-> 0, todo |-> {}, newest |-> 0, failed |-> FALSE]
AtRest == [step |-> "REST", of |-> 0, row |-> 0]

Writers == Syncs \cup {Admin}

Init ==
  /\ readable = [m \in Mail |-> m \in Readable]
  /\ arrived = 0 /\ horizon = 0
  /\ cursor = Unseeded
  /\ lastError = FALSE
  /\ made = [r \in Refs |-> 0] /\ deleted = {}
  /\ pending = [w \in Writers |-> NoRef] /\ raced = {}
  /\ rows = [m \in Mail |-> << >>]
  /\ sync = [s \in Syncs |-> Idle]
  /\ desk = AtRest
  /\ failed = {} /\ gap = {}
  /\ closings = 0 /\ faults = 0

(* What insertOrder and the insert half of recordPayment's upsert leave: under *)
(* a unique index the duplicate key is a no-op success.                      *)
Inserted(r) == IF r \in Indexed /\ made[r] > 0 THEN made ELSE [made EXCEPT ![r] = @ + 1]

(* Mutant: a payment is inserted without a look for the one that is there. *)
Missing_Unlooked(r) == r \in Payments

(* The look half of the upsert, keyed on the bank reference. *)
Missing(r) == r \in Payments /\ made[r] = 0

(* An order is one insert.  A payment that is missing is inserted in a step  *)
(* of its own, and another writer may have looked for it meanwhile.          *)
Looks(w, r) ==
  IF Missing(r)
  THEN /\ pending' = [pending EXCEPT ![w] = r]
       /\ raced' = IF \E v \in Writers : pending[v] = r THEN raced \cup {r} ELSE raced
       /\ UNCHANGED <<made, deleted>>
  ELSE /\ made' = IF r \in Payments THEN made ELSE Inserted(r)
       /\ UNCHANGED <<deleted, pending, raced>>

GivesUp(w) == pending' = [pending EXCEPT ![w] = NoRef]

Inserts(w) ==
  /\ made' = Inserted(pending[w])
  /\ GivesUp(w)
  /\ UNCHANGED <<deleted, raced>>

HasRow(m, state) == \E k \in 1..Len(rows[m]) : rows[m][k] = state

(* Its order or payment was stored, though an admin may have deleted it since. *)
Stored(r) == made[r] > 0 \/ r \in deleted

Handled(m) == rows[m] # << >> \/ (RefOf[m] \in Refs /\ Stored(RefOf[m]))

-----------------------------------------------------------------------------
(* The mailbox, and the parsers and outlets that grow to read more of it. *)

Arrive ==
  /\ arrived < MaxMail
  /\ arrived' = arrived + 1
  /\ UNCHANGED <<readable, horizon, cursor, lastError, inbox, sync, desk, ghosts, counts>>

Forget ==
  /\ horizon < arrived
  /\ horizon' = arrived
  /\ UNCHANGED <<readable, arrived, cursor, lastError, inbox, sync, desk, ghosts, counts>>

Teach(m) ==
  /\ ~readable[m]
  /\ readable' = [readable EXCEPT ![m] = TRUE]
  /\ UNCHANGED <<arrived, horizon, cursor, lastError, inbox, sync, desk, ghosts, counts>>

(* renewGmailWatch: only the first registration gives the cursor a value; *)
(* every one clears the error.                                            *)
RenewWatch ==
  /\ lastError' = FALSE
  /\ IF cursor = Unseeded
     THEN cursor' = arrived /\ gap' = 1..arrived
     ELSE UNCHANGED <<cursor, gap>>
  /\ UNCHANGED <<mailbox, inbox, sync, desk, failed, counts>>

-----------------------------------------------------------------------------
(* syncGmailHistory. *)

Goes(s, to) == sync' = [sync EXCEPT ![s] = to]

Start(s) ==
  /\ sync[s].step = "IDLE"
  /\ Goes(s, IF cursor = Unseeded
             THEN [Idle EXCEPT !.step = "SEED"]
             ELSE [Idle EXCEPT !.step = "LIST", !.at = cursor, !.newest = cursor])
  /\ UNCHANGED <<mailbox, cursor, lastError, inbox, desk, ghosts, counts>>

(* A page, and with it the mailbox's newest history id at that moment. *)
ListPage(s) ==
  LET w    == sync[s]
      upTo == IF w.at + PageSize < arrived THEN w.at + PageSize ELSE arrived
  IN  /\ w.step = "LIST"
      /\ w.at >= horizon
      /\ Goes(s, [w EXCEPT !.todo = @ \cup {m \in w.at + 1..upTo : RefOf[m] # NoRef},
                           !.at = upTo,
                           !.newest = arrived,
                           !.step = IF upTo = arrived THEN "FETCH" ELSE "LIST"])
      /\ UNCHANGED <<mailbox, cursor, lastError, inbox, desk, ghosts, counts>>

(* Mutant: what was listed before the failure is worth filing, and the pass goes on. *)
AfterListFails_CarryOn(w) == [w EXCEPT !.step = "FETCH"]

AfterListFails(w) == Idle

ListFails(s) ==
  /\ sync[s].step = "LIST"
  /\ faults < MaxFaults
  /\ faults' = faults + 1
  /\ lastError' = TRUE
  /\ Goes(s, AfterListFails(sync[s]))
  /\ UNCHANGED <<mailbox, cursor, inbox, desk, ghosts, closings>>

(* Mutant: a cursor too old to list from is an error like any other. *)
AfterTooOld_Nothing(w) == Idle

AfterTooOld(w) == [w EXCEPT !.step = "SEED"]

TooOld(s) ==
  /\ sync[s].step = "LIST"
  /\ sync[s].at < horizon
  /\ lastError' = TRUE
  /\ Goes(s, AfterTooOld(sync[s]))
  /\ UNCHANGED <<mailbox, cursor, inbox, desk, ghosts, counts>>

(* seedHistoryIdFromLatestMessage: read the latest message, then write its history id. *)
SeedRead(s) ==
  /\ sync[s].step = "SEED"
  /\ Goes(s, IF arrived = 0 THEN Idle ELSE [Idle EXCEPT !.step = "SEEDED", !.at = arrived])
  /\ UNCHANGED <<mailbox, cursor, lastError, inbox, desk, ghosts, counts>>

SeedWrite(s) ==
  /\ sync[s].step = "SEEDED"
  /\ cursor' = sync[s].at
  /\ lastError' = FALSE
  /\ gap' = gap \cup 1..sync[s].at
  /\ Goes(s, Idle)
  /\ UNCHANGED <<mailbox, inbox, desk, failed, counts>>

(* One message: ingestEmail.  Messages are taken in the order they were listed. *)
Done(w) == [w EXCEPT !.todo = @ \ {Min(@)}, !.step = "FETCH"]

Ingest(s) ==
  LET m == Min(sync[s].todo)
  IN  /\ sync[s].step = "FETCH"
      /\ sync[s].todo # {}
      /\ IF readable[m]
         THEN /\ Looks(s, RefOf[m])
              /\ Goes(s, IF Missing(RefOf[m]) THEN [sync[s] EXCEPT !.step = "INSERT"] ELSE Done(sync[s]))
         ELSE /\ Goes(s, IF HasRow(m, "OPEN") THEN Done(sync[s]) ELSE [sync[s] EXCEPT !.step = "FILE"])
              /\ UNCHANGED ledger
      /\ UNCHANGED <<mailbox, cursor, lastError, rows, desk, ghosts, counts>>

InsertPayment(s) ==
  /\ sync[s].step = "INSERT"
  /\ Inserts(s)
  /\ Goes(s, Done(sync[s]))
  /\ UNCHANGED <<mailbox, cursor, lastError, rows, desk, ghosts, counts>>

(* recordUnparsed, once it has found no open row of the message. *)
File(s) ==
  LET m == Min(sync[s].todo)
  IN  /\ sync[s].step = "FILE"
      /\ rows' = [rows EXCEPT ![m] = Append(@, "OPEN")]
      /\ Goes(s, Done(sync[s]))
      /\ UNCHANGED <<mailbox, cursor, lastError, ledger, desk, ghosts, counts>>

IngestFails(s) ==
  /\ sync[s].step \in {"FETCH", "INSERT", "FILE"}
  /\ sync[s].todo # {}
  /\ faults < MaxFaults
  /\ faults' = faults + 1
  /\ failed' = failed \cup {Min(sync[s].todo)}
  /\ GivesUp(s)
  /\ Goes(s, [Done(sync[s]) EXCEPT !.failed = TRUE])
  /\ UNCHANGED <<mailbox, cursor, lastError, made, deleted, raced, rows, desk, gap, closings>>

Finish(s) ==
  /\ sync[s].step = "FETCH"
  /\ sync[s].todo = {}
  /\ cursor' = sync[s].newest
  /\ lastError' = sync[s].failed
  /\ Goes(s, Idle)
  /\ UNCHANGED <<mailbox, inbox, desk, ghosts, counts>>

Die(s) ==
  /\ sync[s].step # "IDLE"
  /\ faults < MaxFaults
  /\ faults' = faults + 1
  /\ GivesUp(s)
  /\ Goes(s, Idle)
  /\ UNCHANGED <<mailbox, cursor, lastError, made, deleted, raced, rows, desk, ghosts, closings>>

-----------------------------------------------------------------------------
(* The inbox: an admin works a row, from a page that may be out of date.    *)

Closes(m, k, state) == rows' = [rows EXCEPT ![m][k] = state]

(* ingestPastedEmail: mail pasted by hand is stored the same way.  One that   *)
(* cannot be read makes a row of no message, which no sync looks for.        *)
Paste(m) ==
  /\ desk = AtRest
  /\ RefOf[m] # NoRef /\ readable[m]
  /\ closings < MaxClosings
  /\ closings' = closings + 1
  /\ Looks(Admin, RefOf[m])
  /\ desk' = IF Missing(RefOf[m]) THEN [step |-> "INSERT", of |-> m, row |-> 0] ELSE AtRest
  /\ UNCHANGED <<mailbox, cursor, lastError, rows, sync, ghosts, faults>>

(* reingestInboxRow: the corrected body goes through the parsers, and then  *)
(* the row is closed, whatever has become of it meanwhile.                  *)
Reingest(m, k) ==
  /\ desk = AtRest
  /\ k \in 1..Len(rows[m])
  /\ closings < MaxClosings
  /\ closings' = closings + 1
  /\ Looks(Admin, RefOf[m])
  /\ desk' = [step |-> IF Missing(RefOf[m]) THEN "INSERT" ELSE "CLOSE", of |-> m, row |-> k]
  /\ UNCHANGED <<mailbox, cursor, lastError, rows, sync, ghosts, faults>>

DeskInserts ==
  /\ desk.step = "INSERT"
  /\ Inserts(Admin)
  /\ desk' = IF desk.row = 0 THEN AtRest ELSE [desk EXCEPT !.step = "CLOSE"]
  /\ UNCHANGED <<mailbox, cursor, lastError, rows, sync, ghosts, counts>>

CloseRow ==
  /\ desk.step = "CLOSE"
  /\ Closes(desk.of, desk.row, "FILED")
  /\ desk' = AtRest
  /\ UNCHANGED <<mailbox, cursor, lastError, ledger, sync, ghosts, counts>>

DeskDies ==
  /\ desk # AtRest
  /\ faults < MaxFaults
  /\ faults' = faults + 1
  /\ GivesUp(Admin)
  /\ desk' = AtRest
  /\ UNCHANGED <<mailbox, cursor, lastError, made, deleted, raced, rows, sync, ghosts, closings>>

(* deleteOrder, from the order's own page.  Nothing deletes a payment. *)
Delete(r) ==
  /\ r \notin Payments /\ made[r] > 0
  /\ closings < MaxClosings
  /\ closings' = closings + 1
  /\ made' = [made EXCEPT ![r] = @ - 1]
  /\ deleted' = deleted \cup {r}
  /\ UNCHANGED <<mailbox, cursor, lastError, pending, raced, rows, sync, desk, ghosts, faults>>

Dismiss(m, k) ==
  /\ k \in 1..Len(rows[m])
  /\ rows[m][k] = "OPEN"
  /\ closings < MaxClosings
  /\ closings' = closings + 1
  /\ Closes(m, k, "DISMISSED")
  /\ UNCHANGED <<mailbox, cursor, lastError, ledger, sync, desk, ghosts, faults>>

(* Mutant: whatever is closed may be opened again. *)
Reopenable_AnyClosed(state) == state # "OPEN"

Reopenable(state) == state = "DISMISSED"

Reopen(m, k) ==
  /\ k \in 1..Len(rows[m])
  /\ Reopenable(rows[m][k])
  /\ Closes(m, k, "OPEN")
  /\ UNCHANGED <<mailbox, cursor, lastError, ledger, sync, desk, ghosts, counts>>

-----------------------------------------------------------------------------
SyncStep(s) ==
  \/ Start(s) \/ ListPage(s) \/ TooOld(s) \/ SeedRead(s) \/ SeedWrite(s)
  \/ Ingest(s) \/ InsertPayment(s) \/ File(s) \/ Finish(s)

SyncFault(s) == ListFails(s) \/ IngestFails(s) \/ Die(s)

RowStep(m) == \E k \in 1..Len(rows[m]) : Reingest(m, k) \/ Dismiss(m, k) \/ Reopen(m, k)

Next ==
  \/ Arrive \/ Forget \/ RenewWatch
  \/ \E m \in Mail : Teach(m) \/ Paste(m) \/ RowStep(m)
  \/ \E s \in Syncs : SyncStep(s) \/ SyncFault(s)
  \/ DeskInserts \/ CloseRow \/ DeskDies
  \/ \E r \in Refs : Delete(r)

(* The scheduler calls again and again, and a sync that has started goes on. *)
Fairness ==
  /\ WF_vars(SyncStep(Cron))
  /\ \A s \in Syncs \ {Cron} : WF_vars(SyncStep(s) /\ sync[s].step # "IDLE")

Spec == Init /\ [][Next]_vars /\ Fairness

-----------------------------------------------------------------------------
(* A second order or payment under one reference is stored only where the     *)
(* ledger of payments lacks its unique index, and only by writers that were  *)
(* between the look and the insert at the same time: a replay of the mail, a *)
(* paste of it or the correction of its row never adds one.                  *)
StoredOnce == \A r \in Refs : made[r] <= 1 \/ (r \notin Indexed /\ r \in raced)

(* The cursor never passes a message that is neither filed nor excused: by a *)
(* failure of its own, or by a cursor seeded past it.  Pages, crashes, slow   *)
(* syncs that write an older cursor back, and mail that arrives between two  *)
(* pages are none of them an excuse.                                         *)
NothingSkipped ==
  \A m \in Mail :
    m <= cursor /\ RefOf[m] # NoRef => Handled(m) \/ m \in failed \/ m \in gap

(* A row that became an order or a payment stays closed, through replays,     *)
(* undone dismissals and corrections that close a row twice; and what it was *)
(* closed for was stored, and is there until an admin deletes it.            *)
ResolvedStays ==
  [][\A m \in Mail : \A k \in 1..Len(rows[m]) :
       rows[m][k] = "FILED" => rows'[m][k] = "FILED" /\ Stored(RefOf[m])]_vars

(* A message that arrives is filed in the end, or excused as above.          *)
MailIsFiled ==
  \A m \in Mail :
    m <= arrived /\ RefOf[m] # NoRef ~> Handled(m) \/ m \in failed \/ m \in gap

(* "Permanently removes an order document": no sync stores again what an     *)
(* admin deleted.                                                            *)
DeletedStaysGone ==
  [][(\E s \in Syncs : SyncStep(s)) => \A r \in deleted : made'[r] <= made[r]]_vars

(* "Ingestion errors are recorded instead, where the unparsed inbox and the  *)
(* staleness alert can surface them": a message passed over shows somewhere. *)
FailureShows ==
  \A m \in Mail :
    m <= cursor /\ RefOf[m] # NoRef /\ m \notin gap => Handled(m) \/ lastError
=============================================================================
