# RailServe in TLA+

RailServe takes food orders for railway passengers, gets them cooked at an
outlet beside the station, and has a rider carry them to the train.  This
directory holds TLA+ models of the parts of it where order of events, several
people at once, and failure matter; the TLC configurations that model-check
them on small instances; and proofs, checked by TLAPS, of theorems that hold
for any orders, riders, outlets, tickets, clicks and messages.

In paths below `lib/`, `app/` and `api/` are short for `src/lib/`, `src/app/`
and `src/app/api/` of the repository.  `PROJECT.json` maps each
definition to the lines it models, lists the runs with their properties and
mutants, the hazards of the code with the properties aimed at them, the
findings and the theorems.

## 1. The system

A Next.js server over MongoDB, a React Native app for riders, a small Node
agent in each kitchen, and cron endpoints.  The server may run as several
processes; what they share is the database, and a document update is atomic.

| Component | State | Operations | Talks to |
|---|---|---|---|
| Status rules (`lib/orderStatus.ts`, `lib/rto.ts`, `lib/riderRecords.ts`, `lib/roles.ts`) | none: pure | which role may make which move; which moves open a return; which outcomes a rider may correct | everything below |
| Order lifecycle (`lib/repo/transitionOrder.ts`, `rtoRepo.ts`, `riderCashRepo.ts`, `createOrder.ts`, `createEnquiry.ts`, `adminEditOrder.ts`, `models/Order.ts`) | the `Order` document and its `OrderEvent` log | create, quote, transition, override, flag as rating decoy, correct an outcome, assign riders, take a bag back, settle cash, edit, re-route, delete | boards, rider API, call desk, KOT clicks, cancellation desk |
| Train runs and KOT (`lib/repo/runRepo.ts`, `app/store/actions.ts`, `app/admin/orders/[id]/actions.ts`) | none of its own: reads orders, moves them, queues tickets | Generate KOT for one order or a whole train; accept, prepare, hand over a whole train | lifecycle, print queue |
| Print queue (`lib/printer/queue.ts`, `directPrint.ts`, the poll and ack routes, `api/cron/print-retry`) | `PrintJob` documents, open poll requests | enqueue, reclaim, expire, claim, ack, direct delivery, sweep | KOT clicks, print agent, printer |
| Kitchen print agent (`agent/print-agent.mjs`) | batches handed to the computer's print queue, all in memory | poll, submit, watch the queue, send ticket by ticket, ack | poll and ack routes |
| Cancellation requests and kitchen alerts (`lib/repo/cancelRequestRepo.ts`, `orderRepo.ts`, `api/store/cancellations`, `CancellationAlert.tsx`) | `cancelRequest` on the order; the list a screen holds and the ids dismissed on it | ask, approve, refuse, list; alert by stream and poll, dismiss | lifecycle |
| Rider app queue (`mobile/src/api.ts`, `storage.ts`, `App.tsx`, `api/mobile/mutations`) | a list of mutations in the phone's storage | tap, enqueue, flush, apply, drop what is answered, refresh | lifecycle |
| Mail ingestion (`lib/ingest`, `lib/repo/inboxRepo.ts`) | the `IngestState` cursor and error, the inbox rows | sync on push and on cron, seed, file as order, payment or row; correct, dismiss, reopen | lifecycle, payments |
| Train status (`lib/train`, `lib/queue/trainPolling.ts`, parts of `orderRepo.ts`) | a cached row for each train, station and date | tick, refresh, lookup, latch arrival, change of run, move orders to the railway's day, prune | boards, orders |
| Payments, chat, rider location, boards and reports, setup, sessions, storage | see `PROJECT.json` | | |

What is hard in it:

- **Several people and one order.**  Riders, the store, telecallers and admins
  act on an order at once.  The lifecycle's answer is a transaction whose write
  repeats the status it read; a request that loses a race leaves no trace.
- **Several awaits in one click.**  The code above the lifecycle (train-wide
  clicks, cancellation approval, the offline queue, mail sync) reads, waits and
  writes in separate steps, with no transaction around them.
- **Paper.**  A ticket that came out of a printer cannot be taken back, and
  whether it came out is not always known.  Leases, expiry, retries and acks
  that may be lost decide between a second copy and a missing one.
- **Corrections.**  Riders may change how an order ended for 30 hours, while
  cash is being settled and bags taken back at the counter.
- **Two ways around the rules.**  An admin may override a status with any text,
  and a telecaller may file any order as a rating decoy.

What makes each part correct, modelled or not:

- *Lifecycle*: a bag is never both coming back and delivered; settled cash
  belongs to a delivered order; no wallet holds an undelivered order's cash;
  the correction window never moves; two riders never both hold an order nobody
  assigned; endings are final outside a rider's correction.
- *KOT*: no ticket for an order that was not moved from ACCEPTED; each moved
  order gets both its tickets unless the click that moved it fails; a second copy
  has a lost race to explain it.
- *Print queue and agent*: what is marked done came out (unless the computer's
  own queue dropped it, which nobody sees); a second copy has an
  expired lease to explain it; tickets come out oldest first; none comes out
  late; each one ends.
- *Cancellation*: what reads approved was cancelled; one desk's answer is not
  overwritten by another's; an ask is worth answering when it is recorded; every
  alert reaches the kitchen's screen and leaves it again.
- *Rider queue*: each tap is recorded at most once; taps go out in their order; a
  tap that was kept is settled by the server; nothing wedges the queue.
- *Mail*: every message becomes an order, a payment, or a row in the inbox; the
  cursor passes none that did not; no replay makes a second of anything.
- *Train status*: the row goes on speaking of one run; yesterday's arrival does not
  stop today's train from being followed; silence does not blank what was known;
  an admin's own time stands.

Several of these hold only so far.  Where the code does otherwise the property
names the exception, and the plain statement is refuted by a configuration of its
own: section 3 lists them.

## 2. The modules

| Module | Models | Lines of code it stands for |
|---|---|---|
| `OrderStatus` | the pure rules | `orderStatus.ts`, `rto.ts`, `riderRecords.ts` |
| `OrderLifecycle` | the order document and every operation on its status, riders, return and cash | `transitionOrder.ts`, `rtoRepo.ts`, `riderCashRepo.ts`, parts of `orderRepo.ts`, `createOrder.ts`, `createEnquiry.ts`, `adminEditOrder.ts` |
| `BagCustody` | the abstract specification: where the records say the bag is | (a promise, not code) |
| `KotRun` | the Generate KOT clicks, await by await | `app/store/actions.ts`, `runRepo.ts`, the admin's action, the print page |
| `PrintQueue` | the print queue, the routes, the agent and direct delivery | `printer/queue.ts`, poll, ack, cron, `print-agent.mjs` |
| `CancelRequest` | a manager's ask and the desks' answers, await by await | `cancelRequestRepo.ts` |
| `AlertFeed` | the kitchen's cancellation alert, from the event log to the screen | `recentCancellations` of `orderRepo.ts`, `api/store/cancellations/route.ts`, `CancellationAlert.tsx` |
| `MobileQueue` | the rider app's stored queue and the endpoint that serves it | `mobile/src/storage.ts`, `api.ts`, `mobile/App.tsx`, `api/mobile/mutations/route.ts` |
| `MailSync` | the mail cursor, the syncs that move it, and the inbox | `ingest/gmail/sync.ts`, `ingest/index.ts`, `ingest/payments`, `inboxRepo.ts` |
| `TrainStatusCache` | the cached status row, and the orders the timetable moves | `train/service.ts`, `policy.ts`, `queue/trainPolling.ts`, the `system*` functions of `orderRepo.ts` |
| `TicketPaper` | the abstract specification: what the queue promises about a ticket | (a promise, not code) |
| `OrderPath` | the contract between the modules: the path an order's status takes | (a promise, not code) |
| `*_proofs` (seven modules, one to each but the pure rules and `AlertFeed`) | proofs | |
| `*MC` | values of the constants for TLC | |

`OrderLifecycle`, `KotRun`, `CancelRequest` and `MobileQueue` extend
`OrderStatus`, so that all four move orders by the same allow-list.
`OrderLifecycle` instantiates `BagCustody`, and `PrintQueue` `TicketPaper`, with a
refinement mapping.  `KotRun` ends where `PrintQueue` begins: its `QueueNext` action is what `PrintQueue` calls
`Enqueue`.  `CancelRequest`, `KotRun` and `MobileQueue` keep only the status (and
the holder) of an order and let the rest of the pipeline move it at any moment; what a
single move does to the whole document is `OrderLifecycle`'s subject.  That the two views
agree is itself proved, through `OrderPath`, which the four proof modules instantiate.

### OrderLifecycle

`order[o]` is the document, cut to the fields the handlers read or write:
`status`, `outlet` (`restaurantId`), `quoted` (the fields a quote must have),
`cod`, `agents` (`delivery.agentIds`, in order), `assigned`
(`delivery.assignedAt`), `closedAt`, `delivered` (`deliveredAt`),
`collectedBy`, `settledFor` (`codSettledAt`, and from whom), `rto`.  The event
log is cut to the answers the code asks it for: the time of the first closing
event (`firstClose`, read by `closedAtOf`, whose further fallbacks, `deliveredAt` and
`updatedAt`, are for documents without such an event and no closed order here is
one) and whether the last CANCELLED event
is a rider's (`cancelledBy`).  Two fields are history, read by no action:
`took` (the rider named at the last dispatch) and `bypassed` (an override or a
rating flag happened).

One action is one handler, in full.  `TransitionOrder` has the scope query, the
allow-list, the rider that must be named, the quote check, then every `$set`,
`$push`, `$addToSet` and `$pull` of `transitionOrder`.  The handlers with a
transaction, or with one guarded update, are one step each.  `Create` stands for manual
orders and ingestion alike, since both give the same fields.  `Init` holds
orders not yet made and orders a rider re-filed as CANCELLED under an older
server, which `correctRiderOutcome` still has a branch for.

Users in an office are told apart by role only, since nothing depends on which
telecaller acted; riders are individuals.  Deleting an order drops it; an id is
not used again.

### BagCustody

The promise, in terms of the bag only: on the counter, out, handed over, coming
back, returned, written off, or off the books.  A bag that is out can go back
to the counter, be handed over, written off, or be on its way back; once
taken back it is never handed over again; and only the two ways around the
guided pipeline take it off the books, for good.
`CustodySpec` states that `OrderLifecycle` implements it under `BagOf`, which
reads the place off the document.  Of an order off the books it says nothing more: a
return that an override lost is not its subject but `ReturnNeverSlipsPast`'s.

### OrderPath

The statuses an order may go through, whoever moves it: born, moved by the
allow-list, filed as a decoy, corrected, overridden, deleted, one order at a
time.  `OrderLifecycle` keeps to it (`PathOf` reads the path off the document: a
CANCELLED order whose last such event is a rider's is told apart, since it alone may
still be corrected), and so do `CancelRequest`, `KotRun` and `MobileQueue` with the
status each keeps.  `CancelRequest`'s surroundings are moreover the whole path:
whatever `OrderLifecycle` may do to an order's status between two steps of an
ask or an answer is among its steps, but for an order re-filed under the older server.
`KotRun` and `MobileQueue` take less than the whole path: no override, decoy or
deletion meets a click, and in the rider app's orders only another rider's pick-up and a
cancel.

### KotRun

One train's orders, each with its status, and clicks that may each be pressed
once.  A train click is snapshot, second read (`transitionRun`'s own), one
transaction for each order, re-read, the page that is rendered and compared with what was
asked for (`Render`), and then one print job after another (`QueueNext`), the KOT of each
order and right after it its bag slip: one action for each await.  An order click
is transition, `Render`, `QueueNext`.  `MoveOn` is the rest of the pipeline, which may move any
order between any two of these steps, by the allow-list.  `Fail` ends a click
at any await, also between two jobs of a batch, and what was not queued by then never
is.  `tickets` counts the jobs queued of each of an order's two tickets.  The explicit reprint actions
are left out: a copy asked for as a copy is not in question.

### PrintQueue

`job` holds the `PrintJob` documents of one station, with ages instead of
times (capped just past whatever they are compared with) and, as history, the copies
that came out, the times a lease ran out, and whether a computer's queue dropped it.  `conn` holds poll requests the
server has open; a connection the agent has dropped may stay open on the
server (`heard = FALSE`), and may or may not be told (`Abort`).  `spool` holds
what each agent was handed and has not settled, `stall` how long its head has
gone without progress, `acks` the acks in flight, in any order and possibly
lost, `sends` the direct deliveries of each enqueue and each overlapping sweep.

The poll handler's steps are its awaits: reclaim, expire, claim, claim, ...,
answer.  Both of the agent's ways of printing are modelled: whole batches
through the computer's print queue (`Spooled`), or a connection for each ticket.
`Drop` is that queue finishing with a job it aborted or that somebody cancelled at the
computer: `notCompleted` no longer lists it, so the agent acks its tickets done,
whether or not they came out.

What is abstracted:

- The wake-up of a waiting poll is left out.  The handler re-reads the queue
  every second anyway, so it may claim at any moment up to its deadline.
- When the agent gives up on its print queue it cancels what is there; that
  cancellation is taken to work, though the agent ignores its failing.  Likewise a connection that was written to and
  closed without error is taken to have printed.
- A sweep's expiry and its listing are one step: nothing in between depends on
  their order but the time that passes, which is milliseconds.
- One run has either agents or direct delivery.  A station switched between the
  two with jobs in hand is not covered.

### TicketPaper

What a ticket can count on, without polls, leases, batches, acks or time: it is
waiting, handed out, printed, or given up; it is *due* while somebody holds it to
print; and it is *out* or not: paper has come out for it, or the print queue of a
kitchen's computer has dropped it, which the server cannot tell apart.  A ticket goes out only
while it is due; a ticket becomes due only by being handed out of the queue, or on a station the
server prints to itself; what is given up stays so, unless a direct delivery
still holds it and gets it printed; and it is called printed only once it is out,
for good.  One sweep moves many tickets, so a step of `TicketPaper` moves each by itself.
`TicketSpec` states that `PrintQueue` implements it: `place` is the job's status, `out`
whether a copy came out or was dropped, and `due` (`Due`) is read off the polls on their way to
answer, the agents' spools and the direct deliveries.

### CancelRequest

`status[o]` and `request[o]` are the order's status and `cancelRequest.status`;
`call[u]` is what each user's open call is about to do, with the status it read
the order in.  Asking is read and guarded write.  Approving is read, cancel (a
transaction of `transitionOrder`, which does not look at the request) and mark.
Refusing is read and guarded write.  `Die` ends a call between any two of these.
Meanwhile `MoveOn` is any transition by anyone, and rating flag, correction,
override and deletion go on as in `OrderLifecycle`.  `asks` and `overridden` are
history.

### AlertFeed

`alertAt[o]` is what `recentCancellations` reads off the log of an order that is in an
alert status: the time of its last event ending in one.  `stream` is the
screen's `EventSource`: closed, delivering, or open behind a proxy that passes
nothing on; with it the list last sent, whose signature the server compares.
`polls` are answers on the wire, which may be lost or arrive late and in any
order, over a newer list.  `items` and `acked` are the screen's state;
`acked` alone survives a reload.  Time is in ticks of the window, and no two
events share one.

### MobileQueue

`queue` is the one value in the phone's storage.  A tap changes the screen
(`shown`), reads the queue, writes it back longer, and flushes; a tick of the 30 s
sync flushes on its own; every read and write is a step.  A flush sends the
whole queue as one batch, the server takes it item by item (`ServeRead`, then the
transaction `ServeMove`), and the answer makes the phone read the queue and
write it back without what is settled.  `Unreached`, `LoseAnswer`, `Falter` and
`Restart` are no signal, an answer lost, a passing database error and the app
killed; `Falter` may strike at the first read of an order as in its
transaction.  `holder` and `closed` are what scope and the correction rules look
at; `recorded` counts what the server wrote for each tap and a tap's `nth` the taps
made before it: both are history.
`RETURN_ORDER` and `DISPATCH_RUN` are served by the endpoint but not sent by
today's app: a put-back, which would bring a status back, is therefore not
among the steps, and no proof of this module covers one.

### MailSync

A message is its place in the mailbox's history, and so is the cursor.  `sync[s]` is one
run of `syncGmailHistory`: list a page, list the next, then each message, then the
write of the cursor to the newest history id it was told of.  Filing an unreadable
message is find-then-create, two steps, as `recordUnparsed` is.  `Forget` is the
mailbox dropping old history, upon which a sync re-seeds from the latest message.
`made[r]` counts what is stored under an external id or a bank reference.
An order is one insert, under its unique index, which `createOrderFromParsed` relies on.
A payment is an upsert, a look (`Looks`) and an insert (`Inserts`) that other writers may
come between, and its collection may lack the index (`Indexed`), as
`payments/index.ts:29-40` says.  `pending` is what each writer, a sync or the admin, is
about to insert.  `Delete` is the admin's permanent removal of an order.
Four variables are history: `failed` and `gap`, the messages
some sync could not fetch or store and those behind a seeded cursor, are
the two excuses of `NothingSkipped`, and what they cost is `FailureShows` below;
`raced` are the payments two writers were about to insert at once, `deleted` the
orders an admin removed.  `Handled` means *was* filed: an order that was stored and then
deleted counts.
`Paste` is mail an admin pastes by hand, which may meet a sync of the same mail.
`Teach` stands for a parser or an alias added; the parsers themselves are a
message being readable or not.

### TrainStatusCache

`row` is the `TrainStatus` document; a time in it is kept as the run it
belongs to, an age as within its tier or not.  `booking` is `runBooking`'s answer,
which changes as orders open and close.  A call is a refresh (the poll, a board, a
person who asks now) or a lookup.  It asks the provider, looks at
the row (`Answer`) and writes it (`Write`), which are two awaits, and calls overlap in any way.
A refresh then moves the orders found on the wrong day, one guarded update each.
The provider is external: it may give an ETA, a delay alone, or neither; name the run's
timetable or not (`rapidapi.ts:109-125` and `simulator.ts:57` never do, RailKit does unless the
scheduled time is missing), and an answer that does not may be about another
run; report an arrival of a train that has left, miss one it has reported before, or fail.
`EtaAfter` is what the write does to the ETA: an answer that learned something (`LearnedSomething`: an
ETA *or* a delay) is written as it is, null included, and so is every lookup's.

Two runs are alike, so a fixed one leaves first.  A closed order is left out of those a
timetable may move: the update's guard keeps it off as it does one an admin timed.

## 3. What TLC checks

Passing runs:

| Run | Instance | Shows |
|---|---|---|
| `lifecycle` | 1 order, 2 riders (one attached to one outlet, one to both), 2 outlets, correction window of 2 ticks, overrides to CANCELLED, DELIVERED and a custom status | return, cash, close time and riders stay consistent; endings are final; cash leaves a wallet only for a reason; every step implements `BagCustody` |
| `print_agent` | 1 ticket, 2 agents of the two kinds, 2 polls open at once, fairness | copies have reclaims; done is final; nothing is handed out late; each ticket ends |
| `print_batches` | 3 tickets of 2 requests, batches of 1 or 2, 2 agents | oldest first; every step implements `TicketPaper`: only who was handed a ticket prints it, and what is called printed came out or was dropped by a computer's queue |
| `print_direct` | 1 train of 3 tickets, 2 overlapping sweeps, fairness | every step implements `TicketPaper`, though sweeps go by old lists; a train in order; each ticket ends |
| `kot` | 2 orders of 2 tickets, 1 order click, 2 train clicks, a failure between any two awaits | tickets have a move behind them; copies are explained; seen and moved means both tickets are queued |
| `cancel` | 1 order, a manager who may ask twice, a telecaller and an admin who may answer at once | approved was cancelled; answers stand; asks were worth it |
| `alerts` | 3 orders, a list that takes 2, 1 on the screen, 1 poll on the wire, fairness | a listed alert reaches the screen, and one no longer listed leaves it |
| `mobile` | 1 order, 2 taps, the tap's flush and one of the tick's, fairness | nothing recorded twice, nothing sent out of order, the queue drains, and a tap that was kept is settled |
| `mail` | 2 messages (one unreadable at first), an order and a payment, no index on payments, 2 syncs, pages of 1, 1 fault, 1 paste, closing or deletion, fairness | a reference stored once unless two raced for a payment; nothing skipped; resolved rows stay; all mail is filed |
| `train` | 2 runs of a train on one row, a refresh and a lookup that overlap, 1 order to be moved, fairness | the row stays one train's and known is kept, but for what is named; an admin's time stands; an arrival is seen |

Runs that TLC finds violated, each against what a comment in the code says:

| Run | Shows |
|---|---|
| `kot_missing` | an order accepted between a train click's two reads is moved to KOT_PRINTED and never printed |
| `train_shown_live` | an ETA ages past its tier, the next fetch fails and moves `fetchedAt` alone: the kept ETA is shown live, not stale, checked 0 minutes ago |

`kot_missing` is a defect with a consequence in the kitchen: the order looks
printed, its button is gone, and no ticket exists.  The remedy is in reach:
`transitionRun` knows which orders it moved and could return them.
`train_shown_live` has one too: `lastSuccessAt` is on the row, and the age
could be computed from it.

### Divergences without a run

Each of these is stated in its module and refuted by TLC under the configuration
named (`tlc -config X.cfg MMC`).  They are kept outside the set of runs to keep it
to what the project asks every time.

| Property | Configuration, module | What the code does |
|---|---|---|
| `ReturnNeverSlipsPast` | `ReturnSlipsPast.cfg`, `OrderLifecycleMC` | an override of a DISPATCHED order to CANCELLED opens no return, and neither a correction nor the returns desk can open one afterwards |
| `WalletIsTheCarriers` | `CollectorIsCarrier.cfg`, `OrderLifecycleMC` | an order assigned to one rider, handed to another and closed by phone puts its cash in the wallet of the first rider listed, who may never have had it |
| `OnlyMovedArePrinted` | `KotTwice.cfg`, `KotRunMC` | two train clicks that both saw an order ACCEPTED both print it |
| `ReclaimedIsLost` | `ReclaimStillPrinting.cfg`, `PrintQueueMC` | with three full batches stacked in one print queue, the third's lease runs out while it waits its turn, and it is handed out again |
| `RecordedOnce` | `MobileReplay.cfg`, `MobileQueueMC` | a correction sent again after a second correction turned the order back finds the status it started from, and is recorded again |
| `RefusalIsFinal` | `PickUpRetried.cfg`, `MobileQueueMC` | a pick-up meets a passing database error and is kept to be sent again; the delivery behind it in the batch is refused for want of it and dropped, though `route.ts:214` says a conflict never succeeds on retry: the order is picked up on the next flush and its delivery is never recorded |
| `DoneMeansPaper` | `PrintDropped.cfg`, `PrintQueueMC` | `printed` settles once the computer's queue no longer lists the job, not "when it has" printed (`print-agent.mjs:190-191`): a job that was aborted, or cancelled at the computer, is acked done with no paper behind it, and nothing prints it again |
| `TapIsKept` | `MobileLostTap.cfg`, `MobileQueueMC` | a tap is stored between another flow's read of the queue and its write-back (`storage.ts:73-83`): it is overwritten and never sent, though `storage.ts:31-32` calls unsynced deliveries "the agent's work" and `api.ts:105-108` drops what the server has settled only |
| `AlertFades` | `AlertRedated.cfg`, `AlertFeedMC` | an alert past its window is on the list again once its order is edited: the edit's event ends in the order's own status (`adminEditOrder.ts:105-107`) and is the last such event, which the comment at `orderRepo.ts:137-139` says reading the event log avoids |
| `DeletedStaysGone` | `MailRestored.cfg`, `MailSyncMC` | an order "permanently" removed (`orderRepo.ts:312-318`) is stored again by the next sync that lists its mail, for want of the document its index would have refused |
| `NeverTwoTrains` | `TrainMixed.cfg`, `TrainStatusCacheMC` | one refresh whose answer names no timetable writes another run's ETA on the row (`holdsOtherRun` returns false, `service.ts:277`), though `service.ts:74-76` has another train's values replaced outright |
| `RefreshKeepsEta` | `TrainBlanked.cfg`, `TrainStatusCacheMC` | an answer with a delay and no ETA counts as something learned (`service.ts:60-63`), and its null is written over a known ETA of the same run, though `service.ts:44-46` says that a reading without an arrival time is not written so (`tests/trainStatus.test.ts:121` wants the delay itself recorded) |
| `NewestIsOnTop` | `AlertBanner.cfg`, `AlertFeedMC` | `showing.slice(-MAX_VISIBLE).reverse()` (`CancellationAlert.tsx:259-263`) takes the oldest of a list that comes newest first |
| `FailureShows` | `MailSkipped.cfg`, `MailSyncMC` | one message fails, the cursor passes it, and the next clean sync clears the only trace of it (`sync.ts:191-203`) |

Seen while modelling, and stated by no property:

- *KOT and print.*  `docs/KOT_PRINTING.md:80` says that the direct path never sets
  `failed`, but its sweep expires jobs to `failed`, and a delivery under way
  turns such a job to `done` afterwards.  Jobs are created one await at a time
  (`queue.ts:194-204`): a failure between two leaves a part of the batch to be printed,
  an order perhaps with its KOT and no bag slip; the click logs it and nothing makes up
  the rest but a reprint by hand.  A sweep overlapping an enqueue or
  another sweep sends again a ticket printed since it read its list.
- *Cancellation.*  An approval cancels the order against a refusal that landed in
  between; the request then reads REFUSED on a cancelled order.  A server that dies
  between cancel and mark leaves a PENDING request that the list hides.  An order
  overridden to a custom status keeps a request on the list that nobody can approve.
- *Alerts.*  A late poll overwrites a newer list until the next one.  An order
  cancelled again after its alert was dismissed is not shown again.
- *Rider app.*  Of two overlapping flushes, the second may be told *refused* of
  what the first applied.  A tap's flush that throws leaves the buttons busy.  The
  refusals of batches already sent are lost when a later batch throws.
- *Mail.*  Where payments lack their index, two writers at once store one twice, as
  the comment there says.  Two syncs may both find no open row and file two.  A replay after a row
  was closed files it again.  A correction closes its row whatever became of it meanwhile.
- *Train status.*  Two calls that overlap around a change of run can leave one
  run's ETA on the other's row: the look (`holdsOtherRun`) and the write are two awaits.
  `RowStaysOneTrains` and `KnownIsKept` name these writes, whose look another
  call has overtaken, and the answers without a timetable, and hold for all others.  A
  lookup blanks an ETA the provider did not repeat.

### Bounds, and why they are enough

- *One order* in `lifecycle`, `cancel` and `mobile`: operations touch one order, except
  settlement and re-routing, which do the same to each of several
  independently.  The proofs cover any number.  The overrides of `lifecycle` are an
  ending, an outcome and a custom status; those to statuses on the way add
  states, and the theorems cover any.
- *Two riders, two outlets*: races, hand-overs and scope each need a second.
- *Clock*: a window of two ticks with the clock at 0..2 has corrections inside
  the window, at its edge and after.
- *Riders put on by the office at once*: 2, so that a first and a second exist.
- *KOT*: two orders are what a batch needs to be more than one; two train
  clicks race each other and the order click races both; two tickets for each order
  make a batch with a middle to fail in.  `Onward` keeps
  accept (before), prepare (after, still live) and cancel (gone).
- *Print runs*: ticks are units, with `Hold`, `Lease`, `MaxAge` and
  `QueueTimeout` as small numbers in the order of the real ones
  (20 s < 90 s < 180 s < 30 min), equal where a larger value would only add
  waiting.  In `ReclaimStillPrinting.cfg` a unit is 90 s, a full batch's patience;
  the lease is two units, as 180 s is to 90 s.  A batch there is one job standing for twelve.
  `PrintAssumption` has the sum the comment on the lease does, and holds there.
  Ages and copies are capped above every value they are compared with.
- *Cancellation*: two desks are what a race of answers needs, and a second ask
  what an answered request can still turn into.
- *Alerts*: one more order than the list takes and two more than the screen
  does; `MaxTime` of 3 lets each be raised, and the first leave the window.  Withdrawals
  need no time, so alerts come and go at the last tick as before it.
- *Rider app*: two taps make a queue of more than one and a second tap on what the
  first did; a tap's flush and a tick's make every pair of reads and writes meet.
  `MobileReplay.cfg` has corrections, the other three kinds are in `MobileQueue.cfg`.
- *Mail*: two messages on pages of one make two pages; two syncs overlap in any way;
  `MaxFaults` and `MaxClosings` of 1 leave one death or failure, and one paste, closing or
  deletion, anywhere; one order (indexed) and one payment (not) are the two kinds of reference.
  `NothingSkipped` and `StoredOnce` are proved for any bounds.
- *Train*: two runs are last night's and tonight's.  One refresh and one lookup
  overlap: each kind meets the other between its look and its write, and a third call
  would do nothing to the row that one of these does not.  The three safety properties are
  proved for any number.
- Deadlock is not looked for where an instance ends by itself: a bounded clock,
  clicks pressed once.  `PrintQueue` always has a step.

### Fairness

*`PrintQueue`*, for `EveryTicketEnds`.  Weak fairness of time
passing, of some agent polling, of each open handler, each agent's work on what
it holds, each sweep and each delivery: the agent's loop is endless and
catches its errors, the handler has a deadline, and the cron fires every two
minutes (`docs/DEPLOY.md:118`).  Nothing is assumed of enqueueing, connections, acks or the printer:
all may fail for ever, and a ticket still ends, as failed.  Without an agent
that polls, nothing expires a ticket on the agent path; that is why polling
itself is among the assumptions.

*`AlertFeed`*, for `AlertReachesScreen` and `GoneLeavesScreen`.  Weak fairness of the browser's
reconnecting, of the server's timer, of its retiring a stream
(`STREAM_LIFETIME_MS`) and of polling while nothing is heard; strong fairness of a
poll's answer arriving, for without a network nothing can.  Nothing is
assumed of a stream that is open: it may be silent for ever.

*`MobileQueue`*, for `QueueDrains` and `KeptIsSettled`.  Weak fairness of the phone's steps (the sync
ticks every 30 s, and an `await` that has resolved continues) and of the
server's.  The properties are conditional: from some moment on no fault that
matters happens.  A lost answer that settled nothing is not counted among those.
`KeptIsSettled` starts from a tap that is in the stored queue and in every copy about to be
written back: one that is not may be the tap `TapIsKept` loses.

*`MailSync`*, for `MailIsFiled`.  Weak fairness of the scheduler's sync
(every minute, `docs/DEPLOY.md:117`) and of a push's sync once it runs.  Of arrivals, pushes and
the admin nothing is assumed.

*`TrainStatusCache`*, for `ArrivalIsSeen`.  Weak fairness of ageing, strong of the tick
(every two minutes, `docs/DEPLOY.md:116`, whatever boards and persons do in between), and that a
refresh ends; strong fairness of a call's bringing home a departure, with its timetable, of a
train that it asks about again and again: a provider that never
reports it, or a server that dies each time, leaves nothing to see.

## 4. What is proved

TLAPS proves these for any constants that meet the modules' named assumptions.
Those say that null values are not members, that functions have their
domains, and in `OrderLifecycle` that an override does not write the two
model-only statuses, in `KotRun` that order and train clicks differ and the
latter are finitely many, in `MailSync` that every reference but a payment's has its
unique index, in `TrainStatusCache` that refreshes are no lookups, in `CancelRequest` what
`OrderLifecycle` says of overrides, and in `PrintQueue` that jobs and limits are numbers
and a lease outlasts what the comment on it adds up.

| Module | Theorems | Say |
|---|---|---|
| `OrderLifecycle_proofs` | `TypeCorrect`, `AllSound`, `ReturnsMatch`, `SettledStays`, `CashFollows`, `ClosesOnce`, `OneRiderEach`, `OutcomeFinal`, `CashExplained`, `ImplementsCustody`, `ImplementsOrderPath` | all nine properties of run `lifecycle`, the refinement among them, and the path other modules rely on |
| `KotRun_proofs` | `KotTypeCorrect`, `NoTicketUnmoved`, `SeenIsPrinted`, `EachCopyIsExplained`, `KeepsToPath` | all of run `kot`, and its type invariant; clicks keep to the path |
| `PrintQueue_proofs` | `AllSound`, `QueueTypeCorrect`, `DoneWasPrinted`, `DoneStaysDone`, `LateIsNotHanded`, `AgentsPrintInOrder`, `DirectPrintsInOrder`, `EachCopyHasItsReclaim`, `ImplementsTicketPaper` | all of the three print runs but liveness: done (`DoneIsPrinted`) came out or was dropped by a computer's queue and stays done, nothing late, order on both paths, the count of copies, the refinement |
| `CancelRequest_proofs` | `AllSound`, `CancelTypeCorrect`, `ApprovedWasCancelled`, `AnswersStand`, `AsksAreWorthAnswering`, `EnvironmentIsWhole`, `KeepsToPath` | all three of run `cancel`; its surroundings are all of the path, and it keeps to it |
| `MailSync_proofs` | `AllSound`, `MailStoredOnce`, `NoMailSkipped`, `ResolvedRowsStay` | all of run `mail` but liveness |
| `MobileQueue_proofs` | `RecordedAtMostOnce`, `TapsSentInOrder`, `KeepsToPath` | all of run `mobile` but liveness; taps keep to the path |
| `TrainStatusCache_proofs` | `AdminTimesStand`, `RowOfOneTrain`, `KnownEtaIsKept` | all of run `train` but liveness, for any number of calls that overlap |

**The lifecycle.**  `IInv` is `TypeOK` and `Sound(order[o])` for each
order.  `Sound` speaks of one document and is the conjunction of the five
invariants.  None of them is inductive alone: that a delivered order has no return depends on
corrections being refused once it is `RETURNED`; that settled orders stay
delivered depends on the settlement reading a wallet that only holds delivered
orders, which in turn needs collector and delivery time to follow the status;
that a correction keeps the close time needs `closedAt = firstClose`; that a
put-back leaves nobody on an unassigned order needs it to have had one rider at
most.  One lemma per handler shows that it takes a sound document to a sound
one; they are joined in the step lemma, and PTL does the rest.  Overridden and
decoy orders are off the books for good, and `Sound` asks nothing of them.
For the action properties, `OutcomeStep` and `WalletStep` describe what one step may
do to one document; from `Sound` of the document before, each handler's step
is shown to be explained.  For custody, `BagOf` of a document before and after a
step is one of the moves of `BagCustody` or the same.  For the path nothing
is needed of a document but its type: each handler's event says where the status
goes, and only a side event on a re-filed order changes what may still be corrected.

**KOT.**  The invariant joins clicks and orders: a moved order is past ACCEPTED
for good (the allow-list has no way back), an order that reads KOT_PRINTED was moved by
a click, and each order a click still answers for is on its batch, or each of its tickets is
queued or among those the click has yet to queue.
The step that moves an order is the delicate one: since no click moved the order
before, no other click's account of it is upset.  For the copies, one click at
most is an order's mover (`OneMover`), every queued copy is charged to a
click that printed it, and the clicks charged are the mover and train clicks that
saw the order ACCEPTED and lost: a bound on the cardinality of that set.

**Print queue.**  `AcksSound`, `SpoolSound` and `SendSound` say that an ack of `done`
in flight, a batch that has left the print queue and a delivery being marked
speak only of jobs that are out: paper came out, or a computer's queue dropped them (`Out`).
No paper is claimed of the second kind; `DoneMeansPaper` shows why.  Order on the agent path:
tickets are created in order, and whatever was `HandedOut` has every earlier
ticket `Passed`, because a claim takes the oldest fresh one.  On the direct path `TrainsWait`
and `TrainInv` keep, for each deliverer, that what it has left of a train comes
after what it has sent.  Copies are an account: those that came out, plus the
places where a ticket is in hand (one at most for each lease), are at most one more
than the leases that ran out.  Least elements (the oldest ticket) come from the
well-foundedness of the naturals, not from induction over data.
For `TicketPaper`, each action is shown to be, for each ticket, one of the abstract
moves (`TicketStep`).  The invariant above already says most of what that needs:
what an agent still has to print was handed to it, and what an ack or a marking speaks of came
out.  It is joined by `TodoQueued`: what a direct delivery holds has been queued, on
a station the server prints to.  Without it a delivery's mark, which goes by id and looks at no status, could call a ticket
printed that was never queued.

**Cancellation.**  `CallSound` says what a call still knows when it writes: an ask
was read on a cancellable order, and a mark is due on an order that was cancelled,
which stays cancelled unless overridden, filed as a decoy or deleted, since
the allow-list lets nothing leave CANCELLED.

Since nothing in that argument is about who moves the order but through
`OrderStep`, `EnvironmentIsWhole` closes it: for each kind of step of `OrderPath`
there is an action here that makes it.

**Mail.**  Each sync carries an account of the messages up to the point it has listed: each
is still to do, or excused (`SyncSound`).  When the listing ends, that point is the newest
history id, so that writing the cursor, even one older than another sync wrote, moves
it only behind excused messages (`CursorSound`).  Being excused is for good: rows are never
removed, what was stored stays so or is among the deleted, and the histories only grow.
For `StoredOnce` the ledger has an account of its own (`LedgerSound`): under an index there is one at
most; of a payment without one that nobody raced for, the writer about to insert it is alone and there
is none yet.  A look by a second writer is what makes a race, and `raced` records it.
That a row closed as filed has its order or payment stored rests on the desk closing a
row only after its own insert (`DeskSound`), wherever a death comes between.

**Rider app.**  The status never comes back to the shelf once picked up, nor to the
road once ended, except by correction among the endings.  So a recorded pick-up or delivery
leaves an order on which its own transaction is no longer allowed.  Nothing is asked there
of the queue: whatever it holds and how often it is sent, the server's guard does it.
What `removeFromQueue` keeps of a list (`Without`) is counted by rank, so that an entry not
dropped has a place in what is left (`WithoutIs`) and entries keep their order (`WithoutKeepsOrder`).
That taps are sent in order rests on every copy of the queue: each flow's copy was the
queue once (`CopiesAreOfQueue`) and so is in order itself, and the tap about to be
stored is newer than all in the copy it will be stored behind (`NewIsLast`), since it
was numbered when that copy was taken and nothing touches the copy after.  Writing
an old copy back may bring back a settled tap or lose a new one (`TapIsKept`), but never turns
two round.

**Train status.**  Nothing that is true of the row alone is inductive, since an answer without a
timetable may spoil it.  What is inductive is what a call knows of its own answer: one that names a
timetable is about to write that run's ETA and arrival (`OfItsRun`).  From it each
write is followed from the row it finds to the row it leaves: if the call's look at the row still
stands, a row of one train stays one train's, and an ETA of the same run goes only with an
answer that learned something.

**Left to TLC**: liveness (`EveryTicketEnds`, `AlertReachesScreen`, `GoneLeavesScreen`,
`QueueDrains`, `KeptIsSettled`, `MailIsFiled`, `ArrivalIsSeen`), which is out of this prover's reach with its
fairness, and the violated properties.  Every invariant and every action property
of the passing runs, and both refinements, are proved.  The theorems on `OrderPath` and
`EnvironmentIsWhole` relate modules to each other and belong to no run.

## 5. Not modelled

Listed in `PROJECT.json` with reasons.  Left out for good: parsers of mail and of
provider pages, rendering, ESC/POS bytes, exports, setup forms, sign-in, rider
position, reports.  They are pure functions over text, single-document forms or
last-write-wins values, and they are most of the code: of some 54,000 lines of
implementation, the greater part is screens (`src/app/**/*.tsx`,
`src/components`, the mobile app's views), adapters for single providers and mail
formats, and queries that feed them.  None of it keeps state that steps of two
actors could bring out of order, so that the lines mapped here are a small share of
the total and a large one of the code that changes shared state.  Chat keeps an
append-only log and a status per message; duplicate and late status webhooks are a
possible module.

Left out within modelled parts: item lists, amounts, call and KOT notes, who is told
what; the wake-up of a waiting print poll; `DISPATCH_RUN`, `RETURN_ORDER`, the
queue's cap of 100 and sign-out in the rider app; the row of a paste that no parser reads; platforms,
leave-now notices and the lengths of the tiers in train status.

## 6. What could follow

In the order of what a fault would cost:

1. The put-back in `MobileQueue`, once the app sends it: a delivery recorded,
   put back by an override and sent again is then possible, and
   `DeliveryRecordedOnce` has to say what excuses it.
2. The board rules of `lib/board.ts` and the grouping of `lib/runs.ts` as operators
   against a reference definition.
3. Chat: delivered, read and failed webhooks in any order, twice, and late.
4. The whole of `OrderPath` around `KotRun` and `MobileQueue`: which of their
   properties survive an override, and what excuses the others.
5. In `TrainStatusCache`, a write guarded by the run that was read: which of the
   exceptions of `RowStaysOneTrains` it would make unnecessary, and which not.
