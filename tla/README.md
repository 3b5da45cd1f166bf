# Magic Bill in TLA+

Magic Bill is the counter program of a restaurant: it bills, prints, tells the
kitchen, keeps the stock and the books, and copies the shop to the cloud. It
must go on billing when the printer hangs, the network is gone, the power fails
or the licence is late. This directory holds TLA+ modules of the parts where
that is hard, the TLC configurations that check them and the TLAPS proofs of
what matters most.

Source paths below are relative to the repository.

## 1. The system

One process per till: a Tauri application in Rust (`src-tauri/src`, crates under
`crates/`) with a React interface. One till is the master of the shop; other
tills are secondaries that bill on their own and forward their bills to it.
Phones order through the master over the local network. A cloud keeps a copy.

### Threads and what they share

| Thread | Started by | Runs |
|---|---|---|
| main | Tauri | the plain IPC commands, one at a time: billing, kitchen, stock, day close |
| async commands | Tauri | calls that wait for a network or a disk, beside the main thread and each other: licence (`licensing.rs:804`), joining a shop and sending its bills at a press (`terminals.rs:482`), updates (`updates.rs:933`), firewall (`lan.rs:936`), backup (`settings/backup.rs:844`) |
| LAN server | `lan.rs` | phones' and other tills' requests, one thread each |
| `mb-cloud` | `sync.rs` `start_sender` | push, day files, pull |
| `mb-forward` | `forwarding.rs` `start_sender` | a secondary's bills to the master |
| print workers | `mb-print` queue | one per printer, plus one send thread per attempt |
| licence refresher, backup, kitchen sweep | `main.rs`, `kitchen.rs` | timers |

They share the SQLite file (one writer mutex, `conn.rs`; a `Db::transaction` is
atomic and serial), the shop mutex (`with_shop`), the counter-action mutex
(`begin_action`) and the print queue's own locks. Nothing else orders them: a
value read in one transaction and used in the next may be stale, and every
thread may stop between two of its steps.

### Components

For each: its state; its operations; what is hard; what makes it correct.

* **Print queue** (`crates/mb-print/src/queue`). State: rows of `print_jobs`, a
  status per job for the screen, a heap per printer, the cancelled marks, the
  interrupts of sends in flight. Operations: enqueue, retry, retry parked,
  dismiss, dismiss all, resume at the start, shutdown; the worker's run of one
  job; the send thread. Hard: a printer that hangs, a deadline racing a late
  answer, a crash between paper and row, a person dismissing what a worker
  holds. Correct when no accepted job is lost, none is printed again unasked, a
  dismissed one stays away, and everything unfinished is in somebody's hands.
* **Cloud copy** (`src-tauri/src/sync.rs`, `mb-db` outbox, wire and archive).
  State: `sync_outbox` (one entry per row), `archive_days` (dirty and uploaded
  stamps), `cloud.json` (back-off, dead login). Operations: every save queues;
  push, route, mark; list, build, put, record; change of licence; pull. Hard:
  the sender holds no lock while it talks; an answer may be lost; a stamp may be
  older than what it is compared with. Correct when the latest version of every
  bill is in the cloud or still owed to it.
* **Till forwarding and terminals** (`src-tauri/src/forwarding.rs`,
  `terminals.rs`). State: the joining till's outbox entries, its identity (the
  file, and the id the process started with), the prefix of each till in either
  database; the main till's ledger `applied_events`, its book, its days.
  Operations: join, rename; waiting, send, receive, confirm; prune. Hard: a
  batch applied whose answer is lost, a bill voided after it travelled, a day
  closed before its bill arrives, an id that changes under a running process.
  Correct when the main till has every finished bill in its last state, once,
  in the drawer that took the money.
* **Phone orders and floor** (`src-tauri/src/orders.rs`, `floor.rs`,
  `mb-core/transfer.rs`). State: the open orders with their tables and letters,
  the sources of a combined bill, `applied_events`, what a batch borrows from
  its opener. Operations of the phones: open, seat a party, add, set a quantity,
  send, move, cancel; of the counter: seat, park, add, remove, move, split,
  combine, settle, release. Hard: a phone repeats an intent whose answer it
  lost, in a batch that broke, after the counter has moved its table. Correct
  when an intent takes effect once, on the order of its own party, and no
  portion is charged twice or not at all.
* **Kitchen delivery** (`src-tauri/src/kitchen.rs`, `flows.rs`, `orders.rs`).
  State: the order's kitchen ledger on disk and in memory, a delivery per firing
  and station (pending, shown, bumped, printed, closed), paper. Hard: six roads
  send food or take it off, two of them in two commits; the screen's buttons run
  without the lock; a screen acknowledges late. Correct when paper and ledger
  agree, nothing is told without a cook knowing, and no ticket waits for ever.
* **Billing, corrections, refunds, day close, numbering** (`flows.rs`,
  `corrections.rs`, `correction_draft.rs`, `refunds.rs`, `dayclose.rs`,
  `mb-db/settle.rs`, `numbering.rs`). State: the cart, the stored order with its
  revision, its payments, its number, the draft of a correction, the reverts and
  their approval, refunds and the return, the stock it drew, the locked days.
  Hard: a completion takes money, parks and settles in separate commits; a phone
  changes the order behind the cart; a bill is taken back, corrected, voided or
  returned in any order, before or after its day is closed. Correct when the
  money in the shop is what the books say, no more is given back than was paid,
  stock follows the bill that stands, a closed day ties, and the bill book has
  no hole.
* **Stock, buying, counting** (`stock.rs`, `buying.rs`, `counting.rs`,
  `mb-core` recipes). A ledger of movements with the balance beside it. Hard:
  recipes change between a bill and its correction; a count is taken while the
  shop sells. Correct when undoing restores, and a count settles the book.
* **Money, tax, discount, rounding, customer credit** (`mb-core`): pure
  functions over what is on a paper. Correct when the parts add up to the whole,
  to the paisa.
* **Updates** (`updates.rs`, `updates/transaction.rs`). A journalled hand-over
  from the counter to a worker, the installer and the next counter, with a way
  back. Hard: processes with no common memory but small files; each may stop at
  any of them. Correct when nothing is installed under a running counter, only a
  version that opened here is kept, and billing is never paused for good.
* **Employment, wages, expenses**; **LAN server, pairing, rate limits**;
  **sign-in, sessions, lockout, audit chain**; **licence**; **backup and
  restore**; **delivery orders**; **database**; **menu**; **settings**;
  **reports**; **print layout**; **process shell**; **interface**: not
  modelled, section 7.

How they interact: a settled bill is one transaction (order, number, payments,
stock, outbox entry, dirty day), then a print job, then a wake of `mb-cloud` or
`mb-forward`. A phone's intent is the same with a ledger entry in the
transaction. A closed day is no longer pushed row by row; its bills travel in
its file.

## 2. The modules

| Module | What it is |
|---|---|
| `PrintSpool` | the abstract promise of the print queue: kept until on paper or given up, never back, one paper per pass |
| `PrintQueue` | the queue as the code has it; implements `PrintSpool` |
| `CloudCopy` | the way up to the cloud: outbox, push, day files |
| `TillForwarding` | a joining till, its senders, the network, the main till |
| `Kitchen` | one order's food on its way to the cooks, by screen and by paper |
| `BillLife` | one bill from its first item to its last refund |
| `Floor` | the orders of the tables, between phones that repeat and a counter |
| `Stock` | the stock ledger, between bills, suppliers and a count |
| `UpdateHandoff` | counter, worker, installer and the next counter |
| `Money`, `Sums` | rounding and sharing of paise; the bill, the invoice and the account built from them |
| `MC...` | constants for TLC: which job is for which printer, which menus, which rooms |
| `...Proofs` | theorems; `OutboxProofs` holds those of `CloudCopy` and `TillForwarding`, the two readers of the outbox, `BooksProofs` those of `Stock` and `Sums`; `MoneyProofs` has the lemmas on sums that the others use |

A step of a module is one thing no other thread can interrupt: a database
transaction, a section under one lock, a call to the outside, or the read or
write of one shared map. `PROJECT.json` `map` gives the lines of each definition.
Variables called history exist for the properties; no guard reads them but to
bound them.

### PrintQueue (`crates/mb-print/src/queue`)

| State | Code |
|---|---|
| `row`, `created` | the rows of `print_jobs`, their state and their order |
| `status`, `cancelled`, `interrupts` | the maps of `Shared`, each under its own lock |
| `waiting` | a worker's channel and heap, one sequence; `Pops` is the heap's order |
| `worker` | where a worker is in `run_job`, with the job, attempt and send it holds |
| `sends` | the send threads alive, the abandoned ones included |
| `op` | the call under the shop lock and what it has left to do |
| `phase` | running, shutting down, not running |

`EnqueueSave`/`EnqueueDispatch` are the two halves of `enqueue`; `RetryNext`,
`DismissMark`/`DismissRemove`/`DismissFails`, `ResumeCut`/`ResumeRest` the loops
of retry, dismiss and resume, one job a step, because a worker may run between
two of them. `Take` … `Wake` are the points of `run_job` between which other
threads run; `SendThread` opens, writes and answers or does not. `Crash` leaves
only `row` and `created`; abandoned send threads die with the process, and what
they had written may be on paper.

Every write to the spool may fail (`faults`). The code throws the result of most
of them away (queue/mod.rs:499, 646, 749, 767, 794), so `Tried` either writes or
leaves the rows, and the step goes on; `EnqueueSave` and a dismissal report it.
`unwritten` is the history of the jobs such a write was about. `papers` counts
the papers the transport took in full. Reads of the spool succeed.

### CloudCopy (`src-tauri/src/sync.rs`, `mb-db` outbox, wire, archive)

| State | Code |
|---|---|
| `ver` | how often a row has changed; 0 while nothing of it travels (an open order) |
| `outbox`, `attempts` | `sync_outbox`: one entry per row, with the stamp it sorts by |
| `dirty`, `uploaded` | the two stamps of `archive_days` |
| `shut`, `today` | what seals a day |
| `command` | a command that has read the clock and not yet written |
| `sender`, `batch`, `files` | where `mb-cloud` is in `push_once` and `archive_once`, and its locals |
| `hold`, `stopped` | `next_try_at` and `stopped` of `cloud.json` |
| `cloud`, `filed` | external: the cloud's tables and files, for the licence in force |

`ReadBatch`, `Route`, `SendOk`/`SendFails`, `Mark` are the steps of a push;
`List`, `Build`, `Put`/`PutFails`, `Record` those of an upload. The writers run
between any two of them. A bill of another till is saved with the stamp that
till gave it (`ReceiveForwarded`). `outcome` and `backdated` record why an entry
left, and exist so that the properties can name their exceptions. The two
liveness properties name theirs from the state: `InFront` are the entries with
nothing to send that sort before a row, `LeftBefore` the earlier days that
cannot be built; as many as a batch or a wake takes, and the row or the day is
never reached.

### TillForwarding (`src-tauri/src/forwarding.rs`, `terminals.rs`)

| State | Code |
|---|---|
| `bill`, `queue`, `issued`, `prefixHere` | the joining till's orders, outbox, counters and `terminals` rows |
| `linked`, `me` | `terminal.json`, and the id the process read from it at its start |
| `home` | the terminal a row was first written under (never updated by a save) |
| `at`, `req`, `stored` | a sender in `send_once`: its batch and the receipt |
| `stray` | requests whose sender gave up and which may still arrive |
| `book`, `ledger`, `prefixAt`, `own` | the main till's orders, `applied_events`, rows and counter |
| `locked`, `frozen` | `business_days` |
| `drawn` | the versions whose ingredients were deducted |
| `shop` | what is true of the orders and never changes: which one the main till cannot parse, which one points at a row it lacks, which one the till's own cloud sender gets to |
| `taken` | history: the orders whose entry the cloud sender took |

`Deliver` is `receive_on`, one transaction: `Applies` or `Refuses`. A batch is
`Storable` when `Fits` lets the sending till's row be saved, no number comes
twice (`NumberTwice`, the unique index) and no new order dangles (the foreign
keys); else all of it is rolled back, at every attempt. `Confirm` deletes by
order id, as `confirmed_on` does. `CloudTakes` is the other way out: on a
secondary with a licence of its own `mb-cloud` runs too, reads the same
`sync_outbox` and deletes what it routed or sent (sync.rs:329, 414), and the main
till never hears of it. `late` and `pruned` are history, for the exceptions of
the properties.

An order is opened once and opened in turn; a number is a natural number of a
series and the series is per id. The joining till's own closed days are not
there: they only forbid a void, so the model allows more than the code.

### Kitchen (`src-tauri/src/kitchen.rs`, `flows.rs`, `orders.rs`, `corrections.rs`)

| State | Code |
|---|---|
| `order`, `day`, `cart`, `told` | the order on disk, its business day, its food, its `KitchenLedger` |
| `ahead` | what the counter's memory marked as told and the disk did not |
| `ticket`, `firings` | `kitchen_deliveries`, by firing and station |
| `firing` | the course `fire_on` has checked and not sent yet |
| `doing` | who holds the action lock between two of its commits or prints |
| `newPaper`, `stopPaper` | the food on tickets and on cancellation slips |

The counter's ticket is `CounterTicket` then `CounterRecord`; a void is
`CounterVoid` then its slip; a phone's ticket commits before its paper
(`PhonePaper`); the fallback reads its list, prints, and marks row by row
(`FallbackRead`, `FallbackPaper`, `FallbackMark`). `Shown`, `Bump`, `Recall`,
`Acknowledge`, `FireCheck`, `FireSend`, `Look` are the screens', which take no
action lock. `Restart` forgets `ahead` and `doing`. `fire_on` looks at the
firings and sends in two transactions; a firing sent between them by another
road is in `crossed`.

### BillLife (`flows.rs`, `corrections.rs`, `correction_draft.rs`, `refunds.rs`, `dayclose.rs`, `mb-db`)

| State | Code |
|---|---|
| `order`, `rows`, `edit` | the rows of `orders`, `payments` and `order_edits` |
| `number`, `issued` | the bill number and the counter it is claimed from |
| `stock` | what the bill has drawn and the deductions it claimed |
| `reviews`, `returned`, `refunds` | `bill_reverts`, the full return, `refunds` |
| `days` | today, each locked day with the figures it froze, whether the shop closes its days, and which locked days outlived that (`lapsed`) |
| `cart`, `step` | the counter's memory, and how far a completion has come |
| `strays` | the open orders failed completions left in the database, with the receipts written on them |
| `hand`, `lost` | history: the money really in the shop, what a stop took from memory |

A completion is `CompleteStart` (money is taken), `CompletePark` (a new order is
saved), `Settle` or `SettleFails`, because each is a commit. A new cart's
completion that fails after its order was opened leaves that order with the
cart's receipts (flows.rs:665), and the next press writes them again on another:
`LeavesBehind`. `SwitchClosing` turns day closing off and on: while it is off
`day_refusal` answers none and the frozen days stay as they are
(dayclose.rs:572). `Revert`,
`Discard`, `Approve` are the correction's; `VoidSale`, `VoidAndReturn`,
`Refund`, `ReturnClosed`, `CounterCancel` give back; `CloseDay` freezes
`Figures`. A unit of food costs one, so that every amount is a small number and
change, tenders and partial returns all happen.

### Floor (`src-tauri/src/orders.rs`, `floor.rs`, `mb-core/transfer.rs`)

| State | Code |
|---|---|
| `script` | what each phone asks, in order; a phone's queue is what is left of it |
| `orders` | the orders with table, letter, food, kitchen ledger, the combined bill they are on and its sources |
| `ledger` | `applied_events`: unasked, refused, or the order it answered with |
| `call` | the batch a phone has open: the intent it is at and the order the rest borrows |
| `cart` | the table the counter's unsaved cart is on |
| `ordered`, `told`, `late`, `deeds` | history and bounds |

A phone's intent is one step (`PhoneOpens`, `PhoneAdds`, … inside `Apply`): the
code holds the action lock over ledger and effect. `SendBatch` and `BatchBreaks`
start a batch anywhere a phone may have stopped and end it anywhere the network
may. The counter's twelve deeds (`Counter...`) run between any two of them.

### Stock (`mb-db` `settle.rs`, `repo/stock.rs`, `buying.rs`, `counts.rs`; `mb-core/recipe.rs`; `inventory.rs`)

| State | Code |
|---|---|
| `recipes`, `bills`, `papers` | recipes by owner; orders with their revision; invoices and returns |
| `claimed` | `applied_events`: the revision of a bill that has drawn |
| `ledger`, `book` | `stock_movements` by row id, and the balance beside them |
| `count` | the sheet being taken, with what each line froze |
| `shelf` | external: what is really there, which a count reads |
| `lost` | history: losses since the line was counted, which nobody wrote down |

`Explode` walks a bill's lines in order (`Walk`), each short of what earlier
ones left, as `recipe.rs` does; `Undo` writes the opposite of the rows there,
whatever the recipes are by then. A delivery and a return are lists of lines
(`Slips`), two of one material at most; each line of a return is checked against
what the earlier returns left, not against the lines beside it (`Returnable`).

### UpdateHandoff (`src-tauri/src/updates.rs`, `updates/transaction.rs`)

| State | Code |
|---|---|
| `counter` | the running process, its version and where it is |
| `gate`, `lock`, `command`, `dirty` | `InstallGate`, the action lock, commands in flight, an unsaved cart |
| `journal`, `pending`, `current`, `previous`, `failure` | the files of the update directory |
| `worker` | the copied worker of each attempt and the counter it started |
| `program`, `opened` | external: the installed version; history: versions that opened |

A worker's steps are `WReady` … `WJudge`, one per file it writes or process it
asks after. `CounterDies` and `PowerGoes` may fall between any two; `Open` is a
person starting the program. `Watchdog` is the counter taking an update back: it
lifts the gate and does not withdraw the end of the process that was asked for
at the hand-over (`exiting`), so that `Exit` may come later. It looks once, and
when its files cannot be read or written (`WatchdogFails`) the counter is left
`unwatched` with the gate shut.

### Money, Sums (`mb-core`)

`Money` is one amount: ratios rounded as `mul_ratio` does, halves of a tax,
round-off, a discount, its shares over lines (`Spread`, largest remainder first)
and over the two halves of a split line. `Sums` is three papers, filled step by
step (`PutLine`, which merges as `Cart::add` or as `Cart::push` does, `SetOff`, `Split`, `Pay`, `SetTip`, `SettleBill`, `Reopen`,
`ReturnsMoney`; `Receive`, `SetCarriage`; `Enter`), with their figures as
functions of what is on them (`BillOf`, `Receipts`, `ReturnTo`, `InvoiceOf`,
`Aged`, `Closing`). Loops of the code that carry something along are folds
(`Receipt`, `Return`, `Clear`, `Age`); those that only add up are sums over the
places of a sequence.

## 3. The runs

| Run | Bounds that matter | What it shows |
|---|---|---|
| `PrintQueueOneJob` | 1 job, 2 attempts, Retry once, 3 starts, 1 failed write | never stranded but by that write; `PrintSpool` is implemented; every job settles though the printer hangs |
| `PrintQueueTwoJobs` | a bill and a ticket that cannot be read back, one printer, 2 starts, 1 failed write | none lost, dismissed ones stay out, printed in order |
| `CloudCopyFair` | 2 days with a bill each, one this build cannot shape and one of another till, saved twice; `Batch` and `FilesPerWake` 1; 1 failure or crash, 2 licences, a day closed and opened again | the latest version is owed or there; every row is done and every file goes up, unless what cannot be done fills every batch or wake before it |
| `TillForwarding` | 3 shops, `Window` 2: one order corrected or voided thrice; one that dangles in a batch of two; an open and an unreadable one in front of a third; 1 lost answer, 1 deed of the main till, each rename once | nothing owed is lost, the book stands, days tie, own drawer, none waits for ever but behind what the property names |
| `Kitchen` | 1 dish twice, 2 firings, 1 stop, 1 fault | paper and ledger agree, nothing is told unknown, a course is fired twice only across another ticket, no ticket waits for ever |
| `BillLife` | 2 units, 2 of each tender, 1 correction, 2 refund requests, 1 fault, 1 stray order, day closing switched off and on | money, stock, day and book agree through every story |
| `Floor` | 2 tables, 2 phones (one older) with up to 3 intents, 4 orders, 2 deeds of the counter, an empty room and one with a combined bill | charged once, combined bills tie, intents keep their party, parties apart |
| `Stock` | 2 bills, 3 papers of up to 2 lines of a material, a dish of gravy and tomatoes, 1 correction, 1 count, 6 steps | undoing restores, making makes what is missing, a count settles, returns stay within what came but for two lines of one material |
| `UpdateHandoff` | 3 versions, 2 updates, 1 command, 1 opening by hand, 1 death, power cut or failed look of the watchdog | nothing installed under a counter, only opened versions kept, nothing interrupted unless the update was taken back, the gate is lifted |
| `Sums` | 5 lines, 2 discounts, 4 shops, up to 2 lines and payments; 4 goods, up to 3; 8 moves, up to 3 | bill, payments, invoice and account agree to the paisa |
| `TillForwardingVoid` | 1 order | **violated**: see section 6 |
| `KitchenPaper` | 2 dishes of 2 courses, no tickets printed | **violated**: see section 6 |

Bounds, and why they are enough. The hazards are races of one item with itself:
two versions of a row, two attempts of a job, two starts, two revisions of a
bill, a repeated intent. Two of each are in the runs, with every place where a
thread can stop. A second item matters where items share something: a printer's
queue, a batch in which one is refused, a number, a table, a made material. A
third item would meet the second as the second meets the first. Failures are one
or two: each is an independent step that returns the actor to a state it also
reaches without one. `Batch`, `Window` and `FilesPerWake` (200, 200 and 30 in
the code) are 1, 2 and 1, fewer than there are rows, orders and days, so that
each fills and something stands behind. `saves` gives an order as many versions
as its story needs: a row of `CloudCopyFair` is saved again while its older
version travels. The prices, rates and quantities of
`Sums` are odd, so that every division leaves a remainder and remainders tie.
The theorems of section 5 lift every safety property from all of these bounds:
two senders of a till at once, prefixes saved before the till joined, more
tables, dishes, versions and failures are theirs alone.

Symmetry is used in `Stock` (bills and papers) and `BillLife` (refund requests),
which check no liveness.
Deadlock is not checked where the system may stop: the program is closed and
every bound is used up, a paper is full. `TillForwarding` never stops, and it is
checked.

## 4. Fairness

* Print workers, their deadlines and back-offs, a call that has begun, the exit
  of a program told to stop and its next start: weak fairness. They are threads
  of a running process, timers and a person. **No fairness on a printer**: a
  send may hang for ever (`EveryJobSettles` holds none the less).
* `mb-cloud` (`Push \/ Archive`), the end of a hold and the licence check that
  revives a dead login: weak fairness. It is a loop with a timed wait, and the
  licence is checked daily. Failures of the cloud are bounded, which stands for
  a network that comes back.
* `mb-forward` of the till and the main till's answer: weak fairness on the
  thread's next step. The button has none.
* The kitchen's second halves (a record after a ticket, a slip after a void, a
  phone's paper, a fired course, the fallback's print and mark): weak fairness,
  they are the next lines of a running function. The fallback's reading is
  strongly fair: the thread looks every five seconds and gets a lock that is
  free again and again. None on cooks, screens or people.
* The watchdog, the counter's answer to a helper that is ready, and a worker's
  next step: weak fairness, they are threads with timers. A worker's deadline
  (`WTimeout`, or `WJudge` when it ends) is strongly fair: a loop that counts to
  its limit ends whatever it sees on the way. None on the installer.

Safety holds without any of it.

## 5. What is proved

`tlapm` checks every leaf; the constants are arbitrary within the assumptions.
Every safety property of a passing run is a theorem.

| Theorem | Property | Inductive invariant |
|---|---|---|
| `TypeCorrect` | `PrintQueue!TypeOK` | itself: it includes that a worker past idle has a job |
| `NeverLost` | `AcceptedIsNeverLost` | `NeverLostInv`: a row is deleted on a worker's word, so a worker told "ok" was told by a send that finished |
| `DismissedForGood` | `DismissedStaysOut` | `StaysOutInv`: nothing in memory is about a job never queued, so no id is used twice |
| `UnfinishedHeld` | `UnfinishedIsHeld` | `Places` (a job is in one place: its printer's queue once, its worker's hands, about to be put in, or parked; asleep, memory is empty) and `HeldInv` (an unfinished row is on its way or could not be written; a cancelled job's row is gone, going or could not be removed; what is unfinished is on the screen, about to be, or was printed) |
| `PapersInOrder` | `PrintedInOrder` | `OrderInv`: created once; the queue of one urgency is in creation order but for retried jobs; what a call puts in was created after what it stands behind |
| `PromiseKept` | `KeepsThePromise` | `CoverInv`: papers, running sends and the next try if one is due never exceed the passes; a resume is about rows that exist |
| `CloudTypeCorrect` | `CloudCopy!CloudTypeOK` | itself |
| `NoRowIsLost` | `RowOwedOrThere` | `RowInv`: an entry in the sender's hands was read at the latest version or marked overtaken, and what was sent is in the cloud before it is marked |
| `NoFileIsStale` | `FileOwedOrThere` | `FileInv`: stamps do not run ahead of the clock, and the file in hand holds every version older than its stamp |
| `ForwardTypeCorrect` | `TillForwarding!TypeOK` | itself |
| `NothingOwedIsLost` | `OwedOrInBook` | `OwedInv`: an order not saved again after it travelled is the same here, on its way and in the book; what a receipt calls stored is in the book; what left the outbox is in the book or was taken by the cloud sender |
| `WhatIsAppliedStands` | `BookStands` | none: every step that writes the book spares the ledger |
| `ClosedDaysTie` | `TillForwarding!ClosedDayTies` | itself, with the type |
| `EveryBillInItsDrawer` | `OwnDrawer` | `DrawerInv`: an order under the new id exists only after the restart, so every batch that carries it bears that id |
| `DrawnOnceOnly` | a bill is drawn from stock once | `DrawnInv`: in the book and not pruned means remembered, and not in the book means nothing drawn |
| `TypeHolds` | `Kitchen!TypeOK` | with `OneAtATime`: who sends to the screens has a firing left, and the counter's half-done work and a course's never overlap |
| `PaperHolds`, `KnownHolds`, `CourseHolds` | `PaperTellsTheLedger`, `ToldIsKnown`, `CourseFiredOnce` | `PaperInv` (a slip under way is for food the ledger has), `KnownInv` (no unused firing has a ticket; what the counter is about to record, and what its memory is ahead by, is on a card or on paper too), `CourseInv` (no ticket has the course that is about to be fired, but one that crossed its check) |
| `StockHolds`, `DayHolds`, `BookHolds` | `StockFollowsTheBill`, `BillLife!ClosedDayTies`, `NoHoleInTheBook` | `Inv`: the type, which states have a draft, a cart, a deduction, a return (`Story`), both properties, and no number above those issued |
| `MoneyIsThere`, `BackHolds` | `MoneyIsAccounted`, `NeverGivesBackMore` | `MoneyInv`: amounts are coins, what is to be returned was taken (`Counted`); the cart remembers what is stored, the rows are the receipts without change, and only a returned or voided bill has refunds (`Kept`); the bill's own books tie tender by tender, whatever strays beside it (`Accounted`) |
| `TypeHolds`, `InstallHolds`, `KeptHolds`, `InterruptHolds` | `UpdateHandoff!TypeOK`, `InstallsAfterExit`, `OnlyOpenedIsKept`, `InterruptsNothing` | `Places` (a counter handing over, or confirming, is the one its journal names), `Paused` (billing is paused from the reservation to the exit, with nothing unsaved and nobody at work), `Numbered` (an attempt's parent has ended before another process has its number), `WayBack` (what a failure goes back to has opened) |
| `FloorTypeCorrect`, `PortionsAreOnOneBill`, `CombinedBillsTie`, `IntentsKeepTheirParty`, `PartiesAreApart` | `Floor!TypeOK`, `OnOneBill`, `AccountsTie`, `OnItsOwnParty`, `PartiesApart` | `PhonesInv` (a batch borrows the order its last opener was answered with) and `Counts` (an unused order is blank; what is on an unpaid combined bill is one of its sources; the sums) |
| `OnlyStandingDraws`, `MadeHolds` | `OnlyTheStandingBillDraws`, `MadeAsNeeded` | `OwnRevisions` and `AllStand`: a bill's rows carry revisions it has had, and those of the standing one are not undone |
| `ReturnsHold` | `NoMoreThanItBrought` | with the type of the papers |
| `CountHolds` | `CountSettlesTheBook` | `ShelfInv`: a counted line froze book less shelf; whatever moves rows moves both, losses move only the shelf and are in `lost`; a count being taken has no row yet |
| `BillsTie`, `PaymentsAreKept`, `BooksAddUp` | `BillTies`, `PaymentsTie`, `BooksTie` | `PaperInv` (`PapersKept`): the types; a settled bill is paid, with change in cash at most, a reopened one holds no more than is due, and what was taken is held or was given back (`MoneyKept`); no line of an invoice is below nothing and its discount is within them (`GoodsWorth`); a split gave the discounts away once (`SplitAdds`) |
| `HalvesAddUp`, `RoundsToRupees`, `InclusiveTaxTies`, `DiscountTakesNoMore`, `SharesOfALine` | | one amount: its two taxes, its round-off, its tax inside, its discount, its split, for every amount and rate |
| `SharesAddUp` | | the shares of a discount add up to it, for any number of lines |
| `SharesAreWithinLines`, `SharesAreProportional` | | no line carries more than it is worth; a share is within a paisa of its proportion |

Arguments a reader may want before the proofs:

* **The promise of the queue.** `PromiseKept` is proved step by step:
  `EnqueueSave` is `Accept`, `RetryNext` and the `ResumeRest` of a row that is
  parked or missed a write are `PutBack`, `Written` is `ComesOut`, `SettlePrinted` is `Printed` or a stutter,
  `DismissRemove` is `GiveUp`, everything else stutters.
* **Sums over sets** (money of `BillLife`, portions of `Floor`, rows of
  `Stock`). A sum is a recursive function over the subsets of a finite set; that
  it changes by one element's change, and splits over two disjoint sets, is
  proved once (`MoneyProofs`) from the fact that strict subsets are well founded.
  The induction is stated about a set of subsets, not about a predicate.
* **A recipe's walk** (`Stock`) is a sequence that `Explode` chooses; that one
  exists is an induction on its length, and that every line leaves the made
  material at nothing or above is carried along it.
* **Figures of the papers** (`Sums`). What a sequence is worth is a tally of what
  its elements are worth (`Tally`): it changes with one element by that element's
  worth, and two sequences in a row are worth both. A fold (`FoldLeft`,
  `MapThenFoldSet`) is again a function that exists by induction on the size of
  a set, written with step and choice as functions, not as operators
  (`FoldExists`, `SeqFold`); it is then unfolded at its last element, and what
  holds of the elements so far (`KeptOf` for the receipts, `LeftOf` for a
  return, owed less in hand for an account) is carried along. `RowsTotalIs` is a
  sum by groups (`SumByLabel`): rate by rate, or row by row. `BillAddsUp` then
  needs of a bill only that its lines, its charges and its rows of tax tie. Why
  `PaperInv` is needed: that the receipts come to what was due depends on what
  `settle` checked of payments nobody may change since, and that an invoice
  carries its cost depends on its discount having been within its goods before
  more goods came.
* **Sharing paise.** The floors leave over fewer paise than there are lines that
  lost something (`LeftOver`); the order in which lines get them is total, so
  exactly as many lines are first as there are paise (`FirstOnes`).

Assumptions: `PrintersAssumption` and `BoundsAssumption` (each job has one
printer and a priority; at least one attempt and one start), `RowsAssumption`
and `CloudBoundsAssumption` (bills and totals are different rows, stamps and
days are positive, batches are not empty), `ForwardingAssumption` (the thread is
a sender, the empty prefix is a prefix, a window is not empty),
`KitchenAssumption` (a dish has a station and a course), `BillLifeAssumption`
(bounds are numbers, requests are finitely many), `UpdateAssumption` (versions
are numbers, the first one knows this journal), `StockAssumption` (materials,
bills and papers are told apart; a made material is made of bought ones),
`FloorAssumption` (scripts begin with an opener; the rooms to start from tie,
and their parties are apart), `SumsAssumption` (what can be put on a paper has
the code's types: no price, rate, charge or amount is below nothing, a line
holds some of its item, a movement is of some day up to today). TLC evaluates
each of them.

Only model-checked: liveness (`EveryJobSettles`, `EveryRowIsDone`,
`EveryFileGoesUp`, `NoneWaitsForEver`, `NoneIsLeftPending`, `GateIsLifted`),
which is out of the prover's reach.

## 6. Where the code and what it says of itself differ

Two are runs that TLC ends with a violation; `PROJECT.json` `findings` quotes
the lines.

* `TillForwardingVoid`: a void after the bill travelled is acknowledged and not
  stored.
* `KitchenPaper`: in a shop that prints no tickets of its own, a ticket nobody
  drew is marked as printed and nothing is printed.

The passing properties name the exceptions the code makes, so that everything
else is checked.

* `unwritten` in `PrintQueue` (`UnfinishedIsHeld`, `EveryJobSettles`): a write
  to the spool failed and its result was thrown away (queue/mod.rs:499, 646, 749,
  767, 794), or a dismissal could not remove the row (628). The row then says
  less than what became of the job: a printed one is printed again by the next
  start, which counts as a pass, a dismissed one is held by nobody but shown.
* `outcome` in `CloudCopy` ("overtaken": the answer to an older version deletes
  the entry of a newer one; "routed": given to the file of a day that is opened
  again, sync.rs:334; "aside") and `backdated` (a bill changed after its day's
  file was built carries a stamp read before it and the file is not owed again,
  order.rs:292; or the licence changed under an upload).
* `InFront` (`EveryRowIsDone`): entries with nothing to send are never marked
  and come back in every batch; as many as a batch takes, and no row behind them
  goes up. `LeftBefore` (`EveryFileGoesUp`): thirty days that cannot be built are
  listed again at every wake, and the later ones starve (sync.rs:504).
* In `TillForwarding`: `late` (saved again after it travelled), `taken` (the
  till's own cloud sender took the entry, sync.rs:414, so the main till never
  gets the order), `pruned` (an event older than seven days, retention.rs:18),
  `Mixed` (a till with orders from before it joined, or from before it was
  started again), `Stuck` (a window of open or unreadable orders, or an order
  that points at a row the main till lacks: its foreign key fails, the `?` at
  forwarding.rs:79 rolls the batch back, and every attempt ends so).
* `crossed` in `Kitchen` (`CourseFiredOnce`): `fire_on` checks in one
  transaction and sends in another, and a phone's whole-order ticket between the
  two tells the kitchen of the course as well. kitchen.rs:530 says "The kitchen
  is never told twice"; the property shows that this race is the only way it is.
* In `BillLife` (`MoneyIsAccounted`): `lost` (money that was in memory only) and
  `strays`: an order a failed completion leaves open has the cart's receipts
  (flows.rs:665), the next press stores them on another, and the same money is in
  the books twice. While there is one, the books say at least what is in the
  shop; while there is none, they say exactly that.
* `lapsed` in `BillLife` (`ClosedDayTies`): a day closed before the shop switched
  day closing off. Its row stays frozen, nobody asks the lock (dayclose.rs:572),
  and a void or a correction leaves it saying something else.
* `late` in `Floor` (an order a phone moved onto a taken table, orders.rs:605,
  or a cart parked on one a phone opened meanwhile; LAN_PROTOCOL.md:441 says two
  parties are never on one letter).
* In `Stock` (`NoMoreThanItBrought`): a second line of the same material in a
  return (`AgainBack`). Each line is checked against the same remainder
  (buying.rs:894), so a return may send back twice what came, and no more.
* `TakenBack` in `UpdateHandoff` (`InterruptsNothing`): the end of the process
  asked for at the hand-over is not withdrawn when the watchdog lifts the gate
  (updates.rs:814, 832); a window that was busy for that long ends the counter
  in the middle of what it does. `GateIsLifted` names a watchdog whose one look
  failed.

Seen while reading or checking, in the model where they are steps of it, and
claimed by no property:

* Print queue: a job dismissed between a worker's check and its next note comes
  back on the screen; a parked job is printed again by the second start; an
  interrupt registered after its job was dismissed is left behind
  (queue/mod.rs:967); a dismissal that failed leaves its mark, which swallows a
  later Retry of the job (queue/mod.rs:638).
* Cloud: an upload starts though a hold is on (sync.rs:485).
* Kitchen: the fallback of one fired course prints the whole order's pending
  food; a course fired and then the order cancelled within the wait prints a
  New ticket for a cancelled order; `Print KOT` re-sends a fired course
  (kitchen.rs:527); a failed record leaves the counter's ledger ahead where no
  tickets are printed; a phone's cancellation never tells the kitchen; the
  counter's stop slip is printed in a shop that prints no tickets, a phone's not.
* Billing: a phone cancels an order that holds an advance (orders.rs:611),
  which the counter refuses (corrections.rs:1414); `MoneyIsAccounted` leaves
  cancelled orders out.
* Floor: a phone's move ignores whether the table is taken or hidden; an open
  that failed makes its adds refused for ever, as they are remembered; a phone
  may join an order that is on a combined bill, where every add is refused; a
  repeated request for the bill prints again.
* Stock: cancelling a delivery asks only whether it was cancelled already, so a
  delivery partly returned and then cancelled takes the returned goods off the
  shelf twice; a return may be recorded on a cancelled delivery.
* Sums: the charges of an invoice whose goods are worth nothing are in its total
  and in no landed cost (purchase.rs:254).
* Updates: the installer ends a counter it finds running, so one opened by hand
  between exit and install can be ended with a bill in it (transaction.rs:314
  against state.rs:1145); a worker that gave up waiting while its parent then
  exits leaves nobody to open the counter; a confirmation that lands between
  the worker's last look and its judgement is called a failure.

## 7. What is not modelled

Per component in `PROJECT.json`. Inside the modelled ones:

* Print queue: two queues at once, while the printers are set up anew; Windows'
  own queue behind a printer, from which a start deletes what an earlier run
  left (`purge_stale`, queue/mod.rs:351): `papers` counts what the transport
  took, and whether Windows printed it is outside; reads of the spool that fail.
* Cloud and forwarding: what a pull brings down and the restore of a shop; the
  shape of a row; which till is the main one and how a till is paired.
* Kitchen: more than one order; reprints; who is on which screen.
* Billing: credit and tips as tenders, approval by threshold, modifiers,
  combined bills (in `Floor`), the later life of a stray order.
* Floor: orders without a table, hidden tables, discounts, corrections of
  combined bills, permissions.
* Stock: more than one level of making (the code allows some), yield and batch
  rounding, average cost, the supplier's account, locations and transfers.
  Food cooked for an open order is off the shelf before its bill is settled; the
  model settles before a count looks.
* Updates: damaged files, an installer left running alone, a process id used
  again; `outcome` and `failure.json` are written together.
* Sums: sales to another state, overflow of 64 bits, combos' prices.

Whole components:

* **Employment, wages, expenses**: sequential, one writer, sums over stored
  rows. Read, and worth a module: reversing a payroll asks no day lock
  (employment.rs:2139), so it changes a closed day's expenses and drawer; a
  reversed period cannot be computed again, though its message says to reverse
  first (employment.rs:1590); unpaid leave over two periods is deducted in both.
* **Backup and restore**: a copy taken beside running writers and put back on
  the next start. Read, and worth a module: the safety copy is overwritten at
  each attempt, so a start after a stop halfway copies the half-written file
  over the good one.
* **LAN server, pairing**; **sign-in, lockout, audit chain**; **licence**;
  **delivery orders**: small state machines of their own, in the plan.
* **Database**: its writer mutex is the atomicity of every step here;
  migrations are not modelled.
* **Menu, settings, reports, print layout, shell, interface**: stored data,
  queries, bytes and wiring; what of them matters is a constant of a module.

## 8. Plan

1. `Payroll`: a run of wages, its advances, its reversal, and the day lock.
2. `Restore`: backup, safety copy, and stops between the renames.
3. `Licence`: what a counter may do as its snapshot ages and its clock moves;
   `Pairing`: one code, one device, its window and its attempts.
4. `PrintQueueSwap`: two queues over one spool.
5. More levels of making in `Stock`; more than one order in `Kitchen`.

The number of runs stays about what it is: runs that ask the same question of
the same module are merged as modules are added.
