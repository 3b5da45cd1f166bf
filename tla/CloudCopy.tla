------------------------------ MODULE CloudCopy -------------------------------
(***************************************************************************)
(* The cloud copy (src-tauri/src/sync.rs): every row a counter changes goes*)
(* up once, by one thread, off the billing path.  Two roads: a row of an   *)
(* unsealed day is pushed from the outbox, a bill of a sealed day travels  *)
(* in its day's file, which goes up again when the day changed after it.   *)
(*                                                                         *)
(* The writer's transactions (a command's save, a till's forwarded bill,   *)
(* closing and reopening a day, a change of licence) run between any two   *)
(* steps of the sender, whose calls to the cloud hold no lock.  A command  *)
(* reads the clock before it is allowed to write.                          *)
(***************************************************************************)
EXTENDS Naturals, FiniteSets

CONSTANTS
  Orders,       \* the orders of the shop
  Totals,       \* the day_totals rows, one per day
  RowDay,       \* RowDay[r]: the business day of a bill or of a totals row
  CreatedAt,    \* CreatedAt[b]: when the order was opened (core.created_at)
  Foreign,      \* the bills another till settles and forwards to this one
  Unshaped,     \* the rows this build cannot shape for the wire
  Refused,      \* the rows the cloud answers but refuses
  SealAfter,    \* archive::SEAL_AFTER_DAYS
  Batch,        \* sync::BATCH
  FilesPerWake, \* sync::FILES_PER_WAKE
  ReadTries,    \* sync::READ_TRIES
  MaxSaves,     \* bound: MaxSaves[b], the versions of a bill
  MaxTime,      \* bound: readings of the clock
  MaxDay,       \* bound: the last business day
  MaxFailures,  \* bound: calls that fail, crashes
  MaxLicences,  \* bound: licences the counter runs on
  MaxLocks      \* bound: closings of a day

Rows == Orders \cup Totals
FileDays == {RowDay[r] : r \in Rows}
BillsOf(d) == {b \in Orders : RowDay[b] = d}
TotalsOf(d) == {t \in Totals : RowDay[t] = d}

ASSUME RowsAssumption ==
  /\ Orders \cap Totals = {}
  /\ RowDay \in [Rows -> Nat \ {0}] /\ CreatedAt \in [Orders -> Nat \ {0}]
  /\ Foreign \subseteq Orders
  /\ Unshaped \subseteq Rows /\ Refused \subseteq Rows
ASSUME CloudBoundsAssumption ==
  /\ SealAfter \in Nat \ {0} /\ Batch \in Nat \ {0}
  /\ FilesPerWake \in Nat \ {0} /\ ReadTries \in Nat \ {0}
  /\ MaxSaves \in [Orders -> Nat] /\ MaxTime \in Nat /\ MaxDay \in Nat
  /\ MaxFailures \in Nat /\ MaxLicences \in Nat /\ MaxLocks \in Nat

VARIABLES
  now,        \* the clock, as the stamps read it
  today,      \* the current business day
  ver,        \* the version of a row as the shop has it, 0 when nothing travels
  outbox,     \* sync_outbox: created_at of a row's one entry, 0 without one
  attempts,   \* sync_outbox.attempts
  dirty,      \* archive_days.dirty_at, 0 when null
  uploaded,   \* archive_days.uploaded_at, 0 when null
  shut,       \* business_days.is_locked
  command,    \* the bill a command is about to save and the clock it read
  sender,     \* where the mb-cloud thread is
  batch,      \* push_once: entries and the versions read, to_file, unreadable
  files,      \* archive_once: the days listed, the clock read, the file built
  hold,       \* next_try_at lies ahead, after a success or after a failure
  stopped,    \* SyncFile.stopped: the login is dead
  licence,    \* which licence the counter runs on
  cloud,      \* external: what the cloud's tables hold of this licence's shop
  filed,      \* external: what its day files hold
  outcome,    \* history: why an entry left without its latest version going up
  backdated,  \* history: bills of a day whose upload is stamped as late as its
              \* last change, or belongs to the licence before
  locks,      \* history: closings of a day
  failures    \* history: failed calls and crashes

shopVars == <<ver, outbox, attempts, dirty, uploaded, shut, command, outcome,
              backdated, locks>>
senderVars == <<sender, batch, files>>
gateVars == <<hold, stopped>>
cloudVars == <<cloud, filed>>
allVars == <<now, today, shopVars, senderVars, gateVars, licence, cloudVars,
          failures>>

NoCommand == [bill |-> "none", at |-> 0]
Zero(S) == [x \in S |-> 0]
NoBatch == [entries |-> {}, seen |-> Zero(Rows), toFile |-> {}, unread |-> {}]
NoFiles == [days |-> {}, day |-> 0, took |-> 0, licence |-> 0,
            content |-> Zero(Orders)]

-----------------------------------------------------------------------------
Entries == {r \in Rows : outbox[r] # 0}

SealedByAge(d) == today >= d + SealAfter
Sealed(d) == d \in shut \/ SealedByAge(d)

\* ArchiveRepo::pending, apart from the seal: never uploaded, or dirty since.
FileOwed(d) == uploaded[d] = 0 \/ dirty[d] > uploaded[d]
HasBills(d) == \E b \in BillsOf(d) : ver[b] > 0
PendingDays == {d \in FileDays : Sealed(d) /\ HasBills(d) /\ FileOwed(d)}

Earliest(S, k) == {d \in S : Cardinality({e \in S : e < d}) < k}

\* The rows the sender has read and whose entries it will delete.
InFlight == IF sender \in {"read", "ready", "sent"} THEN batch.entries ELSE {}

\* enqueue, for a set of rows: one entry per row, coalesced, attempts reset.
Enqueue(R, stamp) ==
  /\ outbox' = [r \in Rows |-> IF r \in R THEN stamp[r] ELSE outbox[r]]
  /\ attempts' = [r \in Rows |-> IF r \in R THEN 0 ELSE attempts[r]]
  /\ outcome' = [r \in Rows |->
                   IF r \notin R THEN outcome[r]
                   ELSE IF r \in InFlight THEN "overtaken" ELSE "none"]

\* The stamp is no later than the upload it has to come after.
ComesTooEarly(d, at) ==
  \/ uploaded[d] # 0 /\ at <= uploaded[d]
  \/ sender \in {"built", "put"} /\ files.day = d /\ at <= files.took

\* Mutant: the day's file is not marked.
SaveUnmarked(b, at) ==
  LET R == {b} \cup TotalsOf(RowDay[b])
  IN /\ ver' = [r \in Rows |-> IF r \in R THEN ver[r] + 1 ELSE ver[r]]
     /\ Enqueue(R, [r \in R |-> CreatedAt[b]])
     /\ UNCHANGED <<dirty, backdated>>

\* OrderRepo::save of a bill: the row, its totals, and the day's file dirty.
SaveBill(b, at) ==
  LET d == RowDay[b]
      R == {b} \cup TotalsOf(d)
  IN /\ ver' = [r \in Rows |-> IF r \in R THEN ver[r] + 1 ELSE ver[r]]
     /\ Enqueue(R, [r \in R |-> CreatedAt[b]])
     /\ dirty' = [dirty EXCEPT ![d] = at]
     /\ backdated' = IF ComesTooEarly(d, at) THEN backdated \cup BillsOf(d)
                                             ELSE backdated

-----------------------------------------------------------------------------
(* The writers.                                                            *)

Tick == /\ now < MaxTime
        /\ now' = now + 1
        /\ UNCHANGED <<today, shopVars, senderVars, gateVars, licence,
                       cloudVars, failures>>

NewDay == /\ today < MaxDay
          /\ today' = today + 1
          /\ UNCHANGED <<now, shopVars, senderVars, gateVars, licence,
                         cloudVars, failures>>

\* An order that was never billed is saved: an entry, and nothing travels.
SaveOpen(b) ==
  /\ command = NoCommand /\ b \notin Foreign
  /\ ver[b] = 0 /\ outbox[b] = 0 /\ CreatedAt[b] <= now
  /\ Enqueue({b}, [r \in {b} |-> CreatedAt[b]])
  /\ UNCHANGED <<now, today, ver, dirty, uploaded, shut, command, backdated,
                 locks, senderVars, gateVars, licence, cloudVars, failures>>

\* A command on a bill (settle, void, edit) reads the clock first.
BeginSave(b) ==
  /\ command = NoCommand
  /\ (b \in Foreign => ver[b] > 0) /\ ver[b] < MaxSaves[b]
  /\ CreatedAt[b] <= now /\ RowDay[b] <= today /\ RowDay[b] \notin shut
  /\ command' = [bill |-> b, at |-> now]
  /\ UNCHANGED <<now, today, ver, outbox, attempts, dirty, uploaded, shut,
                 outcome, backdated, locks, senderVars, gateVars, licence,
                 cloudVars, failures>>

\* Its transaction commits.
CommitSave ==
  /\ command # NoCommand
  /\ SaveBill(command.bill, command.at)
  /\ command' = NoCommand
  /\ UNCHANGED <<now, today, uploaded, shut, locks, senderVars, gateVars,
                 licence, cloudVars, failures>>

\* forwarding::receive_on: another till's bill, stamped when it was settled
\* there.  No lock stands in its way.
ReceiveForwarded(b, settled) ==
  /\ b \in Foreign /\ ver[b] = 0 /\ ver[b] < MaxSaves[b]
  /\ RowDay[b] <= today /\ CreatedAt[b] <= settled /\ settled <= now
  /\ SaveBill(b, settled)
  /\ UNCHANGED <<now, today, uploaded, shut, command, locks, senderVars,
                 gateVars, licence, cloudVars, failures>>

\* The day's totals row goes up again, marked closed or reopened.
TotalsAgain(d) ==
  /\ ver' = [r \in Rows |-> IF r \in TotalsOf(d) THEN ver[r] + 1 ELSE ver[r]]
  /\ Enqueue(TotalsOf(d), [r \in TotalsOf(d) |-> now])

LockDay(d) ==
  /\ command = NoCommand /\ locks < MaxLocks
  /\ d <= today /\ d \notin shut /\ HasBills(d)
  /\ shut' = shut \cup {d}
  /\ locks' = locks + 1
  /\ TotalsAgain(d)
  /\ UNCHANGED <<now, today, dirty, uploaded, command, backdated, senderVars,
                 gateVars, licence, cloudVars, failures>>

UnlockDay(d) ==
  /\ command = NoCommand /\ d \in shut
  /\ shut' = shut \ {d}
  /\ TotalsAgain(d)
  /\ UNCHANGED <<now, today, dirty, uploaded, command, backdated, locks,
                 senderVars, gateVars, licence, cloudVars, failures>>

\* sign in on another licence: a new, empty shop in the cloud.  queue_whole_shop
\* queues the days not sealed by age and forgets every upload; the rest is for
\* the day files.
ChangeLicence ==
  LET R == {r \in Rows : ver[r] > 0 /\ ~SealedByAge(RowDay[r])}
  IN /\ command = NoCommand /\ licence < MaxLicences
     /\ licence' = licence + 1
     /\ hold' = "none" /\ stopped' = FALSE
     /\ cloud' = Zero(Rows) /\ filed' = Zero(Orders)
     /\ uploaded' = Zero(FileDays)
     /\ outbox' = [r \in Rows |-> IF r \in R THEN now ELSE outbox[r]]
     /\ attempts' = [r \in Rows |-> IF r \in R THEN 0 ELSE attempts[r]]
     /\ outcome' = [r \in Rows |->
                      IF r \in InFlight
                      THEN IF sender = "sent" THEN "overtaken" ELSE outcome[r]
                      ELSE IF r \in R THEN "none"
                      ELSE IF ver[r] > 0 THEN "routed" ELSE outcome[r]]
     /\ backdated' = backdated \cup {b \in Orders : RowDay[b] \in files.days}
     /\ UNCHANGED <<now, today, ver, dirty, shut, command, locks, senderVars,
                    failures>>

\* Mutant: the sender stays stopped.
ReviveHoldOnly ==
  /\ stopped /\ hold' = "none"
  /\ UNCHANGED <<now, today, shopVars, senderVars, stopped, licence, cloudVars,
                 failures>>

\* A check of the same licence brings a new login: after_licence_change.
Revive ==
  /\ stopped
  /\ hold' = "none" /\ stopped' = FALSE
  /\ UNCHANGED <<now, today, shopVars, senderVars, licence, cloudVars, failures>>

HoldEnds == /\ hold # "none"
            /\ hold' = "none"
            /\ UNCHANGED <<now, today, shopVars, senderVars, stopped, licence,
                           cloudVars, failures>>

-----------------------------------------------------------------------------
(* push_once.                                                              *)

\* The backlog, oldest first, capped.
IsHead(H) == /\ H \subseteq Entries
             /\ Cardinality(H) <= Batch
             /\ \A r \in Entries \ H : /\ Cardinality(H) = Batch
                                      /\ \A q \in H : outbox[q] <= outbox[r]

Travelling(entries, seen) == {r \in entries : seen[r] > 0}

\* Where a push with these entries goes next; without rows it ends, and the
\* entries it read stay.
AfterRouting(entries, seen) ==
  IF Travelling(entries, seen) = {} THEN "listing" ELSE "ready"

\* build_batch, in one read transaction.
ReadBatch ==
  /\ sender = "idle" /\ hold = "none" /\ ~stopped
  /\ \E H \in SUBSET Entries :
       /\ IsHead(H)
       /\ LET toFile == {b \in H \cap Orders : Sealed(RowDay[b])}
              unread == (H \ toFile) \cap Unshaped
              entries == H \ (toFile \cup unread)
              seen == [r \in Rows |-> IF r \in entries THEN ver[r] ELSE 0]
          IN /\ batch' = [entries |-> entries, seen |-> seen,
                          toFile |-> toFile, unread |-> unread]
             /\ sender' = IF toFile \cup unread # {} THEN "read"
                          ELSE AfterRouting(entries, seen)
  /\ UNCHANGED <<now, today, shopVars, files, gateVars, licence, cloudVars,
                 failures>>

\* Mutant: the rows of a sealed day stay in the outbox's way.
RouteNothing ==
  /\ sender = "read"
  /\ sender' = AfterRouting(batch.entries, batch.seen)
  /\ UNCHANGED <<now, today, shopVars, batch, files, gateVars, licence,
                 cloudVars, failures>>

\* What goes by file leaves the outbox; what cannot be read is tried again, and
\* put aside after ReadTries.
Route ==
  LET aside == {r \in batch.unread : attempts[r] + 1 >= ReadTries}
      gone == batch.toFile \cup aside
  IN /\ sender = "read"
     /\ sender' = AfterRouting(batch.entries, batch.seen)
     /\ outbox' = [r \in Rows |-> IF r \in gone THEN 0 ELSE outbox[r]]
     /\ attempts' = [r \in Rows |-> IF r \in batch.unread /\ outbox[r] # 0
                                    THEN attempts[r] + 1 ELSE attempts[r]]
     /\ outcome' = [r \in Rows |-> IF r \in aside THEN "aside"
                                   ELSE IF r \in batch.toFile THEN "routed"
                                   ELSE outcome[r]]
     /\ UNCHANGED <<now, today, ver, dirty, uploaded, shut, command,
                    backdated, locks, batch, files, gateVars, licence,
                    cloudVars, failures>>

Applied(S) == cloud' = [r \in Rows |-> IF r \in S \ Refused THEN batch.seen[r]
                                                         ELSE cloud[r]]

\* mb_push answered for every row.
SendOk ==
  /\ sender = "ready"
  /\ Applied(Travelling(batch.entries, batch.seen))
  /\ sender' = "sent"
  /\ UNCHANGED <<now, today, shopVars, batch, files, gateVars, licence, filed,
                 failures>>

\* fell: back off, or stop when the login is dead.
Fell == \/ hold' = "backoff" /\ UNCHANGED stopped
        \/ stopped' = TRUE /\ UNCHANGED hold

\* A call failed or its answer was lost: some of the rows may be there, and the
\* whole batch stays.
SendFails ==
  /\ sender = "ready" /\ failures < MaxFailures
  /\ \E S \in SUBSET Travelling(batch.entries, batch.seen) : Applied(S)
  /\ Fell
  /\ sender' = "idle" /\ batch' = NoBatch
  /\ failures' = failures + 1
  /\ UNCHANGED <<now, today, shopVars, files, licence, filed>>

\* Mutant: the entries go before the cloud has answered.
MarkBeforeSending ==
  /\ sender = "ready"
  /\ outbox' = [r \in Rows |-> IF r \in batch.entries THEN 0 ELSE outbox[r]]
  /\ UNCHANGED <<now, today, ver, attempts, dirty, uploaded, shut, command,
                 outcome, backdated, locks, senderVars, gateVars, licence,
                 cloudVars, failures>>

\* Applied and refused rows are both done: the entries leave by their ids.
Mark ==
  /\ sender = "sent"
  /\ outbox' = [r \in Rows |-> IF r \in batch.entries THEN 0 ELSE outbox[r]]
  /\ outcome' = [r \in Rows |->
                   IF r \in Travelling(batch.entries, batch.seen) \cap Refused
                   THEN "aside" ELSE outcome[r]]
  /\ hold' = "floor" /\ stopped' = FALSE
  /\ sender' = "listing" /\ batch' = NoBatch
  /\ UNCHANGED <<now, today, ver, attempts, dirty, uploaded, shut, command,
                 backdated, locks, files, licence, cloudVars, failures>>

\* Not yet time for a push; the wake goes on to the day files all the same.
NotYet ==
  /\ sender = "idle" /\ hold # "none" /\ ~stopped
  /\ sender' = "listing"
  /\ UNCHANGED <<now, today, shopVars, batch, files, gateVars, licence,
                 cloudVars, failures>>

-----------------------------------------------------------------------------
(* archive_once.                                                           *)

\* The days whose file has to go up, oldest first, and the clock.
List ==
  /\ sender = "listing"
  /\ LET days == IF stopped THEN {} ELSE Earliest(PendingDays, FilesPerWake)
     IN /\ sender' = IF days = {} THEN "idle" ELSE "build"
        /\ files' = IF days = {} THEN NoFiles
                    ELSE [NoFiles EXCEPT !.days = days, !.took = now,
                                         !.licence = licence]
  /\ batch' = NoBatch
  /\ UNCHANGED <<now, today, shopVars, gateVars, licence, cloudVars, failures>>

CannotBuild(d) == \E b \in BillsOf(d) \cap Unshaped : ver[b] > 0

\* The day's file from its rows; a day with a row that will not read is left.
Build ==
  /\ sender = "build"
  /\ \E d \in files.days :
       /\ \A e \in files.days : d <= e
       /\ LET rest == files.days \ {d}
          IN IF CannotBuild(d)
             THEN /\ files' = IF rest = {} THEN NoFiles
                              ELSE [files EXCEPT !.days = rest]
                  /\ sender' = IF rest = {} THEN "idle" ELSE "build"
             ELSE /\ files' = [files EXCEPT !.day = d,
                               !.content = [b \in Orders |->
                                  IF b \in BillsOf(d) THEN ver[b] ELSE 0]]
                  /\ sender' = "built"
  /\ UNCHANGED <<now, today, shopVars, batch, gateVars, licence, cloudVars,
                 failures>>

\* put_object under the key of the shop the thread started with.
Put ==
  /\ sender = "built"
  /\ filed' = [b \in Orders |->
                  IF b \in BillsOf(files.day) /\ files.licence = licence
                  THEN files.content[b] ELSE filed[b]]
  /\ sender' = "put"
  /\ UNCHANGED <<now, today, shopVars, batch, files, gateVars, licence, cloud,
                 failures>>

\* The file is there or not, and the day stays pending.
PutFails ==
  /\ sender = "built" /\ failures < MaxFailures
  /\ \/ UNCHANGED filed
     \/ /\ files.licence = licence
        /\ filed' = [b \in Orders |-> IF b \in BillsOf(files.day)
                                      THEN files.content[b] ELSE filed[b]]
  /\ Fell
  /\ sender' = "idle" /\ files' = NoFiles
  /\ failures' = failures + 1
  /\ UNCHANGED <<now, today, shopVars, batch, licence, cloud>>

\* record_upload, stamped with the clock read before the file was built.
Record ==
  /\ sender = "put"
  /\ uploaded' = [uploaded EXCEPT ![files.day] = files.took]
  /\ LET rest == files.days \ {files.day}
     IN /\ files' = IF rest = {} THEN NoFiles
                    ELSE [files EXCEPT !.days = rest, !.day = 0,
                                       !.content = Zero(Orders)]
        /\ sender' = IF rest = {} THEN "idle" ELSE "build"
  /\ UNCHANGED <<now, today, ver, outbox, attempts, dirty, shut, command,
                 outcome, backdated, locks, batch, gateVars, licence, cloudVars,
                 failures>>

\* The power goes; what is on disk, in the shop and in cloud.json, stays.
Crash ==
  /\ failures < MaxFailures /\ (sender # "idle" \/ command # NoCommand)
  /\ failures' = failures + 1
  /\ sender' = "idle" /\ batch' = NoBatch /\ files' = NoFiles
  /\ command' = NoCommand
  /\ UNCHANGED <<now, today, ver, outbox, attempts, dirty, uploaded, shut,
                 outcome, backdated, locks, gateVars, licence, cloudVars>>

-----------------------------------------------------------------------------
CloudInit ==
  /\ now = 1 /\ today = 1
  /\ ver = Zero(Rows) /\ outbox = Zero(Rows) /\ attempts = Zero(Rows)
  /\ dirty = Zero(FileDays) /\ uploaded = Zero(FileDays)
  /\ shut = {} /\ command = NoCommand
  /\ sender = "idle" /\ batch = NoBatch /\ files = NoFiles
  /\ hold = "none" /\ stopped = FALSE
  /\ licence = 1 /\ cloud = Zero(Rows) /\ filed = Zero(Orders)
  /\ outcome = [r \in Rows |-> "none"] /\ backdated = {}
  /\ locks = 0 /\ failures = 0

Writers == \/ Tick \/ NewDay
           \/ \E b \in Orders : \/ SaveOpen(b) \/ BeginSave(b)
                               \/ \E at \in 1..now : ReceiveForwarded(b, at)
           \/ CommitSave
           \/ \E d \in FileDays : LockDay(d) \/ UnlockDay(d)
           \/ ChangeLicence \/ Revive \/ Crash

Push == ReadBatch \/ Route \/ SendOk \/ Mark \/ NotYet
Archive == List \/ Build \/ Put \/ Record
CloudFails == SendFails \/ PutFails

CloudNext == Writers \/ HoldEnds \/ Push \/ Archive \/ CloudFails

CloudSpec == CloudInit /\ [][CloudNext]_allVars

\* The thread runs, its timers end, and a licence check comes once a day.  The
\* cloud is reached again: failures are bounded.
Fairness == /\ WF_allVars(Push \/ Archive) /\ WF_allVars(HoldEnds \/ Revive)

CloudFairSpec == CloudSpec /\ Fairness

-----------------------------------------------------------------------------
Fate == {"none", "overtaken", "routed", "aside"}

\* Every variable has the type its column, file or local has.
CloudTypeOK ==
  /\ now \in Nat /\ today \in Nat /\ licence \in Nat
  /\ ver \in [Rows -> Nat] /\ outbox \in [Rows -> Nat]
  /\ attempts \in [Rows -> Nat]
  /\ dirty \in [FileDays -> Nat] /\ uploaded \in [FileDays -> Nat]
  /\ shut \subseteq FileDays
  /\ \/ command = NoCommand
     \/ command \in [bill : Orders, at : Nat]
  /\ sender \in {"idle", "read", "ready", "sent", "listing", "build", "built",
                 "put"}
  /\ batch \in [entries : SUBSET Rows, seen : [Rows -> Nat],
                toFile : SUBSET Orders, unread : SUBSET Rows]
  /\ files \in [days : SUBSET FileDays, day : Nat, took : Nat, licence : Nat,
                content : [Orders -> Nat]]
  /\ sender \in {"built", "put"} => files.day \in FileDays
  /\ hold \in {"none", "floor", "backoff"} /\ stopped \in BOOLEAN
  /\ cloud \in [Rows -> Nat] /\ filed \in [Orders -> Nat]
  /\ outcome \in [Rows -> Fate] /\ backdated \subseteq Orders
  /\ locks \in Nat /\ failures \in Nat

\* The entries without a row that are read before r's.
InFront(r) == {q \in Entries : ver[q] = 0 /\ outbox[q] <= outbox[r]}

\* The days listed before d that are left at every wake.
LeftBefore(d) == {e \in PendingDays : e < d /\ CannotBuild(e)}

\* The latest version of a row is still owed to the cloud by the outbox, or is
\* there; unless its entry was given to the day's file, refused or put aside, or
\* the row was saved while its older version was in the sender's hands.
RowOwedOrThere ==
  \A r \in Rows : ver[r] > 0 =>
    outbox[r] # 0 \/ cloud[r] = ver[r] \/ outcome[r] # "none"

\* The day's file is still owed, or holds the latest version of each of its
\* bills; unless the day was marked with a stamp no later than its upload, or
\* the licence changed under the upload.
FileOwedOrThere ==
  \A b \in Orders : ver[b] > 0 =>
    FileOwed(RowDay[b]) \/ filed[b] = ver[b] \/ b \in backdated

\* Whatever the cloud, the network and the power do, a row that travels leaves
\* the outbox in the end; unless a batch of entries that carry nothing stands in
\* front of it, orders opened no later and never billed, which no push clears.
EveryRowIsDone ==
  \A r \in Rows : (outbox[r] # 0 /\ ver[r] > 0)
                     ~> (outbox[r] = 0 \/ Cardinality(InFront(r)) >= Batch)

\* And the file of a sealed day goes up, or the day is open again, or one of its
\* bills cannot be read and the day is left; unless as many earlier days as one
\* wake takes are left that way, and are listed again at every wake.
EveryFileGoesUp ==
  \A d \in FileDays :
    d \in PendingDays
      ~> \/ d \notin PendingDays \/ CannotBuild(d)
         \/ Cardinality(LeftBefore(d)) >= FilesPerWake

=============================================================================
