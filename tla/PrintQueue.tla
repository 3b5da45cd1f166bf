------------------------------ MODULE PrintQueue ------------------------------
(***************************************************************************)
(* The counter's print queue (crates/mb-print/src/queue): one worker       *)
(* thread per printer, one thread per send with a deadline, a durable spool*)
(* in the shop's database, and a person who retries or dismisses.          *)
(*                                                                         *)
(* A call by a person or by billing (enqueue, retry, dismiss) holds the    *)
(* shop lock, so at most one is under way (op); the workers and the send   *)
(* threads never take that lock and run between its steps.  A crash may    *)
(* happen anywhere; the spool is what the next start finds.                *)
(***************************************************************************)
EXTENDS Naturals, Sequences, FiniteSets, SequencesExt

CONSTANTS
  Jobs,           \* the print jobs that may be asked for
  NoJob,          \* a worker with nothing in hand
  Printers,       \* the configured printers, one worker each
  PrinterOf,      \* PrinterOf[j]: the printer job j is addressed to
  Priority,       \* Priority[j]: lower is sooner (JobKind::priority)
  Unreadable,     \* the jobs whose stored payload no longer parses
  Stoppable,      \* the printers whose transport has an interrupter
  MaxAttempts,    \* QueueConfig.max_attempts
  MaxRetries,     \* bound: presses of Retry, per job
  MaxStarts,      \* bound: starts of the program
  MaxFaults       \* bound: spool writes that fail

ASSUME PrintersAssumption ==
  /\ NoJob \notin Jobs
  /\ PrinterOf \in [Jobs -> Printers]
  /\ Priority \in [Jobs -> Nat]
  /\ Unreadable \subseteq Jobs
  /\ Stoppable \subseteq Printers
ASSUME BoundsAssumption ==
  /\ MaxAttempts \in Nat \ {0}
  /\ MaxRetries \in Nat /\ MaxStarts \in Nat \ {0} /\ MaxFaults \in Nat

VARIABLES
  phase,      \* "up", "stopping" (shutdown called) or "down"
  row,        \* the spool: the state column of a job's row, "none" without one
  status,     \* what a screen is shown (Shared.statuses)
  waiting,    \* a worker's channel and heap: the tickets in arrival order
  worker,     \* what each worker is doing, for which job, at which attempt
  sends,      \* the send threads still running, abandoned ones included
  interrupts, \* Shared.interrupts: the registered send of a job, 0 without one
  cancelled,  \* Shared.cancelled
  op,         \* the call under the shop lock and the jobs it has left
  created,    \* history: the jobs saved, in order (the created_at column)
  dismissed,  \* history: the jobs a person gave up on
  started,    \* history: sends begun, per job (numbers the send threads)
  papers,     \* history: sends the printer's transport took in full, per job
  retries,    \* history: presses of Retry, per job
  revived,    \* history: times a start put a job back that was done with, per job
  starts,     \* history: starts of the program
  faults,     \* history: spool writes that failed
  unwritten   \* history: the jobs one of those writes was about

queueVars == <<phase, row, status, waiting, worker, sends, interrupts,
               cancelled, op>>
countVars == <<created, dismissed, started, papers, retries, revived, starts>>
faultVars == <<faults, unwritten>>
historyVars == <<created, dismissed, started, papers, retries, revived, starts,
                 faults, unwritten>>
vars == <<queueVars, historyVars>>

RowState == {"none", "pending", "printing", "failed", "parked"}
Step == {"idle", "ready", "begin", "send", "answered", "settle", "backoff",
         "stopped"}
Answer == {"none", "ok", "transient", "permanent"}
Idle == [at |-> "idle", job |-> NoJob, attempt |-> 0, send |-> 0,
         answer |-> "none"]
NoOp == [call |-> "none", todo |-> {}]

Send(j, n, at, stop) == [job |-> j, no |-> n, at |-> at, stop |-> stop]

-----------------------------------------------------------------------------
(* Small operators the actions share.                                      *)

\* Mutant: an update that inserts a missing row.
Upserted(r, j, state) == [r EXCEPT ![j] = state]

\* UPDATE print_jobs: a row that is gone stays gone.
Updated(r, j, state) == IF r[j] = "none" THEN r ELSE [r EXCEPT ![j] = state]

\* Mutant: urgency ignored.
PopsByArrival(s, i) == i = 1

\* The worker's pop: most urgent first, then in order of arrival.
Pops(s, i) == \A k \in DOMAIN s \ {i} :
                \/ Priority[s[i]] < Priority[s[k]]
                \/ Priority[s[i]] = Priority[s[k]] /\ i < k

\* j was created before k (created_at, and the number in a job's id).
Before(j, k) == \E m, n \in DOMAIN created :
                  created[m] = j /\ created[n] = k /\ m < n

\* The loop over the statuses goes by id, the one over the spool by urgency.
NextOf(j, todo) == j \in todo /\ \A k \in todo \ {j} : Before(j, k)
NextUrgent(j, todo) ==
  /\ j \in todo
  /\ \A k \in todo \ {j} : \/ Priority[j] < Priority[k]
                           \/ Priority[j] = Priority[k] /\ Before(j, k)

\* A write to the row of j that fails: the database refuses it.
Refused(j) == /\ faults < MaxFaults
              /\ faults' = faults + 1
              /\ unwritten' = unwritten \cup {j}
              /\ UNCHANGED row

\* A write whose result is thrown away: whether or not the rows become r, the
\* queue goes on as if they had.
Tried(j, r) == (row' = r /\ UNCHANGED faultVars) \/ Refused(j)

\* Shared::park: the row if there is one, and the screen in any case.
Park(j) == /\ Tried(j, Updated(row, j, "parked"))
           /\ status' = [status EXCEPT ![j] = "parked"]

\* Take the interrupt of a job out and pull it; a send already over ignores it.
Interrupt(j) ==
  /\ interrupts' = [interrupts EXCEPT ![j] = 0]
  /\ sends' = {IF s.job = j /\ s.no = interrupts[j] THEN [s EXCEPT !.stop = TRUE]
                                                    ELSE s : s \in sends}

Dispatch(j) == waiting' = [waiting EXCEPT ![PrinterOf[j]] = Append(@, j)]

\* The send thread a worker is waiting for; the others were abandoned.
AwaitedBy(p, s) == /\ worker[p].at = "send"
                   /\ worker[p].job = s.job /\ worker[p].send = s.no

-----------------------------------------------------------------------------
(* Calls made under the shop lock.                                         *)

Begins(call, todo) == op' = [call |-> call, todo |-> todo]
Goes(call, rest) == op' = IF rest = {} THEN NoOp
                                       ELSE [call |-> call, todo |-> rest]

\* Queue::enqueue, first half: the row is durable before anything else happens.
EnqueueSave(j) ==
  /\ phase = "up" /\ op = NoOp
  /\ j \notin Range(created)
  /\ row' = [row EXCEPT ![j] = "pending"]
  /\ created' = Append(created, j)
  /\ Begins("enqueue", {j})
  /\ UNCHANGED <<phase, status, waiting, worker, sends, interrupts, cancelled,
                 dismissed, started, papers, retries, revived, starts, faultVars>>

\* Queue::enqueue, second half: shown, then sent to the printer's worker.
EnqueueDispatch(j) ==
  /\ op.call = "enqueue" /\ j \in op.todo
  /\ status' = [status EXCEPT ![j] = "pending"]
  /\ Dispatch(j)
  /\ op' = NoOp
  /\ UNCHANGED <<phase, row, worker, sends, interrupts, cancelled, historyVars>>

\* What a screen offers: Retry for one parked job, or for every parked job.
AskRetry(todo) ==
  /\ phase = "up" /\ op = NoOp /\ todo # {}
  /\ \A j \in todo : status[j] = "parked" /\ retries[j] < MaxRetries
  /\ Begins("retry", todo)
  /\ UNCHANGED <<phase, row, status, waiting, worker, sends, interrupts,
                 cancelled, historyVars>>

RetryOne == \E j \in Jobs : AskRetry({j})
RetryParked == AskRetry({j \in Jobs : status[j] = "parked"})

\* Queue::retry for the next job of the call.
RetryNext(j) ==
  /\ op.call = "retry" /\ NextOf(j, op.todo) /\ row[j] # "none"
  /\ Tried(j, [row EXCEPT ![j] = "pending"])
  /\ status' = [status EXCEPT ![j] = "pending"]
  /\ Dispatch(j)
  /\ retries' = [retries EXCEPT ![j] = @ + 1]
  /\ Goes("retry", op.todo \ {j})
  /\ UNCHANGED <<phase, worker, sends, interrupts, cancelled, created,
                 dismissed, started, papers, revived, starts>>

\* A job without a row is an error, and retry_parked's loop ends at the first.
RetryRefused(j) ==
  /\ op.call = "retry" /\ NextOf(j, op.todo) /\ row[j] = "none"
  /\ op' = NoOp
  /\ UNCHANGED <<phase, row, status, waiting, worker, sends, interrupts,
                 cancelled, historyVars>>

\* Cancel print for one job the screen shows, or for every one of them.
AskDismiss(todo) ==
  /\ phase = "up" /\ op = NoOp /\ todo # {}
  /\ \A j \in todo : status[j] # "none"
  /\ Begins("dismiss", todo)
  /\ UNCHANGED <<phase, row, status, waiting, worker, sends, interrupts,
                 cancelled, historyVars>>

DismissOne == \E j \in Jobs : AskDismiss({j})
DismissAll == AskDismiss({j \in Jobs : status[j] # "none"})

\* Shared::dismiss, first half: marked, and the send in flight stopped.
DismissMark(j) ==
  /\ op.call = "dismiss" /\ NextOf(j, op.todo)
  /\ cancelled' = cancelled \cup {j}
  /\ Interrupt(j)
  /\ Begins("remove", op.todo)
  /\ UNCHANGED <<phase, row, status, waiting, worker, historyVars>>

\* Shared::dismiss, second half: the row, then the screen.
DismissRemove(j) ==
  /\ op.call = "remove" /\ NextOf(j, op.todo)
  /\ row' = [row EXCEPT ![j] = "none"]
  /\ status' = [status EXCEPT ![j] = "none"]
  /\ dismissed' = dismissed \cup {j}
  /\ Goes("dismiss", op.todo \ {j})
  /\ UNCHANGED <<phase, waiting, worker, sends, interrupts, cancelled, created,
                 started, papers, retries, revived, starts, faultVars>>

\* The row cannot be deleted: the call, and dismiss_all's loop, end there.
DismissFails(j) ==
  /\ op.call = "remove" /\ NextOf(j, op.todo)
  /\ Refused(j)
  /\ op' = NoOp
  /\ UNCHANGED <<phase, status, waiting, worker, sends, interrupts, cancelled,
                 countVars>>

-----------------------------------------------------------------------------
(* The worker of one printer: run_worker, run_job, print_within.           *)

\* Drain the channel, pop the heap; a Stop in the channel ends the worker.
Take(p) ==
  /\ phase = "up" /\ worker[p].at = "idle"
  /\ \E i \in DOMAIN waiting[p] :
       /\ Pops(waiting[p], i)
       /\ waiting' = [waiting EXCEPT ![p] = RemoveAt(@, i)]
       /\ LET j == waiting[p][i]
          IN IF j \in Unreadable
             THEN Park(j) /\ UNCHANGED worker
             ELSE /\ worker' = [worker EXCEPT ![p] =
                                  [Idle EXCEPT !.at = "ready", !.job = j]]
                  /\ UNCHANGED <<row, status, faultVars>>
  /\ UNCHANGED <<phase, sends, interrupts, cancelled, op, countVars>>

\* A Stop in the channel: the worker returns and its heap is dropped.
WorkerStops(p) ==
  /\ phase = "stopping" /\ worker[p].at = "idle"
  /\ worker' = [worker EXCEPT ![p].at = "stopped"]
  /\ waiting' = [waiting EXCEPT ![p] = <<>>]
  /\ UNCHANGED <<phase, row, status, sends, interrupts, cancelled, op,
                 historyVars>>

\* gave_up at the top of an attempt: true once, and the job is dropped.
CheckBefore(p) ==
  /\ worker[p].at = "ready"
  /\ IF worker[p].job \in cancelled
     THEN /\ cancelled' = cancelled \ {worker[p].job}
          /\ worker' = [worker EXCEPT ![p] = Idle]
     ELSE /\ worker' = [worker EXCEPT ![p].at = "begin",
                                      ![p].attempt = @ + 1]
          /\ UNCHANGED cancelled
  /\ UNCHANGED <<phase, row, status, waiting, sends, interrupts, op,
                 historyVars>>

\* Recorded as printing, then the send thread is spawned; a failed spawn is a
\* transient failure.
Begin(p) ==
  LET j == worker[p].job
      n == started[j] + 1
  IN /\ worker[p].at = "begin"
     /\ Tried(j, Updated(row, j, "printing"))
     /\ status' = [status EXCEPT ![j] = "printing"]
     /\ \/ /\ sends' = sends \cup {Send(j, n, "opening", FALSE)}
           /\ started' = [started EXCEPT ![j] = n]
           /\ worker' = [worker EXCEPT ![p].at = "send", ![p].send = n,
                                          ![p].answer = "none"]
        \/ /\ worker' = [worker EXCEPT ![p].at = "answered",
                                       ![p].answer = "transient"]
           /\ UNCHANGED <<sends, started>>
     /\ UNCHANGED <<phase, waiting, interrupts, cancelled, op, created,
                    dismissed, papers, retries, revived, starts>>

\* Mutant: no timeout where nothing can be stopped.
DeadlineWhenStoppable(p) ==
  /\ worker[p].at = "send" /\ interrupts[worker[p].job] # 0
  /\ Interrupt(worker[p].job)
  /\ worker' = [worker EXCEPT ![p].at = "answered", ![p].answer = "permanent"]
  /\ UNCHANGED <<phase, row, status, waiting, cancelled, op, historyVars>>

\* recv_timeout ran out: the send is stopped where it can be and abandoned, and
\* the failure is permanent.
Deadline(p) ==
  /\ worker[p].at = "send"
  /\ Interrupt(worker[p].job)
  /\ worker' = [worker EXCEPT ![p].at = "answered", ![p].answer = "permanent"]
  /\ UNCHANGED <<phase, row, status, waiting, cancelled, op, historyVars>>

\* gave_up after the send: whatever the printer answered is thrown away.
CheckAfter(p) ==
  /\ worker[p].at = "answered"
  /\ IF worker[p].job \in cancelled
     THEN /\ cancelled' = cancelled \ {worker[p].job}
          /\ worker' = [worker EXCEPT ![p] = Idle]
     ELSE /\ worker' = [worker EXCEPT ![p].at = "settle"]
          /\ UNCHANGED cancelled
  /\ UNCHANGED <<phase, row, status, waiting, sends, interrupts, op,
                 historyVars>>

\* Mutant: a failed job dropped.
SettleDropped(p) ==
  /\ worker[p].at = "settle" /\ worker[p].answer # "ok"
  /\ row' = [row EXCEPT ![worker[p].job] = "none"]
  /\ status' = [status EXCEPT ![worker[p].job] = "none"]
  /\ worker' = [worker EXCEPT ![p] = Idle]
  /\ UNCHANGED <<phase, waiting, sends, interrupts, cancelled, op, historyVars>>

\* Printed means gone, from the screen, and from the store if it lets the row go.
SettlePrinted(p) ==
  /\ worker[p].at = "settle" /\ worker[p].answer = "ok"
  /\ Tried(worker[p].job, [row EXCEPT ![worker[p].job] = "none"])
  /\ status' = [status EXCEPT ![worker[p].job] = "none"]
  /\ worker' = [worker EXCEPT ![p] = Idle]
  /\ UNCHANGED <<phase, waiting, sends, interrupts, cancelled, op, countVars>>

GivesUp(p) == \/ worker[p].answer = "permanent"
              \/ worker[p].attempt >= MaxAttempts

SettleParked(p) ==
  /\ worker[p].at = "settle" /\ worker[p].answer # "ok" /\ GivesUp(p)
  /\ Park(worker[p].job)
  /\ worker' = [worker EXCEPT ![p] = Idle]
  /\ UNCHANGED <<phase, waiting, sends, interrupts, cancelled, op, countVars>>

\* Recorded as failed; the worker sleeps the backoff and tries the same job.
SettleFailed(p) ==
  /\ worker[p].at = "settle" /\ worker[p].answer # "ok" /\ ~GivesUp(p)
  /\ Tried(worker[p].job, Updated(row, worker[p].job, "failed"))
  /\ status' = [status EXCEPT ![worker[p].job] = "failed"]
  /\ worker' = [worker EXCEPT ![p].at = "backoff"]
  /\ UNCHANGED <<phase, waiting, sends, interrupts, cancelled, op, countVars>>

Wake(p) ==
  /\ worker[p].at = "backoff"
  /\ worker' = [worker EXCEPT ![p].at = "ready"]
  /\ UNCHANGED <<phase, row, status, waiting, sends, interrupts, cancelled, op,
                 historyVars>>

-----------------------------------------------------------------------------
(* A send thread: print_once.                                              *)

\* The answer of send s reaches its worker if the worker is still waiting.
Answered(s, answer) ==
  worker' = [p \in Printers |->
               IF AwaitedBy(p, s)
               THEN [worker[p] EXCEPT !.at = "answered", !.answer = answer]
               ELSE worker[p]]

\* The transport opened: its interrupter is registered and the write begins.
Opened(s) ==
  /\ s.at = "opening"
  /\ sends' = (sends \ {s}) \cup {[s EXCEPT !.at = "writing"]}
  /\ interrupts' = IF PrinterOf[s.job] \in Stoppable
                   THEN [interrupts EXCEPT ![s.job] = s.no] ELSE interrupts
  /\ UNCHANGED <<phase, row, status, waiting, worker, cancelled, op,
                 historyVars>>

\* A layout error or a printer that refuses is permanent, an unreachable one
\* transient.
OpenFailed(s) ==
  /\ s.at = "opening"
  /\ sends' = sends \ {s}
  /\ \E answer \in {"transient", "permanent"} : Answered(s, answer)
  /\ UNCHANGED <<phase, row, status, waiting, interrupts, cancelled, op,
                 historyVars>>

\* The write returned.  Whatever is registered under the job's id is removed.
Written(s, answer) ==
  /\ s.at = "writing"
  /\ sends' = sends \ {s}
  /\ interrupts' = [interrupts EXCEPT ![s.job] = 0]
  /\ papers' = IF answer = "ok" THEN [papers EXCEPT ![s.job] = @ + 1]
                                ELSE papers
  /\ Answered(s, answer)
  /\ UNCHANGED <<phase, row, status, waiting, cancelled, op, created,
                 dismissed, started, retries, revived, starts, faultVars>>

SendThread == \E s \in sends : \/ Opened(s) \/ OpenFailed(s)
                               \/ \E a \in Answer \ {"none"} : Written(s, a)

-----------------------------------------------------------------------------
(* The program: shutdown, crash, start.                                    *)

\* Queue::shutdown: a Stop for every worker.
Shutdown ==
  /\ phase = "up" /\ op = NoOp /\ starts < MaxStarts
  /\ phase' = "stopping"
  /\ UNCHANGED <<row, status, waiting, worker, sends, interrupts, cancelled, op,
                 historyVars>>

\* What is in memory goes.  (A send that reached paper as the power went is a
\* Written step whose answer no worker lived to read.)
PowerOff ==
  /\ phase' = "down"
  /\ status' = [j \in Jobs |-> "none"]
  /\ waiting' = [p \in Printers |-> <<>>]
  /\ worker' = [p \in Printers |-> Idle]
  /\ sends' = {}
  /\ interrupts' = [j \in Jobs |-> 0]
  /\ cancelled' = {}
  /\ op' = NoOp
  /\ UNCHANGED <<row, historyVars>>

\* Every worker was joined and the process ends.
Exit == /\ phase = "stopping"
        /\ \A p \in Printers : worker[p].at = "stopped"
        /\ PowerOff

Crash == phase # "down" /\ starts < MaxStarts /\ PowerOff

\* Queue::start: new workers, and what the spool holds is read.  What an earlier
\* run left in Windows' own print queues is deleted first: papers counts what
\* that queue took, and whether Windows printed it is outside this model.
Start ==
  /\ phase = "down"
  /\ phase' = "up"
  /\ starts' = starts + 1
  /\ Goes("resume", {j \in Jobs : row[j] # "none"})
  /\ UNCHANGED <<row, status, waiting, worker, sends, interrupts, cancelled,
                 created, dismissed, started, papers, retries, revived, faultVars>>

\* Queue::resume: a job cut off while printing is parked.
ResumeCut(j) ==
  /\ op.call = "resume" /\ NextUrgent(j, op.todo) /\ row[j] = "printing"
  /\ Park(j)
  /\ Goes("resume", op.todo \ {j})
  /\ UNCHANGED <<phase, waiting, worker, sends, interrupts, cancelled, countVars>>

\* Mutant: only the pending rows are dispatched.
ResumePending(j) ==
  /\ op.call = "resume" /\ NextUrgent(j, op.todo) /\ row[j] # "printing"
  /\ status' = [status EXCEPT ![j] = "pending"]
  /\ IF row[j] = "pending" THEN Dispatch(j) ELSE UNCHANGED waiting
  /\ Goes("resume", op.todo \ {j})
  /\ UNCHANGED <<phase, row, worker, sends, interrupts, cancelled, historyVars>>

\* Queue::resume: every other job is shown as pending and dispatched, a parked
\* one included, and one whose row missed what became of it; the row keeps the
\* state it has.
ResumeRest(j) ==
  /\ op.call = "resume" /\ NextUrgent(j, op.todo) /\ row[j] # "printing"
  /\ status' = [status EXCEPT ![j] = "pending"]
  /\ Dispatch(j)
  /\ revived' = IF row[j] = "parked" \/ j \in unwritten
                THEN [revived EXCEPT ![j] = @ + 1] ELSE revived
  /\ Goes("resume", op.todo \ {j})
  /\ UNCHANGED <<phase, row, worker, sends, interrupts, cancelled, created,
                 dismissed, started, papers, retries, starts, faultVars>>

-----------------------------------------------------------------------------
Init ==
  /\ phase = "down"
  /\ row = [j \in Jobs |-> "none"] /\ status = [j \in Jobs |-> "none"]
  /\ waiting = [p \in Printers |-> <<>>]
  /\ worker = [p \in Printers |-> Idle]
  /\ sends = {} /\ interrupts = [j \in Jobs |-> 0] /\ cancelled = {}
  /\ op = NoOp
  /\ created = <<>> /\ dismissed = {}
  /\ started = [j \in Jobs |-> 0] /\ papers = [j \in Jobs |-> 0]
  /\ retries = [j \in Jobs |-> 0] /\ revived = [j \in Jobs |-> 0]
  /\ starts = 0 /\ faults = 0 /\ unwritten = {}

\* A call under way goes on; a new one is a person's or billing's.
CallGoesOn == \E j \in Jobs : \/ EnqueueDispatch(j)
                              \/ RetryNext(j) \/ RetryRefused(j)
                              \/ DismissMark(j) \/ DismissRemove(j)
                              \/ DismissFails(j)
                              \/ ResumeCut(j) \/ ResumeRest(j)
Calls == \/ \E j \in Jobs : EnqueueSave(j)
         \/ RetryOne \/ RetryParked \/ DismissOne \/ DismissAll
         \/ CallGoesOn

Worker(p) == \/ Take(p) \/ WorkerStops(p) \/ CheckBefore(p) \/ Begin(p)
             \/ Deadline(p) \/ CheckAfter(p)
             \/ SettlePrinted(p) \/ SettleParked(p) \/ SettleFailed(p)
             \/ Wake(p)

Next == \/ Calls
        \/ \E p \in Printers : Worker(p)
        \/ SendThread
        \/ Shutdown \/ Exit \/ Crash \/ Start

Spec == Init /\ [][Next]_vars

\* A worker is a thread the OS runs and its deadline is a timer; a call that
\* holds the lock goes on; the shop opens the program again.  Nothing makes a
\* printer answer.
Fairness == /\ \A p \in Printers : WF_vars(Worker(p))
            /\ WF_vars(CallGoesOn)
            /\ WF_vars(Exit) /\ WF_vars(Start)

FairSpec == Spec /\ Fairness

-----------------------------------------------------------------------------
InHandType == [at : Step, job : Jobs \cup {NoJob}, attempt : Nat, send : Nat,
               answer : Answer]
SendType == [job : Jobs, no : Nat, at : {"opening", "writing"}, stop : BOOLEAN]
CallType == [call : {"none", "enqueue", "retry", "dismiss", "remove", "resume"},
             todo : SUBSET Jobs]

\* Every variable has the type its declaration in Shared, the spool or the
\* worker's locals gives it.
TypeOK ==
  /\ phase \in {"up", "stopping", "down"}
  /\ row \in [Jobs -> RowState] /\ status \in [Jobs -> RowState]
  /\ waiting \in [Printers -> Seq(Jobs)]
  /\ worker \in [Printers -> InHandType]
  /\ \A p \in Printers : worker[p].at \in {"idle", "stopped"} \/ worker[p].job \in Jobs
  /\ sends \subseteq SendType
  /\ interrupts \in [Jobs -> Nat]
  /\ cancelled \subseteq Jobs
  /\ op \in CallType
  /\ created \in Seq(Jobs) /\ dismissed \subseteq Jobs
  /\ started \in [Jobs -> Nat] /\ papers \in [Jobs -> Nat]
  /\ retries \in [Jobs -> Nat] /\ revived \in [Jobs -> Nat]
  /\ starts \in Nat /\ faults \in Nat /\ unwritten \subseteq Jobs

Running == phase = "up"
InHand(j) == \E p \in Printers : worker[p].job = j /\ worker[p].at # "idle"
Queued(j) == \E p \in Printers : j \in Range(waiting[p])
BeingPutIn(j) == op.call \in {"enqueue", "resume"} /\ j \in op.todo
BeingDismissed(j) == op.call \in {"dismiss", "remove"} /\ j \in op.todo

\* A job the caller was told is queued leaves the spool only onto paper or by a
\* person's decision, whatever crashes, restarts and failures lie between.
AcceptedIsNeverLost ==
  \A j \in Range(created) :
    row[j] # "none" \/ papers[j] > 0 \/ j \in dismissed

\* A worker that was told "printed" was told so by a send that went through.
OkMeansPaper ==
  \A p \in Printers : worker[p].answer = "ok" =>
    worker[p].job \in Jobs /\ papers[worker[p].job] > 0

\* The inductive strengthening of AcceptedIsNeverLost: the row is deleted on a
\* worker's say-so, so what the worker was told must be true.
NeverLostInv == AcceptedIsNeverLost /\ OkMeansPaper

\* Nothing in memory or in the spool is about a job that was never queued.
Known == Range(created)
OnlyKnown ==
  /\ \A j \in Jobs : row[j] # "none" \/ status[j] # "none" => j \in Known
  /\ \A p \in Printers : Range(waiting[p]) \subseteq Known
  /\ \A p \in Printers : worker[p].job \in Known \cup {NoJob}
  /\ op.todo \subseteq Known /\ dismissed \subseteq Known

Unfinished == {"pending", "printing", "failed"}

\* A job the spool has as unfinished is on its way: some worker holds it, or has
\* it in its queue.  (Otherwise it would wait, unprinted, for the next start.)
\* Only one whose row the database would not let go of, or not write, may be
\* with nobody, and that one is on the screen still or has been printed.
UnfinishedIsHeld ==
  Running => \A j \in Jobs :
    row[j] \in Unfinished =>
      \/ InHand(j) \/ Queued(j) \/ BeingPutIn(j) \/ BeingDismissed(j)
      \/ j \in unwritten /\ (status[j] # "none" \/ papers[j] > 0)

\* update never brings a deleted row back: a dismissed job stays out of the
\* spool even when its worker settles it afterwards.
DismissedStaysOut == \A j \in dismissed : row[j] = "none"

\* The inductive strengthening of DismissedStaysOut: enqueue cannot bring a
\* dismissed job back because its id was used before.
StaysOutInv == DismissedStaysOut /\ OnlyKnown

\* Jobs of one printer reach it by urgency, then in the order they were queued.
\* Only a job a person put back may come after a later one.
PrintedInOrder ==
  [][\A p \in Printers : \A k \in Range(created) :
       (worker[p].at = "idle" /\ worker'[p].at = "ready" /\ worker'[p].job = k) =>
         \A n \in DOMAIN created :
           LET j == created[n]
           IN (/\ j # k /\ j \in Range(waiting[p]) /\ retries[j] = 0) =>
                \/ Priority[k] < Priority[j]
                \/ /\ Priority[k] = Priority[j]
                   /\ \E m \in DOMAIN created : created[m] = k /\ m < n]_vars

\* However long a printer hangs, every job is printed, parked or dismissed, as
\* long as the database takes what is written of it.
EveryJobSettles ==
  \A j \in Jobs : (row[j] \in Unfinished) ~>
                  (row[j] \in {"none", "parked"} \/ j \in unwritten)

-----------------------------------------------------------------------------
(* The queue keeps the promise of PrintSpool.                              *)

Life(j) == IF j \notin Range(created) THEN "new"
           ELSE IF row[j] = "none" THEN "gone" ELSE "kept"
Passes(j) == IF j \in Range(created) THEN 1 + retries[j] + revived[j] ELSE 0

Spool == INSTANCE PrintSpool
           WITH life <- [j \in Jobs |-> Life(j)],
                passes <- [j \in Jobs |-> Passes(j)],
                givenUp <- dismissed

\* The whole queue, with its threads, crashes and restarts, implements the
\* promise: nothing is lost, nothing comes back, no paper without a pass.
KeepsThePromise == Spool!Spec

=============================================================================
