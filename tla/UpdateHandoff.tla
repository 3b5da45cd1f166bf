---------------------------- MODULE UpdateHandoff ----------------------------
(***************************************************************************)
(* Replacing the program while a shop is open (src-tauri/src/updates.rs,   *)
(* updates/transaction.rs).  The counter that installs an update closes;   *)
(* a copied worker waits for that, runs the installer and starts the new   *)
(* counter, which confirms that it opened.  Their only common memory is a  *)
(* journal of small files, and the power can go between any two of them.   *)
(* The installer, Windows and the person at the till are the environment.  *)
(***************************************************************************)
EXTENDS Integers, FiniteSets

CONSTANTS
    Versions,    \* the versions there are
    First,       \* the version the shop starts with
    Kept,        \* the version it can go back to, 0 for none
    Confirming,  \* the versions that know this journal
    Commands,    \* commands of the screens and phones that may be in flight
    MaxAttempts, \* how many updates are begun
    MaxOpens,    \* how often a person opens the program
    MaxFaults    \* how often the counter dies or the power goes

ASSUME UpdateAssumption ==
    /\ Versions \subseteq Nat \ {0} /\ Kept \in Versions \cup {0}
    /\ First \in Confirming /\ Confirming \subseteq Versions
    /\ MaxAttempts \in Nat /\ MaxOpens \in Nat /\ MaxFaults \in Nat

Attempts == 1 .. MaxAttempts
(* No attempt, no process, no version.                                     *)
None == 0

Stages == {"none", "preparing", "ready", "installing", "awaiting",
           "succeeded", "legacy", "failed"}
Final == {"succeeded", "legacy", "failed"}

VARIABLES
    counter,   \* the running counter: its process, its version, where it is,
               \* and whether the end of its process has been asked for
    gate,      \* `InstallGate`: billing is paused for an update
    lock,      \* who holds the action lock
    command,   \* how far each command has come
    dirty,     \* the cart holds work that is not saved
    target,    \* the version the update that is being fetched leads to
    journal,   \* the files of each attempt
    pending,   \* the attempt `pending.json` names
    worker,    \* the copied worker of each attempt, and the counter it started
    program,   \* the version of the installed program
    current, previous,  \* `current.json`, `previous.json`
    failure,   \* `failure.json` is there
    opened,    \* the versions that have opened healthily
    pids, opens, faults

memory == <<gate, lock, command, dirty, target>>
disk == <<journal, pending, current, previous, failure>>
vars == <<counter, memory, disk, worker, program, opened, pids, opens, faults>>

Closed == [pid |-> None, version |-> First, at |-> "closed", exiting |-> FALSE]
NoJob == [target |-> First, parent |-> None, previous |-> None,
          stage |-> "none", proceed |-> FALSE, cancelled |-> FALSE]
NoWorker == [at |-> "none", child |-> None]

At(where) == counter.at = where
IsOpen == counter.pid # None
Live(a) == worker[a].at \notin {"none", "gone"}
(* The outcome names its helper from the stage the helper wrote first.     *)
HelperLive(a) == journal[a].stage \in {"ready", "installing", "awaiting"} /\ Live(a)

(* `fail`: only the active attempt's failure is shown.                     *)
Failed(j, a) == [j EXCEPT ![a].stage = "failed"]
Told(a) == failure \/ pending = a

Fault == faults < MaxFaults /\ faults' = faults + 1

----------------------------------------------------------------------------
(* The counter's commands.  `begin_action` looks at the gate before it     *)
(* waits for the lock and again when it has it.                            *)

MayWork == counter.at \in {"work", "reserved", "fetching", "spawning", "spawned",
                           "handed", "unwatched"}

Ask(c) ==
    /\ MayWork /\ ~gate /\ command[c] = "idle"
    /\ command' = [command EXCEPT ![c] = "waiting"]
    /\ UNCHANGED <<counter, gate, lock, dirty, target, disk, worker, program, opened, pids, opens, faults>>

\* Mutant: the gate is not looked at again behind the lock.
EnterAnyway(c) ==
    /\ MayWork /\ command[c] = "waiting" /\ lock = "free"
    /\ command' = [command EXCEPT ![c] = "working"]
    /\ lock' = "command"
    /\ UNCHANGED <<counter, gate, dirty, target, disk, worker, program, opened, pids, opens, faults>>
Enter(c) ==
    /\ MayWork /\ command[c] = "waiting" /\ lock = "free"
    /\ command' = [command EXCEPT ![c] = IF gate THEN "idle" ELSE "working"]
    /\ lock' = IF gate THEN lock ELSE "command"
    /\ UNCHANGED <<counter, gate, dirty, target, disk, worker, program, opened, pids, opens, faults>>

Finish(c) ==
    /\ command[c] = "working"
    /\ command' = [command EXCEPT ![c] = "idle"] /\ lock' = "free"
    /\ dirty' \in BOOLEAN
    /\ UNCHANGED <<counter, gate, target, disk, worker, program, opened, pids, opens, faults>>

(* `with_cart_mut`: the cart, without the action lock.                     *)
EditCart ==
    /\ MayWork /\ ~gate /\ dirty' = TRUE
    /\ UNCHANGED <<counter, gate, lock, command, target, disk, worker, program, opened, pids, opens, faults>>

----------------------------------------------------------------------------
(* Beginning an update. *)

(* `ensure_idle`: one attempt at a time, and one that died is failed first. *)
Busy == pending # None /\ journal[pending].stage \notin Final /\ HelperLive(pending)
Dead == pending # None /\ journal[pending].stage \notin Final
Settled == IF Dead THEN Failed(journal, pending) ELSE journal

Resume == [counter EXCEPT !.at = "work"]
Release == counter' = Resume /\ gate' = FALSE /\ lock' = "free" /\ target' = None

(* `begin_install`: an idle counter whose work is saved.                   *)
Reserve ==
    /\ At("work") /\ counter.version \in Confirming
    /\ ~gate /\ lock = "free" /\ ~dirty
    /\ gate' = TRUE /\ lock' = "update"
    /\ counter' = [counter EXCEPT !.at = "reserved"]
    /\ UNCHANGED <<command, dirty, target, disk, worker, program, opened, pids, opens, faults>>

Refuse ==
    /\ At("reserved") /\ Release
    /\ UNCHANGED <<command, dirty, disk, worker, program, opened, pids, opens, faults>>

(* `install_attempt_on` up to the download, or `go_back_on`.               *)
Begin(v) ==
    /\ At("reserved") /\ ~Busy
    /\ journal' = Settled
    /\ \/ v > counter.version /\ failure' = FALSE
       \/ v = previous /\ failure' = (failure \/ Dead)
    /\ target' = v
    /\ counter' = [counter EXCEPT !.at = "fetching"]
    /\ UNCHANGED <<gate, lock, command, dirty, pending, current, previous,
                   worker, program, opened, pids, opens, faults>>

(* The download, its fingerprint, or the second `ensure_idle`.             *)
FetchFails ==
    /\ At("fetching") /\ Release
    /\ failure' \in (IF target > counter.version THEN {TRUE} ELSE {failure, TRUE})
    /\ UNCHANGED <<command, dirty, journal, pending, current, previous,
                   worker, program, opened, pids, opens, faults>>

(* `handoff`: the journal is written before the worker is started.         *)
WriteJob ==
    /\ At("fetching") /\ ~Busy /\ pending < MaxAttempts
    /\ pending' = pending + 1
    /\ journal' = [Settled EXCEPT ![pending + 1] =
            [NoJob EXCEPT !.target = target, !.parent = counter.pid, !.stage = "preparing",
                !.previous = IF current = counter.version /\ current # target THEN current ELSE None]]
    /\ failure' = FALSE
    /\ counter' = [counter EXCEPT !.at = "spawning"]
    /\ UNCHANGED <<memory, current, previous, worker, program, opened, pids, opens, faults>>

Spawn ==
    /\ At("spawning")
    /\ \/ /\ worker' = [worker EXCEPT ![pending].at = "started"]
          /\ counter' = [counter EXCEPT !.at = "spawned"]
          /\ UNCHANGED <<gate, lock, target, journal, failure>>
       \/ /\ Release /\ journal' = Failed(journal, pending) /\ failure' = TRUE
          /\ UNCHANGED worker
    /\ UNCHANGED <<command, dirty, pending, current, previous, program, opened, pids, opens, faults>>

(* `wait_for_ready`, and the marker that lets the worker go on.  The lock  *)
(* is released, the gate stays shut, and the counter is asked to end.      *)
Proceed ==
    /\ At("spawned") /\ journal[pending].stage = "ready"
    /\ journal' = [journal EXCEPT ![pending].proceed = TRUE]
    /\ counter' = [counter EXCEPT !.at = "handed", !.exiting = TRUE] /\ lock' = "free"
    /\ UNCHANGED <<gate, command, dirty, target, pending, current, previous, failure,
                   worker, program, opened, pids, opens, faults>>

(* Not in time: the marker first, because Windows may refuse to end it.    *)
GiveUp ==
    /\ At("spawned") /\ Release
    /\ journal' = [Failed(journal, pending) EXCEPT ![pending].cancelled = TRUE]
    /\ failure' = TRUE
    /\ worker' \in {worker, [worker EXCEPT ![pending].at = "gone"]}
    /\ UNCHANGED <<command, dirty, pending, current, previous, program, opened, pids, opens, faults>>

GoneFrom == /\ counter' = Closed /\ gate' = FALSE /\ lock' = "free" /\ target' = None
            /\ command' = [c \in Commands |-> "idle"] /\ dirty' = FALSE

(* The counter ends its own process for the installer, whenever its window *)
(* comes to it: nothing withdraws what was asked.                          *)
Exit ==
    /\ counter.exiting /\ GoneFrom
    /\ UNCHANGED <<disk, worker, program, opened, pids, opens, faults>>

\* Mutant: an attempt the worker has failed already is not recovered.
RecoverableUnfailed == journal[pending].stage \in {"preparing", "ready"}
Recoverable == journal[pending].stage \in {"preparing", "ready", "failed"}

(* `recover_handoff`: the process is still there, so nothing was installed *)
(* and billing goes on.  The end of the process is still asked for.        *)
Watchdog ==
    /\ At("handed") /\ journal[pending].parent = counter.pid /\ Recoverable
    /\ journal' = [Failed(journal, pending) EXCEPT ![pending].cancelled = TRUE]
    /\ failure' = TRUE /\ gate' = FALSE /\ counter' = Resume /\ target' = None
    /\ UNCHANGED <<lock, command, dirty, pending, current, previous,
                   worker, program, opened, pids, opens, faults>>

(* It looks once: when it cannot read or write the journal then, billing   *)
(* stays paused until the counter is closed.                               *)
WatchdogFails ==
    /\ At("handed") /\ Fault
    /\ \/ journal' \in {journal, [journal EXCEPT ![pending].cancelled = TRUE]} /\ UNCHANGED failure
       \/ /\ journal' = [Failed(journal, pending) EXCEPT ![pending].cancelled = TRUE]
          /\ failure' \in {failure, TRUE}
    /\ counter' = [counter EXCEPT !.at = "unwatched"]
    /\ UNCHANGED <<memory, pending, current, previous, worker, program, opened, pids, opens>>

----------------------------------------------------------------------------
(* The worker. *)

Gone(a) == [worker EXCEPT ![a].at = "gone"]

(* `open_process`, then readiness.                                         *)
WReady(a) ==
    /\ worker[a].at = "started"
    /\ IF pending = a
       THEN journal' = [journal EXCEPT ![a].stage = "ready"] /\ worker' = [worker EXCEPT ![a].at = "waiting"]
       ELSE journal' = Failed(journal, a) /\ worker' = Gone(a)
    /\ UNCHANGED <<counter, memory, pending, current, previous, failure, program, opened, pids, opens, faults>>

(* `authorized_after_exit`.                                                *)
\* Mutant: the parent's cancellation is not looked for.
AuthorizedOnce(a) == pending = a /\ journal[a].proceed
Authorized(a) == pending = a /\ journal[a].proceed /\ ~journal[a].cancelled

ParentGone(a) == journal[a].parent # counter.pid

WParentGone(a) ==
    /\ worker[a].at = "waiting" /\ ParentGone(a)
    /\ IF Authorized(a)
       THEN /\ journal' = [journal EXCEPT ![a].stage = "installing"]
            /\ worker' = [worker EXCEPT ![a].at = "verifying"]
            /\ UNCHANGED failure
       ELSE journal' = Failed(journal, a) /\ failure' = Told(a) /\ worker' = Gone(a)
    /\ UNCHANGED <<counter, memory, pending, current, previous, program, opened, pids, opens, faults>>

WTimeout(a) ==
    /\ worker[a].at = "waiting" /\ ~ParentGone(a)
    /\ journal' = Failed(journal, a) /\ failure' = Told(a) /\ worker' = Gone(a)
    /\ UNCHANGED <<counter, memory, pending, current, previous, program, opened, pids, opens, faults>>

Opening == [pid |-> pids + 1, version |-> program, at |-> "opening", exiting |-> FALSE]

(* Windows starts a counter; a second copy of the program ends at once.    *)
Launched ==
    IF IsOpen THEN UNCHANGED <<counter, pids>>
    ELSE pids' = pids + 1 /\ counter' = Opening

(* The fingerprint and the authority once more, then the installer.        *)
WVerify(a) ==
    /\ worker[a].at = "verifying"
    /\ \/ /\ Authorized(a) /\ worker' = [worker EXCEPT ![a].at = "running"]
          /\ UNCHANGED <<counter, journal, failure, pids>>
       \/ /\ journal' = Failed(journal, a) /\ failure' = Told(a) /\ worker' = Gone(a)
          /\ Launched
    /\ UNCHANGED <<memory, pending, current, previous, program, opened, opens, faults>>

(* The installer ends the program it finds running.  Its success does not  *)
(* say that it replaced this copy.                                         *)
InstallerEnds(a) ==
    /\ worker[a].at = "running"
    /\ GoneFrom
    /\ program' \in {program, journal[a].target}
    /\ worker' = [worker EXCEPT ![a].at = "installed"]
    /\ UNCHANGED <<disk, opened, pids, opens, faults>>

(* It fails, and the counter that is there is opened again.                *)
InstallerFails(a) ==
    /\ worker[a].at = "running"
    /\ gate' = FALSE /\ lock' = "free" /\ target' = None /\ dirty' = FALSE
    /\ command' = [c \in Commands |-> "idle"]
    /\ pids' = pids + 1 /\ counter' = Opening
    /\ journal' = Failed(journal, a) /\ failure' = Told(a) /\ worker' = Gone(a)
    /\ UNCHANGED <<pending, current, previous, program, opened, opens, faults>>

WAwait(a) ==
    /\ worker[a].at = "installed"
    /\ journal' = [journal EXCEPT ![a].stage = "awaiting"]
    /\ worker' = [worker EXCEPT ![a].at = "launching"]
    /\ UNCHANGED <<counter, memory, pending, current, previous, failure, program, opened, pids, opens, faults>>

WLaunch(a) ==
    /\ worker[a].at = "launching"
    /\ \/ /\ Launched
          /\ IF journal[a].target \in Confirming
             THEN /\ worker' = [worker EXCEPT ![a] =
                        [at |-> "watching", child |-> IF IsOpen THEN None ELSE counter'.pid]]
                  /\ UNCHANGED journal
             ELSE worker' = Gone(a) /\ journal' = [journal EXCEPT ![a].stage = "legacy"]
          /\ UNCHANGED failure
       \/ /\ journal' = Failed(journal, a) /\ failure' = Told(a) /\ worker' = Gone(a)
          /\ UNCHANGED <<counter, pids>>
    /\ UNCHANGED <<memory, pending, current, previous, program, opened, opens, faults>>

(* The outcome is read, then the clock and the child are looked at.        *)
WLook(a) ==
    /\ worker[a].at = "watching"
    /\ worker' = IF journal[a].stage = "succeeded" THEN Gone(a) ELSE [worker EXCEPT ![a].at = "judging"]
    /\ UNCHANGED <<counter, memory, disk, program, opened, pids, opens, faults>>

WJudge(a) ==
    /\ worker[a].at = "judging"
    /\ \/ /\ worker[a].child = counter.pid /\ IsOpen
          /\ worker' = [worker EXCEPT ![a].at = "watching"] /\ UNCHANGED failure
       \/ worker' = Gone(a) /\ failure' = TRUE
    /\ UNCHANGED <<counter, memory, journal, pending, current, previous, program, opened, pids, opens, faults>>

----------------------------------------------------------------------------
(* A counter opens. *)

Open ==
    /\ At("closed") /\ opens < MaxOpens /\ opens' = opens + 1
    /\ pids' = pids + 1 /\ counter' = Opening
    /\ UNCHANGED <<memory, disk, worker, program, opened, faults>>

\* Mutant: whichever version opens confirms the attempt.
IsExpectedAlways == TRUE
IsExpected == counter.version = journal[pending].target

(* `acknowledge_start`, behind a window that is up.                        *)
Healthy ==
    /\ At("opening")
    /\ opened' = opened \cup {counter.version}
    /\ LET knows == counter.version \in Confirming /\ pending # None
           waits == knows /\ journal[pending].stage = "awaiting"
           dead == knows /\ journal[pending].stage \notin Final \cup {"awaiting"} /\ ~HelperLive(pending)
       IN /\ counter' = [counter EXCEPT !.at = IF waits /\ IsExpected THEN "keeping" ELSE "work"]
          /\ journal' = IF dead THEN Failed(journal, pending) ELSE journal
          /\ failure' = (failure \/ dead \/ (waits /\ ~IsExpected))
    /\ UNCHANGED <<memory, pending, current, previous, worker, program, pids, opens, faults>>

(* The way back is kept; a copy that fails is only logged.                 *)
KeepPrevious ==
    /\ At("keeping") /\ counter' = [counter EXCEPT !.at = "kept"]
    /\ previous' \in {previous} \cup ({journal[pending].previous} \ {None})
    /\ UNCHANGED <<memory, journal, pending, current, failure, worker, program, opened, pids, opens, faults>>

SaveCurrent ==
    /\ At("kept") /\ counter' = [counter EXCEPT !.at = "confirming"]
    /\ current' = counter.version
    /\ UNCHANGED <<memory, journal, pending, previous, failure, worker, program, opened, pids, opens, faults>>

(* "Completion is written last."                                           *)
Confirm ==
    /\ At("confirming") /\ counter' = Resume
    /\ journal' = [journal EXCEPT ![pending].stage = "succeeded"]
    /\ failure' = FALSE
    /\ UNCHANGED <<memory, pending, current, previous, worker, program, opened, pids, opens, faults>>

(* A person closes the program, with nothing in flight.                    *)
Close ==
    /\ (At("work") /\ ~gate) \/ At("unwatched")
    /\ \A c \in Commands : command[c] = "idle"
    /\ GoneFrom
    /\ UNCHANGED <<disk, worker, program, opened, pids, opens, faults>>

CounterDies ==
    /\ IsOpen /\ Fault /\ GoneFrom
    /\ UNCHANGED <<disk, worker, program, opened, pids, opens>>

(* The installer had replaced the program, or not.                         *)
PowerGoes ==
    /\ Fault /\ GoneFrom
    /\ worker' = [a \in Attempts |-> IF Live(a) THEN [NoWorker EXCEPT !.at = "gone"] ELSE worker[a]]
    /\ program' \in {program} \cup {journal[a].target : a \in {x \in Attempts : worker[x].at = "running"}}
    /\ UNCHANGED <<disk, opened, pids, opens>>

Init ==
    /\ counter = [pid |-> 1, version |-> First, at |-> "work", exiting |-> FALSE]
    /\ gate = FALSE /\ lock = "free" /\ dirty = FALSE /\ target = None
    /\ command = [c \in Commands |-> "idle"]
    /\ journal = [a \in Attempts |-> NoJob] /\ pending = None
    /\ worker = [a \in Attempts |-> NoWorker]
    /\ program = First /\ current \in {None, First} /\ previous = Kept
    /\ failure = FALSE /\ opened = {First, previous} \ {None}
    /\ pids = 1 /\ opens = 0 /\ faults = 0

Work == EditCart \/ \E c \in Commands : Ask(c) \/ Enter(c) \/ Finish(c)

Update ==
    \/ Reserve \/ Refuse \/ (\E v \in Versions : Begin(v)) \/ FetchFails
    \/ WriteJob \/ Spawn \/ Proceed \/ GiveUp \/ Exit
    \/ Watchdog \/ WatchdogFails

Worker(a) ==
    \/ WReady(a) \/ WParentGone(a) \/ WTimeout(a) \/ WVerify(a)
    \/ InstallerEnds(a) \/ InstallerFails(a) \/ WAwait(a) \/ WLaunch(a)
    \/ WLook(a) \/ WJudge(a)

Start == Open \/ Healthy \/ KeepPrevious \/ SaveCurrent \/ Confirm

Next ==
    \/ Work \/ Update \/ Start \/ Close \/ CounterDies \/ PowerGoes
    \/ \E a \in Attempts : Worker(a)

Spec == Init /\ [][Next]_vars

(* Windows runs both processes, and the watchdog is a thread of its own;   *)
(* that the counter does end its process is what the watchdog doubts.  The *)
(* worker's deadlines end its two waits.                                   *)
Deadline(a) == WTimeout(a) \/ (WJudge(a) /\ worker'[a].at = "gone")
Fairness ==
    /\ WF_vars(Watchdog) /\ WF_vars(Proceed \/ GiveUp)
    /\ \A a \in Attempts : WF_vars(Worker(a)) /\ SF_vars(Deadline(a))

FairSpec == Spec /\ Fairness
----------------------------------------------------------------------------
(* Type invariant of the counter, the journal and the worker.              *)
TypeOK ==
    /\ counter \in [pid : Nat, version : Versions,
                    at : {"closed", "opening", "keeping", "kept", "confirming", "work",
                          "reserved", "fetching", "spawning", "spawned", "handed", "unwatched"},
                    exiting : BOOLEAN]
    /\ (counter.pid = None) <=> At("closed")
    /\ gate \in BOOLEAN /\ lock \in {"free", "command", "update"} /\ dirty \in BOOLEAN
    /\ lock = "update" => gate
    /\ target \in Versions \cup {None}
    /\ command \in [Commands -> {"idle", "waiting", "working"}]
    /\ journal \in [Attempts -> [target : Versions, parent : Nat, previous : Versions \cup {None},
                                 stage : Stages, proceed : BOOLEAN, cancelled : BOOLEAN]]
    /\ pending \in Attempts \cup {None}
    /\ worker \in [Attempts -> [at : {"none", "started", "waiting", "verifying", "running", "installed",
                                      "launching", "watching", "judging", "gone"}, child : Nat]]
    /\ program \in Versions /\ {current, previous} \subseteq Versions \cup {None}
    /\ failure \in BOOLEAN /\ opened \subseteq Versions
    /\ pids \in Nat /\ opens \in 0 .. MaxOpens /\ faults \in 0 .. MaxFaults

(* "If this original process still exists, the worker cannot have          *)
(* installed": past its wait the worker's parent has ended, and an attempt *)
(* its parent cancelled never reaches the installer.                       *)
InstallsAfterExit ==
    \A a \in Attempts :
        worker[a].at \in {"verifying", "running", "installed", "launching"} =>
            ParentGone(a) /\ journal[a].proceed /\ ~journal[a].cancelled

(* "Only a healthy start of the expected version confirms an upgrade": the *)
(* installed version and the one to go back to have both opened here, and  *)
(* so has the target of every attempt that is called a success.            *)
OnlyOpenedIsKept ==
    /\ {current, previous} \subseteq opened \cup {None}
    /\ \A a \in Attempts : journal[a].stage = "succeeded" => journal[a].target \in opened

(* "An update must not interrupt a bill or payment that is already being   *)
(* processed": the counter that closes for the installer has nothing in    *)
(* flight and nothing unsaved, at whatever moment its end comes.  The      *)
(* exception is an update that was taken back: billing goes on, and the    *)
(* end that was asked for may still come, in the middle of anything.       *)
TakenBack == counter.exiting /\ ~gate
InterruptsNothing ==
    [][counter.exiting /\ At("closed")' /\ faults' = faults =>
        \/ TakenBack
        \/ ~dirty /\ \A c \in Commands : command[c] # "working"]_vars

(* Billing is paused until the counter has closed, or until the watchdog   *)
(* takes the update back; never for good, unless its one look at the       *)
(* journal failed.                                                         *)
GateIsLifted == At("handed") ~> ~gate \/ At("unwatched")

===============================================================================
