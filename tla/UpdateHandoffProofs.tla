------------------------- MODULE UpdateHandoffProofs -------------------------
(***************************************************************************)
(* Replacing the program is safe for any versions, any number of attempts, *)
(* any faults: the journal and the two processes never disagree on whether *)
(* the old counter has ended.                                              *)
(***************************************************************************)
EXTENDS UpdateHandoff, TLAPS

Job == [target : Versions, parent : Nat, previous : Versions \cup {None},
        stage : Stages, proceed : BOOLEAN, cancelled : BOOLEAN]
Handing == {"spawning", "spawned", "handed"}
Holding == {"reserved", "fetching", "spawning", "spawned"}
Confirms == {"keeping", "kept", "confirming"}
Past == {"verifying", "running", "installed", "launching"}

(* Where the counter stands says what the journal names.                   *)
Places ==
    /\ At("fetching") => target \in Versions
    /\ counter.at \in Handing => pending # None /\ journal[pending].parent = counter.pid
    /\ counter.at \in Confirms => /\ pending # None /\ journal[pending].target = counter.version
                               /\ counter.version \in opened

(* Who holds the lock, and what the gate keeps out.                        *)
Paused ==
    /\ lock = "update" => counter.at \in Holding
    /\ counter.at \in Holding \cup {"handed", "unwatched"} => gate
    /\ gate => ~dirty /\ lock # "command"
    /\ \A c \in Commands : command[c] = "working" => lock = "command"
    /\ \A c, d \in Commands : command[c] = "working" /\ command[d] = "working" => c = d

(* Processes are numbered as they start, attempts as they are written.     *)
Numbered ==
    /\ counter.pid <= pids
    /\ \A a \in Attempts : /\ a <= pending => journal[a].parent \in 1 .. pids
                           /\ a > pending => worker[a].at = "none"

(* The way back that an attempt carries has been open.                     *)
WayBack == \A a \in Attempts : journal[a].previous \in opened \cup {None}

Inv == TypeOK /\ Places /\ Paused /\ Numbered /\ WayBack /\ InstallsAfterExit /\ OnlyOpenedIsKept

(* What the later files of an attempt never change.                        *)
SameJob(j, k) ==
    \A b \in Attempts : /\ k[b].parent = j[b].parent
                        /\ k[b].target = j[b].target
                        /\ k[b].previous = j[b].previous

(* The outcome of one attempt is rewritten, and nothing else of its files. *)
Staged(j, k, a, s) ==
    /\ k \in [Attempts -> Job] /\ SameJob(j, k)
    /\ \A b \in Attempts : /\ k[b].stage = (IF b = a THEN s ELSE j[b].stage)
                           /\ j[b].proceed => k[b].proceed
                           /\ b # a => (k[b].cancelled => j[b].cancelled)

SameMark(j, k) == \A b \in Attempts : k[b].cancelled => j[b].cancelled

(* One file of an attempt is rewritten: the others stay.                   *)
LEMMA Writes ==
    ASSUME NEW j \in [Attempts -> Job], NEW a, NEW s \in Stages,
           NEW k, k = [j EXCEPT ![a].stage = s]
    PROVE Staged(j, k, a, s) /\ SameMark(j, k)
<1>1. \A t \in Job : /\ [t EXCEPT !.stage = s] \in Job
                     /\ [t EXCEPT !.stage = s].stage = s
                     /\ [t EXCEPT !.stage = s].parent = t.parent
                     /\ [t EXCEPT !.stage = s].target = t.target
                     /\ [t EXCEPT !.stage = s].previous = t.previous
                     /\ [t EXCEPT !.stage = s].proceed = t.proceed
                     /\ [t EXCEPT !.stage = s].cancelled = t.cancelled
  BY DEF Job
<1>2. \A b \in Attempts : k[b] = IF b = a THEN [j[b] EXCEPT !.stage = s] ELSE j[b]
  OBVIOUS
<1>3. k \in [Attempts -> Job]
  BY <1>1
<1>4. ASSUME NEW b \in Attempts
      PROVE /\ k[b].stage = (IF b = a THEN s ELSE j[b].stage)
            /\ k[b].parent = j[b].parent
            /\ k[b].target = j[b].target
            /\ k[b].previous = j[b].previous
            /\ k[b].proceed = j[b].proceed
            /\ k[b].cancelled = j[b].cancelled
  <2>1. CASE b # a
    BY <1>2, <2>1
  <2>2. CASE b = a
    <3>1. k[b] = [j[b] EXCEPT !.stage = s] /\ j[b] \in Job
      BY <1>2, <2>2
    <3>. QED  BY <1>1, <2>2, <3>1
  <2>. QED  BY <2>1, <2>2
<1>. QED  BY <1>3, <1>4, Zenon DEF SameJob, Staged, SameMark

(* Failing an attempt rewrites its outcome.                                *)
LEMMA Fails ==
    ASSUME NEW j \in [Attempts -> Job], NEW a, NEW k, k = Failed(j, a)
    PROVE Staged(j, k, a, "failed") /\ SameMark(j, k)
<1>1. "failed" \in Stages /\ k = [j EXCEPT ![a].stage = "failed"]
  BY DEF Stages, Failed
<1>. QED  BY <1>1, Writes, Zenon

(* The parent's marker keeps the rest of the attempt.                      *)
LEMMA Cancels ==
    ASSUME NEW j \in [Attempts -> Job], NEW a,
           NEW m, m = [Failed(j, a) EXCEPT ![a].cancelled = TRUE]
    PROVE Staged(j, m, a, "failed")
<1>1. \A t \in Job : /\ [t EXCEPT !.cancelled = TRUE] \in Job
                     /\ [t EXCEPT !.cancelled = TRUE].stage = t.stage
                     /\ [t EXCEPT !.cancelled = TRUE].parent = t.parent
                     /\ [t EXCEPT !.cancelled = TRUE].target = t.target
                     /\ [t EXCEPT !.cancelled = TRUE].previous = t.previous
                     /\ [t EXCEPT !.cancelled = TRUE].proceed = t.proceed
  BY DEF Job
<1>. DEFINE k == Failed(j, a)
<1>2. Staged(j, k, a, "failed") /\ k \in [Attempts -> Job]
  BY Fails DEF Staged
<1>0. m = [k EXCEPT ![a].cancelled = TRUE]
  OBVIOUS
<1>. HIDE DEF k
<1>3. m \in [Attempts -> Job]
  <2>1. [k EXCEPT ![a].cancelled = TRUE] \in [Attempts -> Job]
    BY <1>1, <1>2 DEF Staged
  <2>. QED  BY <1>0, <2>1
<1>4. \A b \in Attempts : m[b] = IF b = a THEN [k[b] EXCEPT !.cancelled = TRUE] ELSE k[b]
  BY <1>0, <1>2
<1>5. ASSUME NEW b \in Attempts
      PROVE /\ m[b].stage = (IF b = a THEN "failed" ELSE j[b].stage)
            /\ m[b].parent = j[b].parent
            /\ m[b].target = j[b].target
            /\ m[b].previous = j[b].previous
            /\ j[b].proceed => m[b].proceed
            /\ b # a => (m[b].cancelled => j[b].cancelled)
  <2>1. CASE b # a
    BY <1>2, <1>4, <2>1 DEF Staged, SameJob
  <2>2. CASE b = a
    <3>1. m[b] = [k[b] EXCEPT !.cancelled = TRUE] /\ k[b] \in Job
      BY <1>2, <1>4, <2>2
    <3>. QED  BY <1>1, <1>2, <2>2, <3>1 DEF Staged, SameJob
  <2>. QED  BY <2>1, <2>2
<1>. QED  BY <1>3, <1>5 DEF Staged, SameJob

(* An attempt is cancelled, and nothing else of its files changes.         *)
Marked(j, k, a) ==
    /\ k \in [Attempts -> Job] /\ SameJob(j, k)
    /\ \A b \in Attempts : /\ k[b].stage = j[b].stage
                           /\ j[b].proceed => k[b].proceed
                           /\ b # a => (k[b].cancelled => j[b].cancelled)

(* The marker alone, when nothing more could be written.                   *)
LEMMA Marks ==
    ASSUME NEW j \in [Attempts -> Job], NEW a, NEW k, k = [j EXCEPT ![a].cancelled = TRUE]
    PROVE Marked(j, k, a)
<1>1. \A t \in Job : /\ [t EXCEPT !.cancelled = TRUE] \in Job
                     /\ [t EXCEPT !.cancelled = TRUE].stage = t.stage
                     /\ [t EXCEPT !.cancelled = TRUE].parent = t.parent
                     /\ [t EXCEPT !.cancelled = TRUE].target = t.target
                     /\ [t EXCEPT !.cancelled = TRUE].previous = t.previous
                     /\ [t EXCEPT !.cancelled = TRUE].proceed = t.proceed
  BY DEF Job
<1>2. \A b \in Attempts : k[b] = IF b = a THEN [j[b] EXCEPT !.cancelled = TRUE] ELSE j[b]
  OBVIOUS
<1>3. k \in [Attempts -> Job]
  BY <1>1
<1>. QED  BY <1>1, <1>2, <1>3 DEF Marked, SameJob

(* An attempt may go on, and nothing else of its files changes.            *)
Allowed(j, k) ==
    /\ k \in [Attempts -> Job] /\ SameJob(j, k)
    /\ \A b \in Attempts : /\ k[b].stage = j[b].stage
                           /\ k[b].cancelled => j[b].cancelled
                           /\ j[b].proceed => k[b].proceed

(* The marker that lets the worker go on keeps the rest of the attempt.    *)
LEMMA Proceeds ==
    ASSUME NEW j \in [Attempts -> Job], NEW a, NEW k, k = [j EXCEPT ![a].proceed = TRUE]
    PROVE Allowed(j, k)
<1>1. \A t \in Job : /\ [t EXCEPT !.proceed = TRUE] \in Job
                     /\ [t EXCEPT !.proceed = TRUE].stage = t.stage
                     /\ [t EXCEPT !.proceed = TRUE].parent = t.parent
                     /\ [t EXCEPT !.proceed = TRUE].target = t.target
                     /\ [t EXCEPT !.proceed = TRUE].previous = t.previous
                     /\ [t EXCEPT !.proceed = TRUE].cancelled = t.cancelled
                     /\ [t EXCEPT !.proceed = TRUE].proceed = TRUE
  BY DEF Job
<1>2. \A b \in Attempts : k[b] = IF b = a THEN [j[b] EXCEPT !.proceed = TRUE] ELSE j[b]
  OBVIOUS
<1>3. k \in [Attempts -> Job]
  BY <1>1
<1>. QED  BY <1>1, <1>2, <1>3 DEF SameJob, Allowed

(* A shop that has not updated has no attempt, no worker and an open       *)
(* counter of its first version.                                           *)
THEOREM InvInit == Init => Inv
<1>. SUFFICES ASSUME Init PROVE Inv
  OBVIOUS
<1>. USE UpdateAssumption DEF Init, None
<1>1. /\ counter.pid = 1 /\ counter.version = First /\ counter.at = "work"
      /\ \A a \in Attempts : worker[a].at = "none" /\ worker[a].child = 0
      /\ \A a \in Attempts : journal[a].stage = "none" /\ journal[a].previous = 0
  BY DEF NoJob, NoWorker
<1>2. TypeOK
  <2>1. NoJob \in Job /\ NoWorker.at = "none" /\ NoWorker.child = 0
    BY DEF Job, NoJob, NoWorker, Stages
  <2>2. journal \in [Attempts -> Job]
    BY <2>1
  <2>3. counter \in [pid : Nat, version : Versions, at : {"work"}, exiting : BOOLEAN]
    BY <1>1
  <2>4. worker \in [Attempts -> [at : {"none"}, child : Nat]]
    BY DEF NoWorker
  <2>5. /\ counter \in [pid : Nat, version : Versions,
                         at : {"closed", "opening", "keeping", "kept", "confirming", "work",
                               "reserved", "fetching", "spawning", "spawned", "handed", "unwatched"},
                         exiting : BOOLEAN]
        /\ worker \in [Attempts -> [at : {"none", "started", "waiting", "verifying", "running", "installed",
                                          "launching", "watching", "judging", "gone"}, child : Nat]]
    BY <2>3, <2>4
  <2>6. (counter.pid = None) <=> At("closed")
    BY <1>1 DEF At
  <2>7. /\ lock \in {"free", "command", "update"} /\ lock # "update"
        /\ command \in [Commands -> {"idle", "waiting", "working"}]
        /\ gate = FALSE /\ dirty = FALSE /\ failure = FALSE
    OBVIOUS
  <2>8. /\ program \in Versions /\ {current, previous} \subseteq Versions \cup {None}
        /\ opened \subseteq Versions /\ target \in Versions \cup {None}
        /\ pending \in Attempts \cup {None} /\ pids \in Nat
        /\ opens \in 0 .. MaxOpens /\ faults \in 0 .. MaxFaults
    OBVIOUS
  <2>. QED  BY <2>2, <2>5, <2>6, <2>7, <2>8 DEF TypeOK, Job
<1>3. Places /\ Paused /\ Numbered
  BY <1>1 DEF Places, Paused, Numbered, At, Handing, Holding, Confirms, Attempts
<1>4. WayBack /\ InstallsAfterExit /\ OnlyOpenedIsKept
  BY <1>1 DEF WayBack, InstallsAfterExit, OnlyOpenedIsKept
<1>. QED  BY <1>2, <1>3, <1>4 DEF Inv

Whereabouts == {"closed", "opening", "keeping", "kept", "confirming", "work",
             "reserved", "fetching", "spawning", "spawned", "handed", "unwatched"}
WorkerSteps == {"none", "started", "waiting", "verifying", "running", "installed",
            "launching", "watching", "judging", "gone"}

(* What is typed beside the three large variables.                         *)
Simple ==
    /\ (counter.pid = None) <=> At("closed")
    /\ gate \in BOOLEAN /\ lock \in {"free", "command", "update"} /\ dirty \in BOOLEAN
    /\ lock = "update" => gate
    /\ target \in Versions \cup {None}
    /\ command \in [Commands -> {"idle", "waiting", "working"}]
    /\ pending \in Attempts \cup {None}
    /\ program \in Versions /\ {current, previous} \subseteq Versions \cup {None}
    /\ failure \in BOOLEAN /\ opened \subseteq Versions
    /\ pids \in Nat /\ opens \in 0 .. MaxOpens /\ faults \in 0 .. MaxFaults

Large ==
    /\ counter \in [pid : Nat, version : Versions, at : Whereabouts, exiting : BOOLEAN]
    /\ worker \in [Attempts -> [at : WorkerSteps, child : Nat]]
    /\ journal \in [Attempts -> Job]

(* The type invariant in these two parts.                                  *)
LEMMA TypeParts ==
    /\ TypeOK <=> Large /\ Simple
    /\ TypeOK' <=> Large' /\ Simple'
BY DEF TypeOK, Large, Simple, Whereabouts, WorkerSteps, Job, At

(* No attempt is added or loses its way, a counter that starts is a new    *)
(* process, and only the pending attempt gets a worker.                    *)
Continues ==
    /\ SameJob(journal, journal') /\ pending' = pending
    /\ \A b \in Attempts : journal[b].proceed => journal'[b].proceed
    /\ \A b \in Attempts : worker'[b].at # "none" => worker[b].at # "none" \/ b = pending
    /\ pids' \in {pids, pids + 1}
    /\ counter'.pid \in {counter.pid, 0, pids'} /\ counter'.pid \in {counter.pid, 0, pids + 1}

(* No attempt becomes an installing one, and none that is is cancelled.    *)
NoneEnters ==
    \A b \in Attempts : worker'[b].at \in Past =>
        worker[b].at \in Past /\ (journal'[b].cancelled => journal[b].cancelled)

(* Attempts and processes keep their numbers while no attempt is added.    *)
LEMMA StaysNumbered ==
    ASSUME Inv, Continues
    PROVE Numbered'
<1>1. /\ pids \in Nat /\ counter.pid \in Nat /\ counter.pid <= pids
      /\ pending \in Nat /\ \A b \in Attempts : b \in Nat
  BY UpdateAssumption DEF Inv, Numbered, TypeOK, Attempts, None
<1>2. counter'.pid <= pids' /\ pids' >= pids /\ pids' \in Nat /\ pending' = pending
  BY <1>1 DEF Continues
<1>3. ASSUME NEW b \in Attempts, b <= pending PROVE journal'[b].parent \in 1 .. pids'
  BY <1>1, <1>2, <1>3 DEF Inv, Numbered, SameJob, Continues
<1>4. ASSUME NEW b \in Attempts, b > pending PROVE worker'[b].at = "none"
  BY <1>1, <1>4 DEF Inv, Numbered, Continues
<1>. QED  BY <1>2, <1>3, <1>4 DEF Numbered

(* An attempt past its wait stays outside the life of its parent.          *)
LEMMA StaysOutside ==
    ASSUME Inv, Continues, NoneEnters
    PROVE InstallsAfterExit'
<1>1. ASSUME NEW b \in Attempts, worker'[b].at \in Past
      PROVE /\ ParentGone(b)' /\ journal'[b].proceed
            /\ ~journal'[b].cancelled
  <2>1. worker[b].at \in Past /\ journal'[b].parent = journal[b].parent
    BY <1>1 DEF SameJob, Continues, NoneEnters
  <2>2. ParentGone(b) /\ journal[b].proceed /\ ~journal[b].cancelled
    BY <2>1 DEF Inv, InstallsAfterExit, Past
  <2>3. b <= pending
    BY <2>1, UpdateAssumption DEF Inv, Numbered, Past, Attempts, TypeOK, None
  <2>4. journal[b].parent \in 1 .. pids /\ pids \in Nat
    BY <2>3 DEF Inv, Numbered, TypeOK
  <2>5. ParentGone(b)'
    BY <2>1, <2>2, <2>4 DEF ParentGone, Continues
  <2>. QED  BY <1>1, <2>2, <2>5 DEF Continues, NoneEnters
<1>. QED  BY <1>1 DEF InstallsAfterExit, Past

(* The counter moves on, or ends.                                          *)
LEMMA Moves ==
    ASSUME TypeOK
    PROVE /\ \A w \in Whereabouts :
                 /\ [counter EXCEPT !.at = w] \in [pid : Nat, version : Versions, at : Whereabouts, exiting : BOOLEAN]
                 /\ [counter EXCEPT !.at = w].at = w
                 /\ [counter EXCEPT !.at = w].pid = counter.pid
                 /\ [counter EXCEPT !.at = w].version = counter.version
                 /\ [counter EXCEPT !.at = w, !.exiting = TRUE] \in
                        [pid : Nat, version : Versions, at : Whereabouts, exiting : BOOLEAN]
                 /\ [counter EXCEPT !.at = w, !.exiting = TRUE].at = w
                 /\ [counter EXCEPT !.at = w, !.exiting = TRUE].pid = counter.pid
                 /\ [counter EXCEPT !.at = w, !.exiting = TRUE].version = counter.version
          /\ \A n \in Nat, v \in Versions :
                 [pid |-> n, version |-> v, at |-> "opening", exiting |-> FALSE] \in [pid : Nat, version : Versions, at : Whereabouts, exiting : BOOLEAN]
          /\ Closed \in [pid : Nat, version : Versions, at : Whereabouts, exiting : BOOLEAN]
          /\ Closed.pid = 0 /\ Closed.at = "closed"
<1>1. counter \in [pid : Nat, version : Versions, at : Whereabouts, exiting : BOOLEAN]
  BY DEF TypeOK, Whereabouts
<1>. QED  BY <1>1, UpdateAssumption DEF Closed, None, Whereabouts

(* A counter that opens is a new process of the installed program.         *)
LEMMA Opens ==
    ASSUME TypeOK
    PROVE /\ Opening \in [pid : Nat, version : Versions, at : Whereabouts, exiting : BOOLEAN]
          /\ Opening.at = "opening" /\ Opening.pid = pids + 1 /\ Opening.version = program
<1>1. pids + 1 \in Nat /\ program \in Versions /\ "opening" \in Whereabouts
  BY DEF TypeOK, Whereabouts
<1>. QED  BY <1>1 DEF Opening

(* One worker moves on.                                                    *)
LEMMA WorkerMoves ==
    ASSUME TypeOK, NEW a
    PROVE \A w \in WorkerSteps :
              /\ [worker EXCEPT ![a].at = w] \in [Attempts -> [at : WorkerSteps, child : Nat]]
              /\ \A b \in Attempts : [worker EXCEPT ![a].at = w][b].at = (IF b = a THEN w ELSE worker[b].at)
<1>1. worker \in [Attempts -> [at : WorkerSteps, child : Nat]]
  BY DEF TypeOK, WorkerSteps
<1>2. TAKE w \in WorkerSteps
<1>. DEFINE k == [worker EXCEPT ![a].at = w]
<1>3. \A b \in Attempts : k[b] = IF b = a THEN [worker[b] EXCEPT !.at = w] ELSE worker[b]
  BY <1>1
<1>4. \A t \in [at : WorkerSteps, child : Nat] : /\ [t EXCEPT !.at = w] \in [at : WorkerSteps, child : Nat]
                                             /\ [t EXCEPT !.at = w].at = w
  OBVIOUS
<1>5. k \in [Attempts -> [at : WorkerSteps, child : Nat]]
  BY <1>1, <1>4
<1>6. \A b \in Attempts : worker[b] \in [at : WorkerSteps, child : Nat]
  BY <1>1
<1>. HIDE DEF k
<1>7. ASSUME NEW b \in Attempts PROVE k[b].at = (IF b = a THEN w ELSE worker[b].at)
  <2>1. CASE b = a
    <3>1. k[b] = [worker[b] EXCEPT !.at = w]
      BY <1>3, <2>1
    <3>. QED  BY <1>4, <1>6, <2>1, <3>1
  <2>2. CASE b # a
    BY <1>3, <2>2
  <2>. QED  BY <2>1, <2>2
<1>. QED  BY <1>5, <1>7 DEF k

(* The step of every process, the installer's and the person's included,   *)
(* keeps what the journal, the lock and the processes say of one another.  *)
THEOREM InvStep == Inv /\ [Next]_vars => Inv'
<1>. SUFFICES ASSUME Inv, [Next]_vars PROVE Inv'
  OBVIOUS
<1>. USE UpdateAssumption DEF Inv, None, At, memory, disk
<1>. DEFINE CT == [pid : Nat, version : Versions, at : Whereabouts, exiting : BOOLEAN]
            WT == [Attempts -> [at : WorkerSteps, child : Nat]]
            JT == [Attempts -> Job]
<1>0. counter \in CT /\ worker \in WT /\ journal \in JT /\ Simple /\ Large
  BY TypeParts DEF Large
<1>1. ASSUME NEW c \in Commands, Ask(c) PROVE Inv'
  BY <1>1 DEF TypeOK, Places, Paused, Numbered, WayBack, InstallsAfterExit, OnlyOpenedIsKept, At,
     Handing, Holding, Confirms, Past, ParentGone, Whereabouts, WorkerSteps, Job, Ask, MayWork
<1>2. ASSUME NEW c \in Commands, Enter(c) PROVE Inv'
  BY <1>2 DEF TypeOK, Places, Paused, Numbered, WayBack, InstallsAfterExit, OnlyOpenedIsKept, At,
     Handing, Holding, Confirms, Past, ParentGone, Whereabouts, WorkerSteps, Job, Enter, MayWork
<1>3. ASSUME NEW c \in Commands, Finish(c) PROVE Inv'
  BY <1>3 DEF TypeOK, Places, Paused, Numbered, WayBack, InstallsAfterExit, OnlyOpenedIsKept, At,
     Handing, Holding, Confirms, Past, ParentGone, Whereabouts, WorkerSteps, Job, Finish, MayWork
<1>4. CASE EditCart
  BY <1>4 DEF TypeOK, Places, Paused, Numbered, WayBack, InstallsAfterExit, OnlyOpenedIsKept, At,
     Handing, Holding, Confirms, Past, ParentGone, Whereabouts, WorkerSteps, Job, EditCart,
     MayWork
<1>5. CASE Reserve
  <2>1. counter' = [counter EXCEPT !.at = "reserved"] /\ "reserved" \in Whereabouts
    BY <1>5 DEF Reserve, Resume, Whereabouts
  <2>2. /\ counter' \in CT /\ counter'.at = "reserved"
        /\ counter'.pid = counter.pid /\ counter'.version = counter.version
    BY <2>1, Moves
  <2>3. Large' /\ Simple'
    BY <1>5, <2>1, <2>2, <1>0 DEF Large, Simple, Paused, Places, Holding, Reserve
  <2>4. Places' /\ Paused'
    BY <1>5, <2>1, <2>2, <1>0 DEF Simple, Places, Paused, Handing, Confirms, Holding, ParentGone,
       Numbered, Reserve
  <2>5. WayBack' /\ OnlyOpenedIsKept'
    BY <1>5, <2>1, <2>2, <1>0 DEF Simple, Places, Confirms, WayBack, OnlyOpenedIsKept, Reserve
  <2>6. Continues
    BY <1>5, <2>1, <2>2, <1>0 DEF Continues, SameJob, Places, Handing, Reserve
  <2>7. NoneEnters
    BY <1>5, <2>1, <2>2, <1>0 DEF NoneEnters, Past, Places, Handing, InstallsAfterExit,
       ParentGone, Large, Reserve
  <2>. QED  BY <2>3, <2>4, <2>5, <2>6, <2>7, TypeParts, StaysNumbered, StaysOutside
<1>6. CASE Refuse
  <2>1. counter' = [counter EXCEPT !.at = "work"] /\ "work" \in Whereabouts
    BY <1>6 DEF Refuse, Release, Resume, Whereabouts
  <2>2. /\ counter' \in CT /\ counter'.at = "work"
        /\ counter'.pid = counter.pid /\ counter'.version = counter.version
    BY <2>1, Moves
  <2>3. Large' /\ Simple'
    BY <1>6, <2>1, <2>2, <1>0 DEF Large, Simple, Paused, Places, Holding, Refuse, Release
  <2>4. Places' /\ Paused'
    BY <1>6, <2>1, <2>2, <1>0 DEF Simple, Places, Paused, Handing, Confirms, Holding, ParentGone,
       Numbered, Refuse, Release
  <2>5. WayBack' /\ OnlyOpenedIsKept'
    BY <1>6, <2>1, <2>2, <1>0 DEF Simple, Places, Confirms, WayBack, OnlyOpenedIsKept, Refuse,
       Release
  <2>6. Continues
    BY <1>6, <2>1, <2>2, <1>0 DEF Continues, SameJob, Places, Handing, Refuse, Release
  <2>7. NoneEnters
    BY <1>6, <2>1, <2>2, <1>0 DEF NoneEnters, Past, Places, Handing, InstallsAfterExit,
       ParentGone, Large, Refuse, Release
  <2>. QED  BY <2>3, <2>4, <2>5, <2>6, <2>7, TypeParts, StaysNumbered, StaysOutside
<1>7. ASSUME NEW a \in Attempts, WAwait(a) PROVE Inv'
  <2>1. journal' = [journal EXCEPT ![a].stage = "awaiting"] /\ "awaiting" \in Stages
    BY <1>7 DEF WAwait, Stages
  <2>2. Staged(journal, journal', a, "awaiting") /\ SameMark(journal, journal')
    BY <1>0, <2>1, Writes
  <2>3. worker' = [worker EXCEPT ![a].at = "launching"] /\ "launching" \in WorkerSteps
    BY <1>7 DEF WAwait, Gone, WorkerSteps
  <2>4. /\ worker' \in WT
        /\ \A b \in Attempts : worker'[b].at = (IF b = a THEN "launching" ELSE worker[b].at)
    BY <2>3, WorkerMoves
  <2>5. Large' /\ Simple'
    BY <1>7, <2>1, <2>2, <2>3, <2>4, <1>0 DEF Large, Simple, Paused, Places, Holding, WAwait,
       Staged, SameJob, SameMark
  <2>6. Places' /\ Paused'
    BY <1>7, <2>1, <2>2, <2>3, <2>4, <1>0 DEF Simple, Places, Paused, Handing, Confirms, Holding,
       ParentGone, Numbered, WAwait, Staged, SameJob, SameMark
  <2>7. WayBack' /\ OnlyOpenedIsKept'
    BY <1>7, <2>1, <2>2, <2>3, <2>4, <1>0 DEF Simple, Places, Confirms, WayBack, OnlyOpenedIsKept,
       WAwait, Staged, SameJob, SameMark
  <2>8. Continues
    BY <1>7, <2>1, <2>2, <2>3, <2>4, <1>0 DEF Continues, SameJob, Places, Handing, WAwait, Staged,
       SameJob, SameMark
  <2>9. NoneEnters
    BY <1>7, <2>1, <2>2, <2>3, <2>4, <1>0 DEF NoneEnters, Past, Places, Handing,
       InstallsAfterExit, ParentGone, Large, WAwait, Staged, SameJob, SameMark
  <2>. QED  BY <2>5, <2>6, <2>7, <2>8, <2>9, TypeParts, StaysNumbered, StaysOutside
<1>8. CASE FetchFails
  <2>1. counter' = [counter EXCEPT !.at = "work"] /\ "work" \in Whereabouts
    BY <1>8 DEF FetchFails, Release, Resume, Whereabouts
  <2>2. /\ counter' \in CT /\ counter'.at = "work"
        /\ counter'.pid = counter.pid /\ counter'.version = counter.version
    BY <2>1, Moves
  <2>3. Large' /\ Simple'
    BY <1>8, <2>1, <2>2, <1>0 DEF Large, Simple, Paused, Places, Holding, FetchFails, Release
  <2>4. Places' /\ Paused'
    BY <1>8, <2>1, <2>2, <1>0 DEF Simple, Places, Paused, Handing, Confirms, Holding, ParentGone,
       Numbered, FetchFails, Release
  <2>5. WayBack' /\ OnlyOpenedIsKept'
    BY <1>8, <2>1, <2>2, <1>0 DEF Simple, Places, Confirms, WayBack, OnlyOpenedIsKept, FetchFails,
       Release
  <2>6. Continues
    BY <1>8, <2>1, <2>2, <1>0 DEF Continues, SameJob, Places, Handing, FetchFails, Release
  <2>7. NoneEnters
    BY <1>8, <2>1, <2>2, <1>0 DEF NoneEnters, Past, Places, Handing, InstallsAfterExit,
       ParentGone, Large, FetchFails, Release
  <2>. QED  BY <2>3, <2>4, <2>5, <2>6, <2>7, TypeParts, StaysNumbered, StaysOutside
<1>9. ASSUME NEW v \in Versions, Begin(v) PROVE Inv'
  <2>1. counter' = [counter EXCEPT !.at = "fetching"] /\ "fetching" \in Whereabouts
    BY <1>9 DEF Begin, Resume, Whereabouts
  <2>2. /\ counter' \in CT /\ counter'.at = "fetching"
        /\ counter'.pid = counter.pid /\ counter'.version = counter.version
    BY <2>1, Moves
  <2>3. journal' = Failed(journal, pending) \/ journal' = journal
    BY <1>9 DEF Begin, Settled
  <2>4. (Staged(journal, journal', pending, "failed") /\ SameMark(journal, journal')) \/ journal' = journal
    BY <1>0, <2>3, Fails
  <2>5. Large' /\ Simple'
    BY <1>9, <2>1, <2>2, <2>3, <2>4, <1>0 DEF Large, Simple, Paused, Places, Holding, Begin,
       Staged, SameJob, SameMark
  <2>6. Places' /\ Paused'
    BY <1>9, <2>1, <2>2, <2>3, <2>4, <1>0 DEF Simple, Places, Paused, Handing, Confirms, Holding,
       ParentGone, Numbered, Begin, Staged, SameJob, SameMark
  <2>7. WayBack' /\ OnlyOpenedIsKept'
    BY <1>9, <2>1, <2>2, <2>3, <2>4, <1>0 DEF Simple, Places, Confirms, WayBack, OnlyOpenedIsKept,
       Begin, Staged, SameJob, SameMark
  <2>8. Continues
    BY <1>9, <2>1, <2>2, <2>3, <2>4, <1>0 DEF Continues, SameJob, Places, Handing, Begin, Staged,
       SameJob, SameMark
  <2>9. NoneEnters
    BY <1>9, <2>1, <2>2, <2>3, <2>4, <1>0 DEF NoneEnters, Past, Places, Handing,
       InstallsAfterExit, ParentGone, Large, Begin, Staged, SameJob, SameMark
  <2>. QED  BY <2>5, <2>6, <2>7, <2>8, <2>9, TypeParts, StaysNumbered, StaysOutside
<1>10. CASE Proceed
  <2>1. counter' = [counter EXCEPT !.at = "handed", !.exiting = TRUE] /\ "handed" \in Whereabouts
    BY <1>10 DEF Proceed, Resume, Whereabouts
  <2>2. /\ counter' \in CT /\ counter'.at = "handed"
        /\ counter'.pid = counter.pid /\ counter'.version = counter.version
    BY <2>1, Moves
  <2>3. journal' = [journal EXCEPT ![pending].proceed = TRUE]
    BY <1>10 DEF Proceed
  <2>4. Allowed(journal, journal')
    BY <1>0, <2>3, Proceeds
  <2>5. Large' /\ Simple'
    BY <1>10, <2>1, <2>2, <2>3, <2>4, <1>0 DEF Large, Simple, Paused, Places, Holding, Proceed,
       Allowed, SameJob
  <2>6. Places' /\ Paused'
    BY <1>10, <2>1, <2>2, <2>3, <2>4, <1>0 DEF Simple, Places, Paused, Handing, Confirms, Holding,
       ParentGone, Numbered, Proceed, Allowed, SameJob
  <2>7. WayBack' /\ OnlyOpenedIsKept'
    BY <1>10, <2>1, <2>2, <2>3, <2>4, <1>0 DEF Simple, Places, Confirms, WayBack,
       OnlyOpenedIsKept, Proceed, Allowed, SameJob
  <2>8. Continues
    BY <1>10, <2>1, <2>2, <2>3, <2>4, <1>0 DEF Continues, SameJob, Places, Handing, Proceed,
       Allowed, SameJob
  <2>9. NoneEnters
    BY <1>10, <2>1, <2>2, <2>3, <2>4, <1>0 DEF NoneEnters, Past, Places, Handing,
       InstallsAfterExit, ParentGone, Large, Proceed, Allowed, SameJob
  <2>. QED  BY <2>5, <2>6, <2>7, <2>8, <2>9, TypeParts, StaysNumbered, StaysOutside
<1>11. CASE GiveUp
  <2>1. CASE worker' = worker
    <3>1. counter' = [counter EXCEPT !.at = "work"] /\ "work" \in Whereabouts
      BY <1>11, <2>1 DEF GiveUp, Release, Resume, Whereabouts
    <3>2. /\ counter' \in CT /\ counter'.at = "work"
          /\ counter'.pid = counter.pid /\ counter'.version = counter.version
      BY <3>1, Moves
    <3>3. journal' = [Failed(journal, pending) EXCEPT ![pending].cancelled = TRUE]
      BY <1>11, <2>1 DEF GiveUp
    <3>4. Staged(journal, journal', pending, "failed")
      BY <1>0, <3>3, Cancels
    <3>5. Large' /\ Simple'
      BY <1>11, <2>1, <3>1, <3>2, <3>3, <3>4, <1>0 DEF Large, Simple, Paused, Places, Holding,
         GiveUp, Release, Staged, SameJob, SameMark
    <3>6. Places' /\ Paused'
      BY <1>11, <2>1, <3>1, <3>2, <3>3, <3>4, <1>0 DEF Simple, Places, Paused, Handing, Confirms,
         Holding, ParentGone, Numbered, GiveUp, Release, Staged, SameJob, SameMark
    <3>7. WayBack' /\ OnlyOpenedIsKept'
      BY <1>11, <2>1, <3>1, <3>2, <3>3, <3>4, <1>0 DEF Simple, Places, Confirms, WayBack,
         OnlyOpenedIsKept, GiveUp, Release, Staged, SameJob, SameMark
    <3>8. Continues
      BY <1>11, <2>1, <3>1, <3>2, <3>3, <3>4, <1>0 DEF Continues, SameJob, Places, Handing,
         GiveUp, Release, Staged, SameJob, SameMark
    <3>9. NoneEnters
      BY <1>11, <2>1, <3>1, <3>2, <3>3, <3>4, <1>0 DEF NoneEnters, Past, Places, Handing,
         InstallsAfterExit, ParentGone, Large, GiveUp, Release, Staged, SameJob, SameMark
    <3>. QED  BY <3>5, <3>6, <3>7, <3>8, <3>9, TypeParts, StaysNumbered, StaysOutside
  <2>2. CASE worker' = [worker EXCEPT ![pending].at = "gone"]
    <3>1. counter' = [counter EXCEPT !.at = "work"] /\ "work" \in Whereabouts
      BY <1>11, <2>2 DEF GiveUp, Release, Resume, Whereabouts
    <3>2. /\ counter' \in CT /\ counter'.at = "work"
          /\ counter'.pid = counter.pid /\ counter'.version = counter.version
      BY <3>1, Moves
    <3>3. journal' = [Failed(journal, pending) EXCEPT ![pending].cancelled = TRUE]
      BY <1>11, <2>2 DEF GiveUp
    <3>4. Staged(journal, journal', pending, "failed")
      BY <1>0, <3>3, Cancels
    <3>5. worker' = [worker EXCEPT ![pending].at = "gone"] /\ "gone" \in WorkerSteps
      BY <1>11, <2>2 DEF GiveUp, Gone, WorkerSteps
    <3>6. /\ worker' \in WT
          /\ \A b \in Attempts : worker'[b].at = (IF b = pending THEN "gone" ELSE worker[b].at)
      BY <3>5, WorkerMoves
    <3>7. Large' /\ Simple'
      BY <1>11, <2>2, <3>1, <3>2, <3>3, <3>4, <3>5, <3>6, <1>0 DEF Large, Simple, Paused, Places,
         Holding, GiveUp, Release, Staged, SameJob, SameMark
    <3>8. Places' /\ Paused'
      BY <1>11, <2>2, <3>1, <3>2, <3>3, <3>4, <3>5, <3>6, <1>0 DEF Simple, Places, Paused,
         Handing, Confirms, Holding, ParentGone, Numbered, GiveUp, Release, Staged, SameJob,
         SameMark
    <3>9. WayBack' /\ OnlyOpenedIsKept'
      BY <1>11, <2>2, <3>1, <3>2, <3>3, <3>4, <3>5, <3>6, <1>0 DEF Simple, Places, Confirms,
         WayBack, OnlyOpenedIsKept, GiveUp, Release, Staged, SameJob, SameMark
    <3>10. Continues
      BY <1>11, <2>2, <3>1, <3>2, <3>3, <3>4, <3>5, <3>6, <1>0 DEF Continues, SameJob, Places,
         Handing, GiveUp, Release, Staged, SameJob, SameMark
    <3>11. NoneEnters
      BY <1>11, <2>2, <3>1, <3>2, <3>3, <3>4, <3>5, <3>6, <1>0 DEF NoneEnters, Past, Places,
         Handing, InstallsAfterExit, ParentGone, Large, GiveUp, Release, Staged, SameJob, SameMark
    <3>. QED  BY <3>7, <3>8, <3>9, <3>10, <3>11, TypeParts, StaysNumbered, StaysOutside
  <2>. QED  BY <1>11, <2>1, <2>2 DEF GiveUp
<1>12. CASE Exit
  <2>1. counter' \in CT /\ counter'.pid = 0 /\ counter'.at = "closed"
    BY <1>12, Moves DEF Exit, GoneFrom
  <2>2. Large' /\ Simple'
    BY <1>12, <2>1, <1>0 DEF Large, Simple, Paused, Places, Holding, Exit, GoneFrom
  <2>3. Places' /\ Paused'
    BY <1>12, <2>1, <1>0 DEF Simple, Places, Paused, Handing, Confirms, Holding, ParentGone,
       Numbered, Exit, GoneFrom
  <2>4. WayBack' /\ OnlyOpenedIsKept'
    BY <1>12, <2>1, <1>0 DEF Simple, Places, Confirms, WayBack, OnlyOpenedIsKept, Exit, GoneFrom
  <2>5. Continues
    BY <1>12, <2>1, <1>0 DEF Continues, SameJob, Places, Handing, Exit, GoneFrom
  <2>6. NoneEnters
    BY <1>12, <2>1, <1>0 DEF NoneEnters, Past, Places, Handing, InstallsAfterExit, ParentGone,
       Large, Exit, GoneFrom
  <2>. QED  BY <2>2, <2>3, <2>4, <2>5, <2>6, TypeParts, StaysNumbered, StaysOutside
<1>13. CASE Watchdog
  <2>1. counter' = [counter EXCEPT !.at = "work"] /\ "work" \in Whereabouts
    BY <1>13 DEF Watchdog, Resume, Whereabouts
  <2>2. /\ counter' \in CT /\ counter'.at = "work"
        /\ counter'.pid = counter.pid /\ counter'.version = counter.version
    BY <2>1, Moves
  <2>3. journal' = [Failed(journal, pending) EXCEPT ![pending].cancelled = TRUE]
    BY <1>13 DEF Watchdog
  <2>4. Staged(journal, journal', pending, "failed")
    BY <1>0, <2>3, Cancels
  <2>5. Large' /\ Simple'
    BY <1>13, <2>1, <2>2, <2>3, <2>4, <1>0 DEF Large, Simple, Paused, Places, Holding, Watchdog,
       Staged, SameJob, SameMark
  <2>6. Places' /\ Paused'
    BY <1>13, <2>1, <2>2, <2>3, <2>4, <1>0 DEF Simple, Places, Paused, Handing, Confirms, Holding,
       ParentGone, Numbered, Watchdog, Staged, SameJob, SameMark
  <2>7. WayBack' /\ OnlyOpenedIsKept'
    BY <1>13, <2>1, <2>2, <2>3, <2>4, <1>0 DEF Simple, Places, Confirms, WayBack,
       OnlyOpenedIsKept, Watchdog, Staged, SameJob, SameMark
  <2>8. Continues
    BY <1>13, <2>1, <2>2, <2>3, <2>4, <1>0 DEF Continues, SameJob, Places, Handing, Watchdog,
       Staged, SameJob, SameMark
  <2>9. NoneEnters
    BY <1>13, <2>1, <2>2, <2>3, <2>4, <1>0 DEF NoneEnters, Past, Places, Handing,
       InstallsAfterExit, ParentGone, Large, Watchdog, Staged, SameJob, SameMark
  <2>. QED  BY <2>5, <2>6, <2>7, <2>8, <2>9, TypeParts, StaysNumbered, StaysOutside
<1>14. CASE Close
  <2>1. counter' \in CT /\ counter'.pid = 0 /\ counter'.at = "closed"
    BY <1>14, Moves DEF Close, GoneFrom
  <2>2. Large' /\ Simple'
    BY <1>14, <2>1, <1>0 DEF Large, Simple, Paused, Places, Holding, Close, GoneFrom
  <2>3. Places' /\ Paused'
    BY <1>14, <2>1, <1>0 DEF Simple, Places, Paused, Handing, Confirms, Holding, ParentGone,
       Numbered, Close, GoneFrom
  <2>4. WayBack' /\ OnlyOpenedIsKept'
    BY <1>14, <2>1, <1>0 DEF Simple, Places, Confirms, WayBack, OnlyOpenedIsKept, Close, GoneFrom
  <2>5. Continues
    BY <1>14, <2>1, <1>0 DEF Continues, SameJob, Places, Handing, Close, GoneFrom
  <2>6. NoneEnters
    BY <1>14, <2>1, <1>0 DEF NoneEnters, Past, Places, Handing, InstallsAfterExit, ParentGone,
       Large, Close, GoneFrom
  <2>. QED  BY <2>2, <2>3, <2>4, <2>5, <2>6, TypeParts, StaysNumbered, StaysOutside
<1>15. CASE CounterDies
  <2>1. counter' \in CT /\ counter'.pid = 0 /\ counter'.at = "closed"
    BY <1>15, Moves DEF CounterDies, GoneFrom
  <2>2. faults' \in 0 .. MaxFaults
    BY <1>15, <1>0 DEF Simple, Fault, CounterDies
  <2>3. Large' /\ Simple'
    BY <1>15, <2>1, <2>2, <1>0 DEF Large, Simple, Paused, Places, Holding, CounterDies, GoneFrom,
       Fault
  <2>4. Places' /\ Paused'
    BY <1>15, <2>1, <2>2, <1>0 DEF Simple, Places, Paused, Handing, Confirms, Holding, ParentGone,
       Numbered, CounterDies, GoneFrom, Fault
  <2>5. WayBack' /\ OnlyOpenedIsKept'
    BY <1>15, <2>1, <2>2, <1>0 DEF Simple, Places, Confirms, WayBack, OnlyOpenedIsKept,
       CounterDies, GoneFrom, Fault
  <2>6. Continues
    BY <1>15, <2>1, <2>2, <1>0 DEF Continues, SameJob, Places, Handing, CounterDies, GoneFrom, Fault
  <2>7. NoneEnters
    BY <1>15, <2>1, <2>2, <1>0 DEF NoneEnters, Past, Places, Handing, InstallsAfterExit,
       ParentGone, Large, CounterDies, GoneFrom, Fault
  <2>. QED  BY <2>3, <2>4, <2>5, <2>6, <2>7, TypeParts, StaysNumbered, StaysOutside
<1>16. CASE Spawn
  <2>1. CASE worker' = [worker EXCEPT ![pending].at = "started"] /\ counter' = [counter EXCEPT !.at = "spawned"] /\ UNCHANGED <<gate, lock, target, journal, failure>>
    <3>1. counter' = [counter EXCEPT !.at = "spawned"] /\ "spawned" \in Whereabouts
      BY <1>16, <2>1 DEF Spawn, Resume, Whereabouts
    <3>2. /\ counter' \in CT /\ counter'.at = "spawned"
          /\ counter'.pid = counter.pid /\ counter'.version = counter.version
      BY <3>1, Moves
    <3>3. worker' = [worker EXCEPT ![pending].at = "started"] /\ "started" \in WorkerSteps
      BY <1>16, <2>1 DEF Spawn, Gone, WorkerSteps
    <3>4. /\ worker' \in WT
          /\ \A b \in Attempts : worker'[b].at = (IF b = pending THEN "started" ELSE worker[b].at)
      BY <3>3, WorkerMoves
    <3>5. Large' /\ Simple'
      BY <1>16, <2>1, <3>1, <3>2, <3>3, <3>4, <1>0 DEF Large, Simple, Paused, Places, Holding,
         Spawn, Release, Staged, SameJob, SameMark
    <3>6. Places' /\ Paused'
      BY <1>16, <2>1, <3>1, <3>2, <3>3, <3>4, <1>0 DEF Simple, Places, Paused, Handing, Confirms,
         Holding, ParentGone, Numbered, Spawn, Release, Staged, SameJob, SameMark
    <3>7. WayBack' /\ OnlyOpenedIsKept'
      BY <1>16, <2>1, <3>1, <3>2, <3>3, <3>4, <1>0 DEF Simple, Places, Confirms, WayBack,
         OnlyOpenedIsKept, Spawn, Release, Staged, SameJob, SameMark
    <3>8. Continues
      BY <1>16, <2>1, <3>1, <3>2, <3>3, <3>4, <1>0 DEF Continues, SameJob, Places, Handing, Spawn,
         Release, Staged, SameJob, SameMark
    <3>9. NoneEnters
      BY <1>16, <2>1, <3>1, <3>2, <3>3, <3>4, <1>0 DEF NoneEnters, Past, Places, Handing,
         InstallsAfterExit, ParentGone, Large, Spawn, Release, Staged, SameJob, SameMark
    <3>. QED  BY <3>5, <3>6, <3>7, <3>8, <3>9, TypeParts, StaysNumbered, StaysOutside
  <2>2. CASE Release /\ journal' = Failed(journal, pending) /\ failure' = TRUE /\ UNCHANGED worker
    <3>1. counter' = [counter EXCEPT !.at = "work"] /\ "work" \in Whereabouts
      BY <1>16, <2>2 DEF Spawn, Release, Resume, Whereabouts
    <3>2. /\ counter' \in CT /\ counter'.at = "work"
          /\ counter'.pid = counter.pid /\ counter'.version = counter.version
      BY <3>1, Moves
    <3>3. journal' = Failed(journal, pending)
      BY <1>16, <2>2 DEF Spawn
    <3>4. Staged(journal, journal', pending, "failed") /\ SameMark(journal, journal')
      BY <1>0, <3>3, Fails
    <3>5. Large' /\ Simple'
      BY <1>16, <2>2, <3>1, <3>2, <3>3, <3>4, <1>0 DEF Large, Simple, Paused, Places, Holding,
         Spawn, Release, Staged, SameJob, SameMark
    <3>6. Places' /\ Paused'
      BY <1>16, <2>2, <3>1, <3>2, <3>3, <3>4, <1>0 DEF Simple, Places, Paused, Handing, Confirms,
         Holding, ParentGone, Numbered, Spawn, Release, Staged, SameJob, SameMark
    <3>7. WayBack' /\ OnlyOpenedIsKept'
      BY <1>16, <2>2, <3>1, <3>2, <3>3, <3>4, <1>0 DEF Simple, Places, Confirms, WayBack,
         OnlyOpenedIsKept, Spawn, Release, Staged, SameJob, SameMark
    <3>8. Continues
      BY <1>16, <2>2, <3>1, <3>2, <3>3, <3>4, <1>0 DEF Continues, SameJob, Places, Handing, Spawn,
         Release, Staged, SameJob, SameMark
    <3>9. NoneEnters
      BY <1>16, <2>2, <3>1, <3>2, <3>3, <3>4, <1>0 DEF NoneEnters, Past, Places, Handing,
         InstallsAfterExit, ParentGone, Large, Spawn, Release, Staged, SameJob, SameMark
    <3>. QED  BY <3>5, <3>6, <3>7, <3>8, <3>9, TypeParts, StaysNumbered, StaysOutside
  <2>. QED  BY <1>16, <2>1, <2>2 DEF Spawn
<1>17. ASSUME NEW a \in Attempts, WReady(a) PROVE Inv'
  <2>1. CASE pending = a
    <3>1. journal' = [journal EXCEPT ![a].stage = "ready"] /\ "ready" \in Stages
      BY <1>17, <2>1 DEF WReady, Stages
    <3>2. Staged(journal, journal', a, "ready") /\ SameMark(journal, journal')
      BY <1>0, <3>1, Writes
    <3>3. worker' = [worker EXCEPT ![a].at = "waiting"] /\ "waiting" \in WorkerSteps
      BY <1>17, <2>1 DEF WReady, Gone, WorkerSteps
    <3>4. /\ worker' \in WT
          /\ \A b \in Attempts : worker'[b].at = (IF b = a THEN "waiting" ELSE worker[b].at)
      BY <3>3, WorkerMoves
    <3>5. Large' /\ Simple'
      BY <1>17, <2>1, <3>1, <3>2, <3>3, <3>4, <1>0 DEF Large, Simple, Paused, Places, Holding,
         WReady, Staged, SameJob, SameMark
    <3>6. Places' /\ Paused'
      BY <1>17, <2>1, <3>1, <3>2, <3>3, <3>4, <1>0 DEF Simple, Places, Paused, Handing, Confirms,
         Holding, ParentGone, Numbered, WReady, Staged, SameJob, SameMark
    <3>7. WayBack' /\ OnlyOpenedIsKept'
      BY <1>17, <2>1, <3>1, <3>2, <3>3, <3>4, <1>0 DEF Simple, Places, Confirms, WayBack,
         OnlyOpenedIsKept, WReady, Staged, SameJob, SameMark
    <3>8. Continues
      BY <1>17, <2>1, <3>1, <3>2, <3>3, <3>4, <1>0 DEF Continues, SameJob, Places, Handing,
         WReady, Staged, SameJob, SameMark
    <3>9. NoneEnters
      BY <1>17, <2>1, <3>1, <3>2, <3>3, <3>4, <1>0 DEF NoneEnters, Past, Places, Handing,
         InstallsAfterExit, ParentGone, Large, WReady, Staged, SameJob, SameMark
    <3>. QED  BY <3>5, <3>6, <3>7, <3>8, <3>9, TypeParts, StaysNumbered, StaysOutside
  <2>2. CASE pending # a
    <3>1. journal' = Failed(journal, a)
      BY <1>17, <2>2 DEF WReady
    <3>2. Staged(journal, journal', a, "failed") /\ SameMark(journal, journal')
      BY <1>0, <3>1, Fails
    <3>3. worker' = [worker EXCEPT ![a].at = "gone"] /\ "gone" \in WorkerSteps
      BY <1>17, <2>2 DEF WReady, Gone, WorkerSteps
    <3>4. /\ worker' \in WT
          /\ \A b \in Attempts : worker'[b].at = (IF b = a THEN "gone" ELSE worker[b].at)
      BY <3>3, WorkerMoves
    <3>5. Large' /\ Simple'
      BY <1>17, <2>2, <3>1, <3>2, <3>3, <3>4, <1>0 DEF Large, Simple, Paused, Places, Holding,
         WReady, Staged, SameJob, SameMark
    <3>6. Places' /\ Paused'
      BY <1>17, <2>2, <3>1, <3>2, <3>3, <3>4, <1>0 DEF Simple, Places, Paused, Handing, Confirms,
         Holding, ParentGone, Numbered, WReady, Staged, SameJob, SameMark
    <3>7. WayBack' /\ OnlyOpenedIsKept'
      BY <1>17, <2>2, <3>1, <3>2, <3>3, <3>4, <1>0 DEF Simple, Places, Confirms, WayBack,
         OnlyOpenedIsKept, WReady, Staged, SameJob, SameMark
    <3>8. Continues
      BY <1>17, <2>2, <3>1, <3>2, <3>3, <3>4, <1>0 DEF Continues, SameJob, Places, Handing,
         WReady, Staged, SameJob, SameMark
    <3>9. NoneEnters
      BY <1>17, <2>2, <3>1, <3>2, <3>3, <3>4, <1>0 DEF NoneEnters, Past, Places, Handing,
         InstallsAfterExit, ParentGone, Large, WReady, Staged, SameJob, SameMark
    <3>. QED  BY <3>5, <3>6, <3>7, <3>8, <3>9, TypeParts, StaysNumbered, StaysOutside
  <2>. QED  BY <1>17, <2>1, <2>2
<1>18. ASSUME NEW a \in Attempts, WParentGone(a) PROVE Inv'
  <2>1. CASE Authorized(a)
    <3>1. journal' = [journal EXCEPT ![a].stage = "installing"] /\ "installing" \in Stages
      BY <1>18, <2>1 DEF WParentGone, Stages
    <3>2. Staged(journal, journal', a, "installing") /\ SameMark(journal, journal')
      BY <1>0, <3>1, Writes
    <3>3. worker' = [worker EXCEPT ![a].at = "verifying"] /\ "verifying" \in WorkerSteps
      BY <1>18, <2>1 DEF WParentGone, Gone, WorkerSteps
    <3>4. /\ worker' \in WT
          /\ \A b \in Attempts : worker'[b].at = (IF b = a THEN "verifying" ELSE worker[b].at)
      BY <3>3, WorkerMoves
    <3>5. Large' /\ Simple'
      BY <1>18, <2>1, <3>1, <3>2, <3>3, <3>4, <1>0 DEF Large, Simple, Paused, Places, Holding,
         WParentGone, Authorized, Told, Staged, SameJob, SameMark
    <3>6. Places' /\ Paused'
      BY <1>18, <2>1, <3>1, <3>2, <3>3, <3>4, <1>0 DEF Simple, Places, Paused, Handing, Confirms,
         Holding, ParentGone, Numbered, WParentGone, Authorized, Told, Staged, SameJob, SameMark
    <3>7. WayBack' /\ OnlyOpenedIsKept'
      BY <1>18, <2>1, <3>1, <3>2, <3>3, <3>4, <1>0 DEF Simple, Places, Confirms, WayBack,
         OnlyOpenedIsKept, WParentGone, Authorized, Told, Staged, SameJob, SameMark
    <3>8. Continues
      BY <1>18, <2>1, <3>1, <3>2, <3>3, <3>4, <1>0 DEF Continues, SameJob, Places, Handing,
         WParentGone, Authorized, Told, Staged, SameJob, SameMark
    <3>9. InstallsAfterExit'
      BY <1>18, <2>1, <3>1, <3>2, <3>3, <3>4, <1>0 DEF Numbered, InstallsAfterExit, ParentGone,
         WParentGone, Authorized, Told, Staged, SameJob, SameMark
    <3>. QED  BY <3>5, <3>6, <3>7, <3>8, <3>9, TypeParts, StaysNumbered
  <2>2. CASE ~Authorized(a)
    <3>1. journal' = Failed(journal, a)
      BY <1>18, <2>2 DEF WParentGone
    <3>2. Staged(journal, journal', a, "failed") /\ SameMark(journal, journal')
      BY <1>0, <3>1, Fails
    <3>3. worker' = [worker EXCEPT ![a].at = "gone"] /\ "gone" \in WorkerSteps
      BY <1>18, <2>2 DEF WParentGone, Gone, WorkerSteps
    <3>4. /\ worker' \in WT
          /\ \A b \in Attempts : worker'[b].at = (IF b = a THEN "gone" ELSE worker[b].at)
      BY <3>3, WorkerMoves
    <3>5. Large' /\ Simple'
      BY <1>18, <2>2, <3>1, <3>2, <3>3, <3>4, <1>0 DEF Large, Simple, Paused, Places, Holding,
         WParentGone, Authorized, Told, Staged, SameJob, SameMark
    <3>6. Places' /\ Paused'
      BY <1>18, <2>2, <3>1, <3>2, <3>3, <3>4, <1>0 DEF Simple, Places, Paused, Handing, Confirms,
         Holding, ParentGone, Numbered, WParentGone, Authorized, Told, Staged, SameJob, SameMark
    <3>7. WayBack' /\ OnlyOpenedIsKept'
      BY <1>18, <2>2, <3>1, <3>2, <3>3, <3>4, <1>0 DEF Simple, Places, Confirms, WayBack,
         OnlyOpenedIsKept, WParentGone, Authorized, Told, Staged, SameJob, SameMark
    <3>8. Continues
      BY <1>18, <2>2, <3>1, <3>2, <3>3, <3>4, <1>0 DEF Continues, SameJob, Places, Handing,
         WParentGone, Authorized, Told, Staged, SameJob, SameMark
    <3>9. InstallsAfterExit'
      BY <1>18, <2>2, <3>1, <3>2, <3>3, <3>4, <1>0 DEF Numbered, InstallsAfterExit, ParentGone,
         WParentGone, Authorized, Told, Staged, SameJob, SameMark
    <3>. QED  BY <3>5, <3>6, <3>7, <3>8, <3>9, TypeParts, StaysNumbered
  <2>. QED  BY <1>18, <2>1, <2>2
<1>19. ASSUME NEW a \in Attempts, WTimeout(a) PROVE Inv'
  <2>1. journal' = Failed(journal, a)
    BY <1>19 DEF WTimeout
  <2>2. Staged(journal, journal', a, "failed") /\ SameMark(journal, journal')
    BY <1>0, <2>1, Fails
  <2>3. worker' = [worker EXCEPT ![a].at = "gone"] /\ "gone" \in WorkerSteps
    BY <1>19 DEF WTimeout, Gone, WorkerSteps
  <2>4. /\ worker' \in WT
        /\ \A b \in Attempts : worker'[b].at = (IF b = a THEN "gone" ELSE worker[b].at)
    BY <2>3, WorkerMoves
  <2>5. Large' /\ Simple'
    BY <1>19, <2>1, <2>2, <2>3, <2>4, <1>0 DEF Large, Simple, Paused, Places, Holding, WTimeout,
       Told, Staged, SameJob, SameMark
  <2>6. Places' /\ Paused'
    BY <1>19, <2>1, <2>2, <2>3, <2>4, <1>0 DEF Simple, Places, Paused, Handing, Confirms, Holding,
       ParentGone, Numbered, WTimeout, Told, Staged, SameJob, SameMark
  <2>7. WayBack' /\ OnlyOpenedIsKept'
    BY <1>19, <2>1, <2>2, <2>3, <2>4, <1>0 DEF Simple, Places, Confirms, WayBack,
       OnlyOpenedIsKept, WTimeout, Told, Staged, SameJob, SameMark
  <2>8. Continues
    BY <1>19, <2>1, <2>2, <2>3, <2>4, <1>0 DEF Continues, SameJob, Places, Handing, WTimeout,
       Told, Staged, SameJob, SameMark
  <2>9. NoneEnters
    BY <1>19, <2>1, <2>2, <2>3, <2>4, <1>0 DEF NoneEnters, Past, Places, Handing,
       InstallsAfterExit, ParentGone, Large, WTimeout, Told, Staged, SameJob, SameMark
  <2>. QED  BY <2>5, <2>6, <2>7, <2>8, <2>9, TypeParts, StaysNumbered, StaysOutside
<1>20. ASSUME NEW a \in Attempts, WVerify(a) PROVE Inv'
  <2>1. CASE Authorized(a) /\ worker' = [worker EXCEPT ![a].at = "running"] /\ UNCHANGED <<counter, journal, failure, pids>>
    <3>1. worker' = [worker EXCEPT ![a].at = "running"] /\ "running" \in WorkerSteps
      BY <1>20, <2>1 DEF WVerify, Gone, WorkerSteps
    <3>2. /\ worker' \in WT
          /\ \A b \in Attempts : worker'[b].at = (IF b = a THEN "running" ELSE worker[b].at)
      BY <3>1, WorkerMoves
    <3>3. Large' /\ Simple'
      BY <1>20, <2>1, <3>1, <3>2, <1>0 DEF Large, Simple, Paused, Places, Holding, WVerify, Told,
         Authorized, Staged, SameJob, SameMark
    <3>4. Places' /\ Paused'
      BY <1>20, <2>1, <3>1, <3>2, <1>0 DEF Simple, Places, Paused, Handing, Confirms, Holding,
         ParentGone, Numbered, WVerify, Told, Authorized, Staged, SameJob, SameMark
    <3>5. WayBack' /\ OnlyOpenedIsKept'
      BY <1>20, <2>1, <3>1, <3>2, <1>0 DEF Simple, Places, Confirms, WayBack, OnlyOpenedIsKept,
         WVerify, Told, Authorized, Staged, SameJob, SameMark
    <3>6. Continues
      BY <1>20, <2>1, <3>1, <3>2, <1>0 DEF Continues, SameJob, Places, Handing, WVerify, Told,
         Authorized, Staged, SameJob, SameMark
    <3>7. NoneEnters
      BY <1>20, <2>1, <3>1, <3>2, <1>0 DEF NoneEnters, Past, Places, Handing, InstallsAfterExit,
         ParentGone, Large, WVerify, Told, Authorized, Staged, SameJob, SameMark
    <3>. QED  BY <3>3, <3>4, <3>5, <3>6, <3>7, TypeParts, StaysNumbered, StaysOutside
  <2>2. CASE journal' = Failed(journal, a) /\ failure' = Told(a) /\ worker' = Gone(a) /\ Launched
    <3>1. journal' = Failed(journal, a)
      BY <1>20, <2>2 DEF WVerify
    <3>2. Staged(journal, journal', a, "failed") /\ SameMark(journal, journal')
      BY <1>0, <3>1, Fails
    <3>3. worker' = [worker EXCEPT ![a].at = "gone"] /\ "gone" \in WorkerSteps
      BY <1>20, <2>2 DEF WVerify, Gone, WorkerSteps
    <3>4. /\ worker' \in WT
          /\ \A b \in Attempts : worker'[b].at = (IF b = a THEN "gone" ELSE worker[b].at)
      BY <3>3, WorkerMoves
    <3>5. counter' \in CT /\ pids' \in {pids, pids + 1} /\ counter'.pid \in {counter.pid, pids'}
          /\ counter'.at \in {counter.at, "opening"} /\ ((counter' = counter) \/ (counter'.at = "opening" /\ counter'.pid = pids + 1 /\ counter.pid = 0))
      BY <1>20, <2>2, <1>0, Opens DEF Launched, IsOpen, Simple, WVerify
    <3>6. Large' /\ Simple'
      BY <1>20, <2>2, <3>1, <3>2, <3>3, <3>4, <3>5, <1>0 DEF Large, Simple, Paused, Places,
         Holding, WVerify, Told, Authorized, Staged, SameJob, SameMark
    <3>7. Places' /\ Paused'
      BY <1>20, <2>2, <3>1, <3>2, <3>3, <3>4, <3>5, <1>0 DEF Simple, Places, Paused, Handing,
         Confirms, Holding, ParentGone, Numbered, WVerify, Told, Authorized, Staged, SameJob,
         SameMark
    <3>8. WayBack' /\ OnlyOpenedIsKept'
      BY <1>20, <2>2, <3>1, <3>2, <3>3, <3>4, <3>5, <1>0 DEF Simple, Places, Confirms, WayBack,
         OnlyOpenedIsKept, WVerify, Told, Authorized, Staged, SameJob, SameMark
    <3>9. Continues
      BY <1>20, <2>2, <3>1, <3>2, <3>3, <3>4, <3>5, <1>0 DEF Continues, SameJob, Places, Handing,
         WVerify, Told, Authorized, Staged, SameJob, SameMark
    <3>10. NoneEnters
      BY <1>20, <2>2, <3>1, <3>2, <3>3, <3>4, <3>5, <1>0 DEF NoneEnters, Past, Places, Handing,
         InstallsAfterExit, ParentGone, Large, WVerify, Told, Authorized, Staged, SameJob,
         SameMark
    <3>. QED  BY <3>6, <3>7, <3>8, <3>9, <3>10, TypeParts, StaysNumbered, StaysOutside
  <2>. QED  BY <1>20, <2>1, <2>2 DEF WVerify
<1>21. ASSUME NEW a \in Attempts, InstallerEnds(a) PROVE Inv'
  <2>1. counter' \in CT /\ counter'.pid = 0 /\ counter'.at = "closed"
    BY <1>21, Moves DEF InstallerEnds, GoneFrom
  <2>2. worker' = [worker EXCEPT ![a].at = "installed"] /\ "installed" \in WorkerSteps
    BY <1>21 DEF InstallerEnds, Gone, WorkerSteps
  <2>3. /\ worker' \in WT
        /\ \A b \in Attempts : worker'[b].at = (IF b = a THEN "installed" ELSE worker[b].at)
    BY <2>2, WorkerMoves
  <2>4. program' \in Versions
    BY <1>21, <1>0 DEF InstallerEnds, Job, Simple
  <2>5. Large' /\ Simple'
    BY <1>21, <2>1, <2>2, <2>3, <2>4, <1>0 DEF Large, Simple, Paused, Places, Holding,
       InstallerEnds, GoneFrom
  <2>6. Places' /\ Paused'
    BY <1>21, <2>1, <2>2, <2>3, <2>4, <1>0 DEF Simple, Places, Paused, Handing, Confirms, Holding,
       ParentGone, Numbered, InstallerEnds, GoneFrom
  <2>7. WayBack' /\ OnlyOpenedIsKept'
    BY <1>21, <2>1, <2>2, <2>3, <2>4, <1>0 DEF Simple, Places, Confirms, WayBack,
       OnlyOpenedIsKept, InstallerEnds, GoneFrom
  <2>8. Continues
    BY <1>21, <2>1, <2>2, <2>3, <2>4, <1>0 DEF Continues, SameJob, Places, Handing, InstallerEnds,
       GoneFrom
  <2>9. NoneEnters
    BY <1>21, <2>1, <2>2, <2>3, <2>4, <1>0 DEF NoneEnters, Past, Places, Handing,
       InstallsAfterExit, ParentGone, Large, InstallerEnds, GoneFrom
  <2>. QED  BY <2>5, <2>6, <2>7, <2>8, <2>9, TypeParts, StaysNumbered, StaysOutside
<1>22. ASSUME NEW a \in Attempts, InstallerFails(a) PROVE Inv'
  <2>1. counter' \in CT /\ counter'.at = "opening" /\ counter'.pid = pids + 1 /\ counter'.version = program
    BY <1>22, Opens DEF InstallerFails
  <2>2. journal' = Failed(journal, a)
    BY <1>22 DEF InstallerFails
  <2>3. Staged(journal, journal', a, "failed") /\ SameMark(journal, journal')
    BY <1>0, <2>2, Fails
  <2>4. worker' = [worker EXCEPT ![a].at = "gone"] /\ "gone" \in WorkerSteps
    BY <1>22 DEF InstallerFails, Gone, WorkerSteps
  <2>5. /\ worker' \in WT
        /\ \A b \in Attempts : worker'[b].at = (IF b = a THEN "gone" ELSE worker[b].at)
    BY <2>4, WorkerMoves
  <2>6. failure' \in BOOLEAN /\ pids' \in Nat /\ counter'.pid # None
    BY <1>22, <1>0, <2>1 DEF InstallerFails, Told, Simple
  <2>7. command' \in [Commands -> {"idle", "waiting", "working"}]
    BY <1>22 DEF InstallerFails
  <2>8. Large' /\ Simple'
    BY <1>22, <2>1, <2>2, <2>3, <2>4, <2>5, <2>6, <2>7, <1>0 DEF Large, Simple, Paused, Places,
       Holding, InstallerFails, Told, Staged, SameJob, SameMark
  <2>9. Places' /\ Paused'
    BY <1>22, <2>1, <2>2, <2>3, <2>4, <2>5, <2>6, <2>7, <1>0 DEF Simple, Places, Paused, Handing,
       Confirms, Holding, ParentGone, Numbered, InstallerFails, Told, Staged, SameJob, SameMark
  <2>10. WayBack' /\ OnlyOpenedIsKept'
    BY <1>22, <2>1, <2>2, <2>3, <2>4, <2>5, <2>6, <2>7, <1>0 DEF Simple, Places, Confirms,
       WayBack, OnlyOpenedIsKept, InstallerFails, Told, Staged, SameJob, SameMark
  <2>11. Continues
    BY <1>22, <2>1, <2>2, <2>3, <2>4, <2>5, <2>6, <2>7, <1>0 DEF Continues, SameJob, Places,
       Handing, InstallerFails, Told, Staged, SameJob, SameMark
  <2>12. NoneEnters
    BY <1>22, <2>1, <2>2, <2>3, <2>4, <2>5, <2>6, <2>7, <1>0 DEF NoneEnters, Past, Places,
       Handing, InstallsAfterExit, ParentGone, Large, InstallerFails, Told, Staged, SameJob,
       SameMark
  <2>. QED  BY <2>8, <2>9, <2>10, <2>11, <2>12, TypeParts, StaysNumbered, StaysOutside
<1>23. ASSUME NEW a \in Attempts, WLook(a) PROVE Inv'
  <2>1. CASE worker' = [worker EXCEPT ![a].at = "gone"]
    <3>1. worker' \in WT /\ \A b \in Attempts : worker'[b].at = (IF b = a THEN "gone" ELSE worker[b].at)
      BY <2>1, WorkerMoves DEF WorkerSteps
    <3>2. Large' /\ Simple'
      BY <1>23, <2>1, <3>1, <1>0 DEF Large, Simple, Paused, Places, Holding, WLook
    <3>3. Places' /\ Paused'
      BY <1>23, <2>1, <3>1, <1>0 DEF Simple, Places, Paused, Handing, Confirms, Holding,
         ParentGone, Numbered, WLook
    <3>4. WayBack' /\ OnlyOpenedIsKept'
      BY <1>23, <2>1, <3>1, <1>0 DEF Simple, Places, Confirms, WayBack, OnlyOpenedIsKept, WLook
    <3>5. Continues
      BY <1>23, <2>1, <3>1, <1>0 DEF Continues, SameJob, Places, Handing, WLook
    <3>6. NoneEnters
      BY <1>23, <2>1, <3>1, <1>0 DEF NoneEnters, Past, Places, Handing, InstallsAfterExit,
         ParentGone, Large, WLook
    <3>. QED  BY <3>2, <3>3, <3>4, <3>5, <3>6, TypeParts, StaysNumbered, StaysOutside
  <2>2. CASE worker' = [worker EXCEPT ![a].at = "judging"]
    <3>1. worker' \in WT /\ \A b \in Attempts : worker'[b].at = (IF b = a THEN "judging" ELSE worker[b].at)
      BY <2>2, WorkerMoves DEF WorkerSteps
    <3>2. Large' /\ Simple'
      BY <1>23, <2>2, <3>1, <1>0 DEF Large, Simple, Paused, Places, Holding, WLook
    <3>3. Places' /\ Paused'
      BY <1>23, <2>2, <3>1, <1>0 DEF Simple, Places, Paused, Handing, Confirms, Holding,
         ParentGone, Numbered, WLook
    <3>4. WayBack' /\ OnlyOpenedIsKept'
      BY <1>23, <2>2, <3>1, <1>0 DEF Simple, Places, Confirms, WayBack, OnlyOpenedIsKept, WLook
    <3>5. Continues
      BY <1>23, <2>2, <3>1, <1>0 DEF Continues, SameJob, Places, Handing, WLook
    <3>6. NoneEnters
      BY <1>23, <2>2, <3>1, <1>0 DEF NoneEnters, Past, Places, Handing, InstallsAfterExit,
         ParentGone, Large, WLook
    <3>. QED  BY <3>2, <3>3, <3>4, <3>5, <3>6, TypeParts, StaysNumbered, StaysOutside
  <2>. QED  BY <1>23, <2>1, <2>2 DEF WLook, Gone
<1>24. ASSUME NEW a \in Attempts, WJudge(a) PROVE Inv'
  <2>1. CASE worker' = [worker EXCEPT ![a].at = "gone"]
    <3>1. worker' \in WT /\ \A b \in Attempts : worker'[b].at = (IF b = a THEN "gone" ELSE worker[b].at)
      BY <2>1, WorkerMoves DEF WorkerSteps
    <3>2. Large' /\ Simple'
      BY <1>24, <2>1, <3>1, <1>0 DEF Large, Simple, Paused, Places, Holding, WJudge
    <3>3. Places' /\ Paused'
      BY <1>24, <2>1, <3>1, <1>0 DEF Simple, Places, Paused, Handing, Confirms, Holding,
         ParentGone, Numbered, WJudge
    <3>4. WayBack' /\ OnlyOpenedIsKept'
      BY <1>24, <2>1, <3>1, <1>0 DEF Simple, Places, Confirms, WayBack, OnlyOpenedIsKept, WJudge
    <3>5. Continues
      BY <1>24, <2>1, <3>1, <1>0 DEF Continues, SameJob, Places, Handing, WJudge
    <3>6. NoneEnters
      BY <1>24, <2>1, <3>1, <1>0 DEF NoneEnters, Past, Places, Handing, InstallsAfterExit,
         ParentGone, Large, WJudge
    <3>. QED  BY <3>2, <3>3, <3>4, <3>5, <3>6, TypeParts, StaysNumbered, StaysOutside
  <2>2. CASE worker' = [worker EXCEPT ![a].at = "watching"]
    <3>1. worker' \in WT /\ \A b \in Attempts : worker'[b].at = (IF b = a THEN "watching" ELSE worker[b].at)
      BY <2>2, WorkerMoves DEF WorkerSteps
    <3>2. Large' /\ Simple'
      BY <1>24, <2>2, <3>1, <1>0 DEF Large, Simple, Paused, Places, Holding, WJudge
    <3>3. Places' /\ Paused'
      BY <1>24, <2>2, <3>1, <1>0 DEF Simple, Places, Paused, Handing, Confirms, Holding,
         ParentGone, Numbered, WJudge
    <3>4. WayBack' /\ OnlyOpenedIsKept'
      BY <1>24, <2>2, <3>1, <1>0 DEF Simple, Places, Confirms, WayBack, OnlyOpenedIsKept, WJudge
    <3>5. Continues
      BY <1>24, <2>2, <3>1, <1>0 DEF Continues, SameJob, Places, Handing, WJudge
    <3>6. NoneEnters
      BY <1>24, <2>2, <3>1, <1>0 DEF NoneEnters, Past, Places, Handing, InstallsAfterExit,
         ParentGone, Large, WJudge
    <3>. QED  BY <3>2, <3>3, <3>4, <3>5, <3>6, TypeParts, StaysNumbered, StaysOutside
  <2>. QED  BY <1>24, <2>1, <2>2 DEF WJudge, Gone
<1>25. CASE Open
  <2>1. counter' \in CT /\ counter'.at = "opening" /\ counter'.pid = pids + 1 /\ counter'.version = program
    BY <1>25, Opens DEF Open
  <2>2. Large' /\ Simple'
    BY <1>25, <2>1, <1>0 DEF Large, Simple, Paused, Places, Holding, Open
  <2>3. Places' /\ Paused'
    BY <1>25, <2>1, <1>0 DEF Simple, Places, Paused, Handing, Confirms, Holding, ParentGone,
       Numbered, Open
  <2>4. WayBack' /\ OnlyOpenedIsKept'
    BY <1>25, <2>1, <1>0 DEF Simple, Places, Confirms, WayBack, OnlyOpenedIsKept, Open
  <2>5. Continues
    BY <1>25, <2>1, <1>0 DEF Continues, SameJob, Places, Handing, Open
  <2>6. NoneEnters
    BY <1>25, <2>1, <1>0 DEF NoneEnters, Past, Places, Handing, InstallsAfterExit, ParentGone,
       Large, Open
  <2>. QED  BY <2>2, <2>3, <2>4, <2>5, <2>6, TypeParts, StaysNumbered, StaysOutside
<1>26. CASE KeepPrevious
  <2>1. counter' = [counter EXCEPT !.at = "kept"] /\ "kept" \in Whereabouts
    BY <1>26 DEF KeepPrevious, Resume, Whereabouts
  <2>2. /\ counter' \in CT /\ counter'.at = "kept"
        /\ counter'.pid = counter.pid /\ counter'.version = counter.version
    BY <2>1, Moves
  <2>3. pending \in Attempts
    BY <1>26, <1>0 DEF KeepPrevious, Places, Confirms, Simple
  <2>4. previous' \in opened \cup {None}
    BY <1>26, <1>0, <2>3 DEF KeepPrevious, WayBack, OnlyOpenedIsKept
  <2>5. previous' \in Versions \cup {None}
    BY <1>0, <2>4 DEF Simple
  <2>6. Large' /\ Simple'
    BY <1>26, <2>1, <2>2, <2>3, <2>4, <2>5, <1>0 DEF Large, Simple, Paused, Places, Holding,
       KeepPrevious
  <2>7. Places' /\ Paused'
    BY <1>26, <2>1, <2>2, <2>3, <2>4, <2>5, <1>0 DEF Simple, Places, Paused, Handing, Confirms,
       Holding, ParentGone, Numbered, KeepPrevious
  <2>8. WayBack' /\ OnlyOpenedIsKept'
    BY <1>26, <2>1, <2>2, <2>3, <2>4, <2>5, <1>0 DEF Simple, Places, Confirms, WayBack,
       OnlyOpenedIsKept, KeepPrevious
  <2>9. Continues
    BY <1>26, <2>1, <2>2, <2>3, <2>4, <2>5, <1>0 DEF Continues, SameJob, Places, Handing,
       KeepPrevious
  <2>10. NoneEnters
    BY <1>26, <2>1, <2>2, <2>3, <2>4, <2>5, <1>0 DEF NoneEnters, Past, Places, Handing,
       InstallsAfterExit, ParentGone, Large, KeepPrevious
  <2>. QED  BY <2>6, <2>7, <2>8, <2>9, <2>10, TypeParts, StaysNumbered, StaysOutside
<1>27. CASE SaveCurrent
  <2>1. counter' = [counter EXCEPT !.at = "confirming"] /\ "confirming" \in Whereabouts
    BY <1>27 DEF SaveCurrent, Resume, Whereabouts
  <2>2. /\ counter' \in CT /\ counter'.at = "confirming"
        /\ counter'.pid = counter.pid /\ counter'.version = counter.version
    BY <2>1, Moves
  <2>3. Large' /\ Simple'
    BY <1>27, <2>1, <2>2, <1>0 DEF Large, Simple, Paused, Places, Holding, SaveCurrent
  <2>4. Places' /\ Paused'
    BY <1>27, <2>1, <2>2, <1>0 DEF Simple, Places, Paused, Handing, Confirms, Holding, ParentGone,
       Numbered, SaveCurrent
  <2>5. WayBack' /\ OnlyOpenedIsKept'
    BY <1>27, <2>1, <2>2, <1>0 DEF Simple, Places, Confirms, WayBack, OnlyOpenedIsKept, SaveCurrent
  <2>6. Continues
    BY <1>27, <2>1, <2>2, <1>0 DEF Continues, SameJob, Places, Handing, SaveCurrent
  <2>7. NoneEnters
    BY <1>27, <2>1, <2>2, <1>0 DEF NoneEnters, Past, Places, Handing, InstallsAfterExit,
       ParentGone, Large, SaveCurrent
  <2>. QED  BY <2>3, <2>4, <2>5, <2>6, <2>7, TypeParts, StaysNumbered, StaysOutside
<1>28. CASE Confirm
  <2>1. counter' = [counter EXCEPT !.at = "work"] /\ "work" \in Whereabouts
    BY <1>28 DEF Confirm, Resume, Whereabouts
  <2>2. /\ counter' \in CT /\ counter'.at = "work"
        /\ counter'.pid = counter.pid /\ counter'.version = counter.version
    BY <2>1, Moves
  <2>3. journal' = [journal EXCEPT ![pending].stage = "succeeded"] /\ "succeeded" \in Stages
    BY <1>28 DEF Confirm, Stages
  <2>4. Staged(journal, journal', pending, "succeeded") /\ SameMark(journal, journal')
    BY <1>0, <2>3, Writes
  <2>5. Large' /\ Simple'
    BY <1>28, <2>1, <2>2, <2>3, <2>4, <1>0 DEF Large, Simple, Paused, Places, Holding, Confirm,
       Staged, SameJob, SameMark
  <2>6. Places' /\ Paused'
    BY <1>28, <2>1, <2>2, <2>3, <2>4, <1>0 DEF Simple, Places, Paused, Handing, Confirms, Holding,
       ParentGone, Numbered, Confirm, Staged, SameJob, SameMark
  <2>7. WayBack' /\ OnlyOpenedIsKept'
    BY <1>28, <2>1, <2>2, <2>3, <2>4, <1>0 DEF Simple, Places, Confirms, WayBack,
       OnlyOpenedIsKept, Confirm, Staged, SameJob, SameMark
  <2>8. Continues
    BY <1>28, <2>1, <2>2, <2>3, <2>4, <1>0 DEF Continues, SameJob, Places, Handing, Confirm,
       Staged, SameJob, SameMark
  <2>9. NoneEnters
    BY <1>28, <2>1, <2>2, <2>3, <2>4, <1>0 DEF NoneEnters, Past, Places, Handing,
       InstallsAfterExit, ParentGone, Large, Confirm, Staged, SameJob, SameMark
  <2>. QED  BY <2>5, <2>6, <2>7, <2>8, <2>9, TypeParts, StaysNumbered, StaysOutside
<1>29. ASSUME NEW a \in Attempts, WLaunch(a) PROVE Inv'
  <2>1. CASE worker' = Gone(a) /\ journal' = Failed(journal, a) /\ failure' = Told(a) /\ UNCHANGED <<counter, pids>>
    <3>1. journal' = Failed(journal, a)
      BY <1>29, <2>1 DEF WLaunch
    <3>2. Staged(journal, journal', a, "failed") /\ SameMark(journal, journal')
      BY <1>0, <3>1, Fails
    <3>3. worker' = [worker EXCEPT ![a].at = "gone"] /\ "gone" \in WorkerSteps
      BY <1>29, <2>1 DEF WLaunch, Gone, WorkerSteps
    <3>4. /\ worker' \in WT
          /\ \A b \in Attempts : worker'[b].at = (IF b = a THEN "gone" ELSE worker[b].at)
      BY <3>3, WorkerMoves
    <3>5. Large' /\ Simple'
      BY <1>29, <2>1, <3>1, <3>2, <3>3, <3>4, <1>0 DEF Large, Simple, Paused, Places, Holding,
         WLaunch, Told, Staged, SameJob, SameMark
    <3>6. Places' /\ Paused'
      BY <1>29, <2>1, <3>1, <3>2, <3>3, <3>4, <1>0 DEF Simple, Places, Paused, Handing, Confirms,
         Holding, ParentGone, Numbered, WLaunch, Told, Staged, SameJob, SameMark
    <3>7. WayBack' /\ OnlyOpenedIsKept'
      BY <1>29, <2>1, <3>1, <3>2, <3>3, <3>4, <1>0 DEF Simple, Places, Confirms, WayBack,
         OnlyOpenedIsKept, WLaunch, Told, Staged, SameJob, SameMark
    <3>8. Continues
      BY <1>29, <2>1, <3>1, <3>2, <3>3, <3>4, <1>0 DEF Continues, SameJob, Places, Handing,
         WLaunch, Told, Staged, SameJob, SameMark
    <3>9. NoneEnters
      BY <1>29, <2>1, <3>1, <3>2, <3>3, <3>4, <1>0 DEF NoneEnters, Past, Places, Handing,
         InstallsAfterExit, ParentGone, Large, WLaunch, Told, Staged, SameJob, SameMark
    <3>. QED  BY <3>5, <3>6, <3>7, <3>8, <3>9, TypeParts, StaysNumbered, StaysOutside
  <2>2. CASE Launched /\ worker' = Gone(a) /\ journal' = [journal EXCEPT ![a].stage = "legacy"] /\ UNCHANGED failure
    <3>1. journal' = [journal EXCEPT ![a].stage = "legacy"] /\ "legacy" \in Stages
      BY <1>29, <2>2 DEF WLaunch, Stages
    <3>2. Staged(journal, journal', a, "legacy") /\ SameMark(journal, journal')
      BY <1>0, <3>1, Writes
    <3>3. worker' = [worker EXCEPT ![a].at = "gone"] /\ "gone" \in WorkerSteps
      BY <1>29, <2>2 DEF WLaunch, Gone, WorkerSteps
    <3>4. /\ worker' \in WT
          /\ \A b \in Attempts : worker'[b].at = (IF b = a THEN "gone" ELSE worker[b].at)
      BY <3>3, WorkerMoves
    <3>5. counter' \in CT /\ pids' \in {pids, pids + 1} /\ counter'.pid \in {counter.pid, pids'}
          /\ counter'.at \in {counter.at, "opening"} /\ ((counter' = counter) \/ (counter'.at = "opening" /\ counter'.pid = pids + 1 /\ counter.pid = 0))
      BY <1>29, <2>2, <1>0, Opens DEF Launched, IsOpen, Simple, WLaunch
    <3>6. Large' /\ Simple'
      BY <1>29, <2>2, <3>1, <3>2, <3>3, <3>4, <3>5, <1>0 DEF Large, Simple, Paused, Places,
         Holding, WLaunch, Told, Staged, SameJob, SameMark
    <3>7. Places' /\ Paused'
      BY <1>29, <2>2, <3>1, <3>2, <3>3, <3>4, <3>5, <1>0 DEF Simple, Places, Paused, Handing,
         Confirms, Holding, ParentGone, Numbered, WLaunch, Told, Staged, SameJob, SameMark
    <3>8. WayBack' /\ OnlyOpenedIsKept'
      BY <1>29, <2>2, <3>1, <3>2, <3>3, <3>4, <3>5, <1>0 DEF Simple, Places, Confirms, WayBack,
         OnlyOpenedIsKept, WLaunch, Told, Staged, SameJob, SameMark
    <3>9. Continues
      BY <1>29, <2>2, <3>1, <3>2, <3>3, <3>4, <3>5, <1>0 DEF Continues, SameJob, Places, Handing,
         WLaunch, Told, Staged, SameJob, SameMark
    <3>10. NoneEnters
      BY <1>29, <2>2, <3>1, <3>2, <3>3, <3>4, <3>5, <1>0 DEF NoneEnters, Past, Places, Handing,
         InstallsAfterExit, ParentGone, Large, WLaunch, Told, Staged, SameJob, SameMark
    <3>. QED  BY <3>6, <3>7, <3>8, <3>9, <3>10, TypeParts, StaysNumbered, StaysOutside
  <2>3. CASE Launched /\ UNCHANGED <<journal, failure>>
         /\ worker' = [worker EXCEPT ![a] = [at |-> "watching", child |-> IF IsOpen THEN None ELSE counter'.pid]]
    <3>1. counter' \in CT /\ pids' \in {pids, pids + 1} /\ counter'.pid \in {counter.pid, pids'}
          /\ counter'.at \in {counter.at, "opening"} /\ ((counter' = counter) \/ (counter'.at = "opening" /\ counter'.pid = pids + 1 /\ counter.pid = 0))
      BY <1>29, <2>3, <1>0, Opens DEF Launched, IsOpen, Simple, WLaunch
    <3>2. (IF IsOpen THEN None ELSE counter'.pid) \in Nat
      BY <1>0, <3>1
    <3>3. [at |-> "watching", child |-> IF IsOpen THEN None ELSE counter'.pid] \in [at : WorkerSteps, child : Nat]
      BY <3>2 DEF WorkerSteps
    <3>4. worker' \in WT /\ \A b \in Attempts : worker'[b].at = (IF b = a THEN "watching" ELSE worker[b].at)
      BY <1>29, <2>3, <1>0, <3>3
    <3>5. Large' /\ Simple'
      BY <1>29, <2>3, <3>1, <3>2, <3>3, <3>4, <1>0 DEF Large, Simple, Paused, Places, Holding,
         WLaunch, Told, Staged, SameJob, SameMark
    <3>6. Places' /\ Paused'
      BY <1>29, <2>3, <3>1, <3>2, <3>3, <3>4, <1>0 DEF Simple, Places, Paused, Handing, Confirms,
         Holding, ParentGone, Numbered, WLaunch, Told, Staged, SameJob, SameMark
    <3>7. WayBack' /\ OnlyOpenedIsKept'
      BY <1>29, <2>3, <3>1, <3>2, <3>3, <3>4, <1>0 DEF Simple, Places, Confirms, WayBack,
         OnlyOpenedIsKept, WLaunch, Told, Staged, SameJob, SameMark
    <3>8. Continues
      BY <1>29, <2>3, <3>1, <3>2, <3>3, <3>4, <1>0 DEF Continues, SameJob, Places, Handing,
         WLaunch, Told, Staged, SameJob, SameMark
    <3>9. NoneEnters
      BY <1>29, <2>3, <3>1, <3>2, <3>3, <3>4, <1>0 DEF NoneEnters, Past, Places, Handing,
         InstallsAfterExit, ParentGone, Large, WLaunch, Told, Staged, SameJob, SameMark
    <3>. QED  BY <3>5, <3>6, <3>7, <3>8, <3>9, TypeParts, StaysNumbered, StaysOutside
  <2>. QED  BY <1>29, <2>1, <2>2, <2>3 DEF WLaunch
<1>30. CASE Healthy
  <2>1. CASE counter' = [counter EXCEPT !.at = "keeping"]
    <3>1. counter' = [counter EXCEPT !.at = "keeping"] /\ "keeping" \in Whereabouts
      BY <1>30, <2>1 DEF Whereabouts
    <3>2. /\ counter' \in CT /\ counter'.at = "keeping"
          /\ counter'.pid = counter.pid /\ counter'.version = counter.version
      BY <3>1, Moves
    <3>3. pending # None /\ counter.version = journal[pending].target
      BY <1>30, <2>1, <1>0, <3>2, Moves DEF Healthy, IsExpected, Whereabouts
    <3>4. journal' = Failed(journal, pending) \/ journal' = journal
      BY <1>30, <2>1 DEF Healthy
    <3>5. (Staged(journal, journal', pending, "failed") /\ SameMark(journal, journal')) \/ journal' = journal
      BY <1>0, <3>4, Fails
    <3>6. Large' /\ Simple'
      BY <1>30, <2>1, <3>1, <3>2, <3>3, <3>4, <3>5, <1>0 DEF Large, Simple, Paused, Places,
         Holding, Healthy, Staged, SameJob, SameMark
    <3>7. Places' /\ Paused'
      BY <1>30, <2>1, <3>1, <3>2, <3>3, <3>4, <3>5, <1>0 DEF Simple, Places, Paused, Handing,
         Confirms, Holding, ParentGone, Numbered, Healthy, Staged, SameJob, SameMark
    <3>8. WayBack' /\ OnlyOpenedIsKept'
      BY <1>30, <2>1, <3>1, <3>2, <3>3, <3>4, <3>5, <1>0 DEF Simple, Places, Confirms, WayBack,
         OnlyOpenedIsKept, Healthy, Staged, SameJob, SameMark
    <3>9. Continues
      BY <1>30, <2>1, <3>1, <3>2, <3>3, <3>4, <3>5, <1>0 DEF Continues, SameJob, Places, Handing,
         Healthy, Staged, SameJob, SameMark
    <3>10. NoneEnters
      BY <1>30, <2>1, <3>1, <3>2, <3>3, <3>4, <3>5, <1>0 DEF NoneEnters, Past, Places, Handing,
         InstallsAfterExit, ParentGone, Large, Healthy, Staged, SameJob, SameMark
    <3>. QED  BY <3>6, <3>7, <3>8, <3>9, <3>10, TypeParts, StaysNumbered, StaysOutside
  <2>2. CASE counter' = [counter EXCEPT !.at = "work"]
    <3>1. counter' = [counter EXCEPT !.at = "work"] /\ "work" \in Whereabouts
      BY <1>30, <2>2 DEF Whereabouts
    <3>2. /\ counter' \in CT /\ counter'.at = "work"
          /\ counter'.pid = counter.pid /\ counter'.version = counter.version
      BY <3>1, Moves
    <3>3. journal' = Failed(journal, pending) \/ journal' = journal
      BY <1>30, <2>2 DEF Healthy
    <3>4. (Staged(journal, journal', pending, "failed") /\ SameMark(journal, journal')) \/ journal' = journal
      BY <1>0, <3>3, Fails
    <3>5. Large' /\ Simple'
      BY <1>30, <2>2, <3>1, <3>2, <3>3, <3>4, <1>0 DEF Large, Simple, Paused, Places, Holding,
         Healthy, Staged, SameJob, SameMark
    <3>6. Places' /\ Paused'
      BY <1>30, <2>2, <3>1, <3>2, <3>3, <3>4, <1>0 DEF Simple, Places, Paused, Handing, Confirms,
         Holding, ParentGone, Numbered, Healthy, Staged, SameJob, SameMark
    <3>7. WayBack' /\ OnlyOpenedIsKept'
      BY <1>30, <2>2, <3>1, <3>2, <3>3, <3>4, <1>0 DEF Simple, Places, Confirms, WayBack,
         OnlyOpenedIsKept, Healthy, Staged, SameJob, SameMark
    <3>8. Continues
      BY <1>30, <2>2, <3>1, <3>2, <3>3, <3>4, <1>0 DEF Continues, SameJob, Places, Handing,
         Healthy, Staged, SameJob, SameMark
    <3>9. NoneEnters
      BY <1>30, <2>2, <3>1, <3>2, <3>3, <3>4, <1>0 DEF NoneEnters, Past, Places, Handing,
         InstallsAfterExit, ParentGone, Large, Healthy, Staged, SameJob, SameMark
    <3>. QED  BY <3>5, <3>6, <3>7, <3>8, <3>9, TypeParts, StaysNumbered, StaysOutside
  <2>. QED  BY <1>30, <2>1, <2>2 DEF Healthy
<1>31. CASE PowerGoes
  <2>1. counter' \in CT /\ counter'.pid = 0 /\ counter'.at = "closed"
    BY <1>31, Moves DEF PowerGoes, GoneFrom
  <2>2. faults' \in 0 .. MaxFaults
    BY <1>31, <1>0 DEF Simple, Fault, PowerGoes
  <2>3. program' \in Versions
    BY <1>31, <1>0 DEF PowerGoes, Job, Simple
  <2>4. worker' \in WT /\ \A b \in Attempts : worker'[b].at \in {"gone", "none"} /\ (worker[b].at = "none" => worker'[b].at = "none")
    BY <1>31, <1>0 DEF PowerGoes, Live, NoWorker, WorkerSteps, None
  <2>5. Large' /\ Simple'
    BY <1>31, <2>1, <2>2, <2>3, <2>4, <1>0 DEF Large, Simple, Paused, Places, Holding, PowerGoes,
       GoneFrom, Fault
  <2>6. Places' /\ Paused'
    BY <1>31, <2>1, <2>2, <2>3, <2>4, <1>0 DEF Simple, Places, Paused, Handing, Confirms, Holding,
       ParentGone, Numbered, PowerGoes, GoneFrom, Fault
  <2>7. WayBack' /\ OnlyOpenedIsKept'
    BY <1>31, <2>1, <2>2, <2>3, <2>4, <1>0 DEF Simple, Places, Confirms, WayBack,
       OnlyOpenedIsKept, PowerGoes, GoneFrom, Fault
  <2>8. Continues
    BY <1>31, <2>1, <2>2, <2>3, <2>4, <1>0 DEF Continues, SameJob, Places, Handing, PowerGoes,
       GoneFrom, Fault
  <2>9. NoneEnters
    BY <1>31, <2>1, <2>2, <2>3, <2>4, <1>0 DEF NoneEnters, Past, Places, Handing,
       InstallsAfterExit, ParentGone, Large, PowerGoes, GoneFrom, Fault
  <2>. QED  BY <2>5, <2>6, <2>7, <2>8, <2>9, TypeParts, StaysNumbered, StaysOutside
<1>32. CASE WriteJob
  <2>1. counter' = [counter EXCEPT !.at = "spawning"] /\ "spawning" \in Whereabouts
    BY <1>32 DEF WriteJob, Resume, Whereabouts
  <2>2. /\ counter' \in CT /\ counter'.at = "spawning"
        /\ counter'.pid = counter.pid /\ counter'.version = counter.version
    BY <2>1, Moves
  <2>3. /\ pending \in Nat /\ pending + 1 \in Attempts /\ pending' = pending + 1
        /\ target \in Versions /\ counter.pid \in 1 .. pids
    <3>1. pending \in Nat /\ pending < MaxAttempts /\ At("fetching")
      BY <1>32, <1>0 DEF WriteJob, Simple, Attempts
    <3>2. counter.pid \in Nat /\ counter.pid # 0 /\ counter.pid <= pids /\ pids \in Nat
      BY <1>0, <3>1 DEF Simple, Numbered, At
    <3>. QED  BY <1>32, <3>1, <3>2 DEF WriteJob, Attempts, Places
  <2>4. Settled = Failed(journal, pending) \/ Settled = journal
    BY DEF Settled
  <2>5. (Staged(journal, Settled, pending, "failed") /\ SameMark(journal, Settled)) \/ Settled = journal
    BY <1>0, <2>4, Fails
  <2>6. /\ Settled \in JT /\ SameJob(journal, Settled)
        /\ \A b \in Attempts : /\ Settled[b].stage \in {journal[b].stage, "failed"}
                               /\ journal[b].proceed => Settled[b].proceed
                               /\ Settled[b].cancelled => journal[b].cancelled
    BY <1>0, <2>5 DEF Staged, SameJob, SameMark
  <2>7. \E r \in Job : /\ r.parent = counter.pid /\ r.target = target /\ r.stage = "preparing"
                      /\ r.previous \in {None, current}
                      /\ journal' = [Settled EXCEPT ![pending + 1] = r]
    <3>. DEFINE r == [NoJob EXCEPT !.target = target, !.parent = counter.pid, !.stage = "preparing",
                       !.previous = IF current = counter.version /\ current # target THEN current ELSE None]
    <3>1. journal' = [Settled EXCEPT ![pending + 1] = r]
      BY <1>32 DEF WriteJob
    <3>2. /\ r \in Job /\ r.parent = counter.pid /\ r.target = target /\ r.stage = "preparing"
          /\ r.previous \in {None, current}
      BY <1>0, <2>3 DEF NoJob, Job, Simple, Stages
    <3>. QED  BY <3>1, <3>2
  <2>8. /\ journal' \in JT
        /\ \A b \in Attempts : b # pending + 1 => journal'[b] = Settled[b]
        /\ journal'[pending + 1].parent = counter.pid /\ journal'[pending + 1].target = target
        /\ journal'[pending + 1].stage = "preparing" /\ journal'[pending + 1].previous \in {None, current}
    BY <2>3, <2>6, <2>7
  <2>9. Large'
    BY <1>32, <2>1, <2>2, <2>3, <2>4, <2>5, <2>6, <2>7, <2>8, <1>0 DEF Large, WriteJob, SameJob
  <2>10. Simple'
    <3>1. UNCHANGED <<memory, current, previous, program, opened, pids, opens, faults>> /\ failure' = FALSE
      BY <1>32 DEF WriteJob
    <3>2. (counter'.pid = None) <=> At("closed")'
      BY <2>2, <2>3 DEF At
    <3>3. pending' \in Attempts \cup {None} /\ failure' \in BOOLEAN
      BY <2>3, <3>1
    <3>4. /\ gate' = gate /\ lock' = lock /\ dirty' = dirty /\ target' = target /\ command' = command
          /\ program' = program /\ current' = current /\ previous' = previous /\ opened' = opened
          /\ pids' = pids /\ opens' = opens /\ faults' = faults
      BY <3>1 DEF memory
    <3>. QED  BY <3>2, <3>3, <3>4, <1>0 DEF Simple
  <2>11. Places'
    BY <1>32, <2>1, <2>2, <2>3, <2>4, <2>5, <2>6, <2>7, <2>8, <1>0 DEF Simple, Places, Handing,
       Confirms, ParentGone, Numbered, WriteJob, SameJob
  <2>12. Paused'
    BY <1>32, <2>1, <2>2, <2>3, <2>4, <2>5, <2>6, <2>7, <2>8, <1>0 DEF Simple, Paused, Holding,
       WriteJob, SameJob
  <2>13. Numbered'
    <3>1. pids' = pids /\ worker' = worker /\ counter'.pid = counter.pid
      BY <1>32, <2>1, <2>2, <2>3, <2>4, <2>5, <2>6, <2>7, <2>8 DEF WriteJob, memory
    <3>2. ASSUME NEW b \in Attempts, b <= pending' PROVE journal'[b].parent \in 1 .. pids
      <4>1. CASE b = pending + 1
        BY <2>3, <2>8, <4>1
      <4>2. CASE b # pending + 1
        <5>1. b <= pending /\ journal'[b].parent = journal[b].parent
          BY <2>3, <2>6, <2>8, <3>2, <4>2 DEF SameJob, Attempts
        <5>. QED  BY <5>1 DEF Numbered
      <4>. QED  BY <4>1, <4>2
    <3>3. ASSUME NEW b \in Attempts, b > pending' PROVE worker[b].at = "none"
      BY <2>3, <3>3 DEF Numbered, Attempts
    <3>. QED  BY <3>1, <3>2, <3>3 DEF Numbered
  <2>14. WayBack'
    BY <1>32, <2>1, <2>2, <2>3, <2>4, <2>5, <2>6, <2>7, <2>8, <1>0 DEF WayBack, OnlyOpenedIsKept,
       WriteJob, SameJob
  <2>15. InstallsAfterExit'
    <3>1. worker' = worker /\ counter'.pid = counter.pid
      BY <1>32, <2>1, <2>2, <2>3, <2>4, <2>5, <2>6, <2>7, <2>8 DEF WriteJob
    <3>2. ASSUME NEW b \in Attempts, worker[b].at \in Past
          PROVE ParentGone(b)' /\ journal'[b].proceed /\ ~journal'[b].cancelled
      <4>1. b # pending + 1
        BY <2>3, <3>2 DEF Numbered, Past
      <4>2. ParentGone(b) /\ journal[b].proceed /\ ~journal[b].cancelled
        BY <3>2 DEF InstallsAfterExit, Past
      <4>3. journal'[b] = Settled[b] /\ journal'[b].parent = journal[b].parent
        BY <2>6, <2>8, <4>1 DEF SameJob
      <4>. QED  BY <2>6, <3>1, <4>2, <4>3 DEF ParentGone
    <3>. QED  BY <3>1, <3>2 DEF InstallsAfterExit, Past
  <2>16. OnlyOpenedIsKept'
    BY <1>32, <2>1, <2>2, <2>3, <2>4, <2>5, <2>6, <2>7, <2>8, <1>0 DEF Places, Confirms, WayBack,
       OnlyOpenedIsKept, WriteJob, SameJob
  <2>. QED  BY <2>9, <2>10, <2>11, <2>12, <2>13, <2>14, <2>15, <2>16, TypeParts DEF Inv
<1>34. CASE WatchdogFails
  <2>1. counter' = [counter EXCEPT !.at = "unwatched"] /\ "unwatched" \in Whereabouts
    BY <1>34 DEF WatchdogFails, Whereabouts
  <2>2. /\ counter' \in CT /\ counter'.at = "unwatched"
        /\ counter'.pid = counter.pid /\ counter'.version = counter.version
    BY <2>1, Moves
  <2>3. /\ journal' \in JT /\ SameJob(journal, journal')
        /\ \A b \in Attempts :
             /\ journal'[b].stage \in {journal[b].stage, "failed"}
             /\ journal[b].proceed => journal'[b].proceed
             /\ b # pending => (journal'[b].cancelled => journal[b].cancelled)
    <3>1. CASE journal' = journal
      BY <1>0, <3>1, Zenon DEF SameJob
    <3>2. CASE journal' = [journal EXCEPT ![pending].cancelled = TRUE]
      <4>1. Marked(journal, journal', pending)
        BY <1>0, <3>2, Marks
      <4>. QED  BY <4>1, Zenon DEF Marked
    <3>3. CASE journal' = [Failed(journal, pending) EXCEPT ![pending].cancelled = TRUE]
      <4>1. Staged(journal, journal', pending, "failed")
        BY <1>0, <3>3, Cancels
      <4>. QED  BY <4>1 DEF Staged
    <3>4. \/ journal' = journal
          \/ journal' = [journal EXCEPT ![pending].cancelled = TRUE]
          \/ journal' = [Failed(journal, pending) EXCEPT ![pending].cancelled = TRUE]
      BY <1>34, Zenon DEF WatchdogFails
    <3>. QED  BY <3>1, <3>2, <3>3, <3>4
  <2>4. faults' \in 0 .. MaxFaults /\ failure' \in BOOLEAN
    <3>1. faults < MaxFaults /\ faults' = faults + 1
      BY <1>34, Zenon DEF Fault, WatchdogFails
    <3>2. failure' = failure \/ failure' = TRUE
      BY <1>34, Zenon DEF WatchdogFails
    <3>3. faults \in Nat /\ MaxFaults \in Nat /\ failure \in BOOLEAN
      BY <1>0 DEF Simple
    <3>4. faults' \in 0 .. MaxFaults
      BY <3>1, <3>3
    <3>. QED  BY <3>2, <3>3, <3>4, Zenon
  <2>5. Large' /\ Simple'
    BY <1>34, <2>1, <2>2, <2>3, <2>4, <1>0 DEF Large, Simple, Paused, Places, Holding, WatchdogFails
  <2>6. Places' /\ Paused'
    BY <1>34, <2>1, <2>2, <2>3, <1>0 DEF Simple, Places, Paused, Handing, Confirms, Holding,
       WatchdogFails, SameJob
  <2>7. WayBack' /\ OnlyOpenedIsKept'
    BY <1>34, <2>1, <2>2, <2>3, <1>0 DEF Simple, Places, Confirms, WayBack,
       OnlyOpenedIsKept, WatchdogFails, SameJob
  <2>8. Continues
    BY <1>34, <2>1, <2>2, <2>3, <1>0 DEF Continues, Places, Handing, WatchdogFails, SameJob
  <2>9. NoneEnters
    BY <1>34, <2>1, <2>2, <2>3, <1>0 DEF NoneEnters, Past, Places, Handing,
       InstallsAfterExit, ParentGone, Large, WatchdogFails, SameJob
  <2>. QED  BY <2>5, <2>6, <2>7, <2>8, <2>9, TypeParts, StaysNumbered, StaysOutside
<1>33. CASE UNCHANGED vars
  <2>1. Large' /\ Simple'
    BY <1>33, <1>0 DEF Large, Simple, Paused, Places, Holding, vars
  <2>2. Places' /\ Paused'
    BY <1>33, <1>0 DEF Simple, Places, Paused, Handing, Confirms, Holding, ParentGone, Numbered,
       vars
  <2>3. WayBack' /\ OnlyOpenedIsKept'
    BY <1>33, <1>0 DEF Simple, Places, Confirms, WayBack, OnlyOpenedIsKept, vars
  <2>4. Continues
    BY <1>33, <1>0 DEF Continues, SameJob, Places, Handing, vars
  <2>5. NoneEnters
    BY <1>33, <1>0 DEF NoneEnters, Past, Places, Handing, InstallsAfterExit, ParentGone, Large, vars
  <2>. QED  BY <2>1, <2>2, <2>3, <2>4, <2>5, TypeParts, StaysNumbered, StaysOutside
<1>. QED
  BY <1>1, <1>2, <1>3, <1>4, <1>5, <1>6, <1>7, <1>8, <1>9, <1>10, <1>11, <1>12,
     <1>13, <1>14, <1>15, <1>16, <1>17, <1>18, <1>19, <1>20, <1>21, <1>22, <1>23, <1>24,
     <1>25, <1>26, <1>27, <1>28, <1>29, <1>30, <1>31, <1>32, <1>33, <1>34 DEF Next, Work, Update, Start, Worker

(* What every reachable state of the hand-over satisfies.                  *)
THEOREM InvHolds == Spec => []Inv
BY InvInit, InvStep, PTL DEF Spec

(* Type correctness of the counter, the journal and the workers.           *)
THEOREM TypeHolds == Spec => []TypeOK
BY InvHolds, PTL DEF Inv

(* No installer runs while the counter that ordered it is alive, and none  *)
(* for an attempt that counter took back (transaction.rs, `authorized`,    *)
(* `recover_handoff`).                                                     *)
THEOREM InstallHolds == Spec => []InstallsAfterExit
BY InvHolds, PTL DEF Inv

(* Whatever dies in between, only a version that opened here is called     *)
(* current or kept as the way back (`acknowledge_start`).                  *)
THEOREM KeptHolds == Spec => []OnlyOpenedIsKept
BY InvHolds, PTL DEF Inv

(* The counter that closes for its installer has no command in flight and  *)
(* nothing unsaved (state.rs, `begin_action`, `begin_install`), unless the *)
(* watchdog took the update back before its end came.                      *)
THEOREM InterruptHolds == Spec => InterruptsNothing
<1>1. Inv /\ [Next]_vars =>
        [counter.exiting /\ At("closed")' /\ faults' = faults =>
            TakenBack \/ (~dirty /\ \A c \in Commands : command[c] # "working")]_vars
  BY DEF Inv, Paused, TakenBack
<1>. QED  BY <1>1, InvHolds, PTL DEF Spec, InterruptsNothing
==============================================================================
