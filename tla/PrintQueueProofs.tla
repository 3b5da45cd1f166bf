--------------------------- MODULE PrintQueueProofs ---------------------------
(***************************************************************************)
(* What TLAPS proves of PrintQueue for every set of jobs and printers and  *)
(* every bound: its types; that an accepted job is never lost, that a      *)
(* dismissed one never comes back into the spool, and that an unfinished   *)
(* one is on its way; that a printer gets its jobs in order; and that the  *)
(* whole queue keeps the promise of PrintSpool.                            *)
(***************************************************************************)
EXTENDS PrintQueue, SequenceTheorems, FiniteSetTheorems, TLAPS

\* The tuples of history variables are always read as their members.
USE DEF countVars, faultVars

\* What is left of a sequence after RemoveAt is still a sequence, and of
\* nothing new: what Take leaves in a worker's channel and heap.
LEMMA RemoveAtType ==
  ASSUME NEW S, NEW s \in Seq(S), NEW i \in DOMAIN s
  PROVE  /\ RemoveAt(s, i) \in Seq(S)
         /\ Range(RemoveAt(s, i)) \subseteq Range(s)
<1>1. i \in 1..Len(s) /\ Len(s) \in Nat
  BY LenProperties
<1>2. SubSeq(s, 1, i - 1) \in Seq(S) /\ SubSeq(s, i + 1, Len(s)) \in Seq(S)
  BY <1>1
<1>3. RemoveAt(s, i) \in Seq(S)
  BY <1>2, ConcatProperties DEF RemoveAt
<1>. DEFINE u == SubSeq(s, 1, i - 1)
            v == SubSeq(s, i + 1, Len(s))
<1>4. /\ Len(u) = i - 1 /\ \A k \in 1..Len(u) : u[k] = s[k]
      /\ Len(v) = Len(s) - i /\ \A k \in 1..Len(v) : v[k] = s[i + k]
  BY <1>1, SMTT(20)
<1>5. /\ Len(u \o v) = Len(u) + Len(v)
      /\ \A k \in 1..Len(u) + Len(v) :
           (u \o v)[k] = IF k <= Len(u) THEN u[k] ELSE v[k - Len(u)]
  BY <1>2, ConcatProperties
<1>6. RemoveAt(s, i) = u \o v /\ u \in Seq(S) /\ v \in Seq(S)
  BY <1>2 DEF RemoveAt
<1>. HIDE DEF u, v
<1>7. DOMAIN (u \o v) = 1..Len(u) + Len(v) /\ DOMAIN s = 1..Len(s)
  BY <1>3, <1>5, <1>6, LenProperties
<1>8. ASSUME NEW k \in DOMAIN (u \o v) PROVE (u \o v)[k] \in Range(s)
  <2>1. CASE k <= Len(u)
    <3>1. (u \o v)[k] = s[k] /\ k \in DOMAIN s
      BY <1>1, <1>4, <1>5, <1>7, <2>1
    <3>. QED  BY <3>1 DEF Range
  <2>2. CASE ~(k <= Len(u))
    <3>1. k \in Nat /\ k <= Len(s) - 1 /\ k - Len(u) \in 1..Len(v)
      BY <1>1, <1>4, <1>7, <2>2
    <3>2. (u \o v)[k] = s[i + (k - Len(u))]
      BY <1>4, <1>5, <1>7, <2>2, <3>1
    <3>3. i + (k - Len(u)) \in DOMAIN s
      <4>1. \A n \in 1..Len(s) - i : i + n \in 1..Len(s)
        BY <1>1
      <4>. QED  BY <1>4, <1>7, <3>1, <4>1
    <3>. QED  BY <3>2, <3>3 DEF Range
  <2>. QED  BY <2>1, <2>2
<1>9. \A x \in Range(u \o v) : x \in Range(s)
  BY <1>8 DEF Range
<1>. QED  BY <1>3, <1>6, <1>9

\* Append adds its element to what a sequence holds: enqueue's new job.
LEMMA AppendRange ==
  ASSUME NEW S, NEW s \in Seq(S), NEW e \in S
  PROVE  Range(Append(s, e)) = Range(s) \cup {e}
<1>. DEFINE t == Append(s, e)
<1>1. /\ DOMAIN s = 1..Len(s) /\ DOMAIN t = 1..Len(s) + 1 /\ Len(s) \in Nat
      /\ \A i \in 1..Len(s) : t[i] = s[i]
      /\ t[Len(s) + 1] = e
  BY AppendProperties, LenProperties
<1>. HIDE DEF t
<1>2. ASSUME NEW i \in DOMAIN t PROVE t[i] \in Range(s) \cup {e}
  BY <1>1, <1>2 DEF Range
<1>3. ASSUME NEW i \in DOMAIN s PROVE s[i] \in Range(t)
  BY <1>1, <1>3 DEF Range
<1>4. e \in Range(t)
  BY <1>1 DEF Range
<1>5. Range(t) = Range(s) \cup {e}
  BY <1>2, <1>3, <1>4 DEF Range
<1>. QED  BY <1>5 DEF t

\* What RemoveAt leaves is in its old order: each entry had a place in the
\* sequence, in the same order, and every entry but the removed one is there.
LEMMA RemoveAtOrder ==
  ASSUME NEW S, NEW s \in Seq(S), NEW i \in DOMAIN s
  PROVE  /\ \A m, n \in DOMAIN RemoveAt(s, i) : m < n =>
              \E k, l \in DOMAIN s \ {i} :
                 k < l /\ RemoveAt(s, i)[m] = s[k] /\ RemoveAt(s, i)[n] = s[l]
         /\ \A m \in DOMAIN RemoveAt(s, i) :
              \E k \in DOMAIN s \ {i} : RemoveAt(s, i)[m] = s[k]
         /\ \A k \in DOMAIN s \ {i} : s[k] \in Range(RemoveAt(s, i))
<1>. DEFINE t == RemoveAt(s, i)
            u == SubSeq(s, 1, i - 1)
            v == SubSeq(s, i + 1, Len(s))
            Old(m) == IF m < i THEN m ELSE m + 1
<1>1. i \in 1..Len(s) /\ Len(s) \in Nat /\ DOMAIN s = 1..Len(s)
  BY LenProperties
<1>2. u \in Seq(S) /\ v \in Seq(S)
  BY <1>1
<1>3. /\ Len(u) = i - 1 /\ \A k \in 1..Len(u) : u[k] = s[k]
      /\ Len(v) = Len(s) - i /\ \A k \in 1..Len(v) : v[k] = s[i + k]
  BY <1>1, SMTT(20)
<1>4. t = u \o v
  BY DEF RemoveAt
<1>. HIDE DEF t, u, v
<1>5. /\ u \o v \in Seq(S) /\ Len(u \o v) = Len(u) + Len(v)
      /\ \A k \in 1..Len(u) + Len(v) :
           (u \o v)[k] = IF k <= Len(u) THEN u[k] ELSE v[k - Len(u)]
  BY <1>2, ConcatProperties
<1>6. DOMAIN t = 1..Len(s) - 1
  <2>1. Len(u \o v) = Len(s) - 1
    BY <1>1, <1>3, <1>5
  <2>. QED  BY <1>4, <1>5, <2>1, LenProperties
<1>7. ASSUME NEW m \in DOMAIN t PROVE Old(m) \in DOMAIN s \ {i} /\ t[m] = s[Old(m)]
  <2>1. m \in Nat /\ 1 <= m /\ m <= Len(s) - 1 /\ i \in Nat
    BY <1>1, <1>6
  <2>2. CASE m < i
    BY <1>1, <1>3, <1>4, <1>5, <2>1, <2>2
  <2>3. CASE ~(m < i)
    <3>1. m - Len(u) \in 1..Len(v) /\ ~(m <= Len(u)) /\ m \in 1..Len(u) + Len(v)
      BY <1>1, <1>3, <2>1, <2>3
    <3>2. i + (m - Len(u)) = m + 1
      BY <1>1, <1>3, <2>1
    <3>3. t[m] = v[m - Len(u)] /\ v[m - Len(u)] = s[i + (m - Len(u))]
      BY <1>3, <1>4, <1>5, <3>1
    <3>. QED  BY <1>1, <2>1, <2>3, <3>2, <3>3
  <2>. QED  BY <2>2, <2>3
<1>8. \A m, n \in DOMAIN t : m < n => Old(m) < Old(n)
  BY <1>1, <1>6
<1>9. ASSUME NEW k \in DOMAIN s \ {i} PROVE s[k] \in Range(t)
  <2>. DEFINE m == IF k < i THEN k ELSE k - 1
  <2>1. m \in DOMAIN t /\ Old(m) = k
    BY <1>1, <1>6
  <2>. HIDE DEF m
  <2>. QED  BY <1>7, <2>1 DEF Range
<1>. HIDE DEF Old
<1>10. ASSUME NEW m \in DOMAIN t, NEW n \in DOMAIN t, m < n
       PROVE  \E k, l \in DOMAIN s \ {i} : k < l /\ t[m] = s[k] /\ t[n] = s[l]
  BY <1>7, <1>8, <1>10
<1>. QED  BY <1>7, <1>9, <1>10 DEF t

-----------------------------------------------------------------------------
\* A write that is tried gives the rows it is meant to, or leaves them and notes
\* the job: no other write is ever noted.
LEMMA TriedType ==
  ASSUME TypeOK, NEW j \in Jobs, NEW r \in [Jobs -> RowState], Tried(j, r)
  PROVE  /\ row' \in [Jobs -> RowState]
         /\ faults' \in Nat /\ unwritten' \subseteq Jobs
         /\ unwritten \subseteq unwritten'
         /\ row' = r \/ (row' = row /\ j \in unwritten')
BY DEF TypeOK, Tried, Refused

\* What an update makes of the rows.
LEMMA UpdatedType ==
  ASSUME TypeOK, NEW j \in Jobs, NEW state \in RowState
  PROVE  /\ Updated(row, j, state) \in [Jobs -> RowState]
         /\ \A k \in Jobs \ {j} : Updated(row, j, state)[k] = row[k]
         /\ Updated(row, j, state)[j] \in {"none", state}
         /\ row[j] # "none" => Updated(row, j, state)[j] = state
         /\ row[j] = "none" => Updated(row, j, state)[j] = "none"
BY DEF TypeOK, Updated, RowState

\* The small steps several actions share keep the types of what they change.
LEMMA ParkType ==
  ASSUME TypeOK, NEW j \in Jobs, Park(j)
  PROVE  /\ row' \in [Jobs -> RowState] /\ status' \in [Jobs -> RowState]
         /\ faults' \in Nat /\ unwritten' \subseteq Jobs
         /\ unwritten \subseteq unwritten'
         /\ \/ row' = Updated(row, j, "parked")
            \/ row' = row /\ j \in unwritten'
<1>1. Updated(row, j, "parked") \in [Jobs -> RowState]
  BY UpdatedType DEF RowState
<1>2. Tried(j, Updated(row, j, "parked")) /\ status' \in [Jobs -> RowState]
  BY DEF Park, TypeOK, RowState
<1>. QED  BY <1>1, <1>2, TriedType

\* Dispatching keeps the type of the queues.
LEMMA DispatchType ==
  ASSUME TypeOK, NEW j \in Jobs, Dispatch(j)
  PROVE  waiting' \in [Printers -> Seq(Jobs)]
<1>1. \A p \in Printers : Append(waiting[p], j) \in Seq(Jobs)
  BY AppendProperties DEF TypeOK
<1>. QED  BY <1>1 DEF TypeOK, Dispatch

\* Pulling an interrupt keeps the types of the sends.
LEMMA InterruptType ==
  ASSUME TypeOK, NEW j \in Jobs, Interrupt(j)
  PROVE  interrupts' \in [Jobs -> Nat] /\ sends' \subseteq SendType
<1>1. \A s \in SendType : [s EXCEPT !.stop = TRUE] \in SendType
  BY DEF SendType
<1>. QED  BY <1>1 DEF TypeOK, Interrupt

\* A call that goes on, or ends, is a call.
LEMMA GoesType ==
  ASSUME NEW call \in {"retry", "dismiss", "resume"}, NEW rest \in SUBSET Jobs,
         Goes(call, rest)
  PROVE  op' \in CallType
BY DEF Goes, CallType, NoOp

\* So is one that begins.
LEMMA BeginsType ==
  ASSUME NEW call \in {"enqueue", "retry", "dismiss", "remove"},
         NEW todo \in SUBSET Jobs, Begins(call, todo)
  PROVE  op' \in CallType
BY DEF Begins, CallType

\* The resting values have their types.
LEMMA NoOpType == NoOp \in CallType /\ Idle \in InHandType
BY DEF NoOp, CallType, Idle, InHandType, Step, Answer

\* What a call has left are jobs.
LEMMA OpType == ASSUME TypeOK PROVE op.todo \in SUBSET Jobs
BY DEF TypeOK, CallType

\* What a worker's step may become, as long as a worker past idle has a job.
LEMMA WorkerType ==
  ASSUME TypeOK, NEW p \in Printers, NEW w \in InHandType,
         w.at \in {"idle", "stopped"} \/ w.job \in Jobs,
         worker' = [worker EXCEPT ![p] = w]
  PROVE  /\ worker' \in [Printers -> InHandType]
         /\ \A q \in Printers :
              worker'[q].at \in {"idle", "stopped"} \/ worker'[q].job \in Jobs
BY DEF TypeOK

\* An answer changes the worker that waits for it and no other.
LEMMA AnsweredType ==
  ASSUME TypeOK, NEW s \in sends, NEW a \in Answer \ {"none"}, Answered(s, a)
  PROVE  /\ worker' \in [Printers -> InHandType]
         /\ \A p \in Printers :
              worker'[p].at \in {"idle", "stopped"} \/ worker'[p].job \in Jobs
<1>1. ASSUME NEW w \in InHandType
      PROVE  /\ [w EXCEPT !.at = "answered", !.answer = a] \in InHandType
             /\ [w EXCEPT !.at = "answered", !.answer = a].job = w.job
             /\ [w EXCEPT !.at = "answered", !.answer = a].at = "answered"
  BY DEF InHandType, Step, Answer
<1>2. \A p \in Printers : worker[p] \in InHandType
  BY DEF TypeOK
<1>3. worker' \in [Printers -> InHandType]
  BY <1>1, <1>2 DEF Answered
<1>4. ASSUME NEW p \in Printers
      PROVE  worker'[p].at \in {"idle", "stopped"} \/ worker'[p].job \in Jobs
  <2>1. CASE AwaitedBy(p, s)
    <3>1. worker[p].job \in Jobs
      BY <2>1 DEF AwaitedBy, TypeOK, SendType
    <3>. QED  BY <1>1, <1>2, <2>1, <3>1 DEF Answered
  <2>2. CASE ~AwaitedBy(p, s)
    BY <2>2 DEF Answered, TypeOK
  <2>. QED  BY <2>1, <2>2
<1>. QED  BY <1>3, <1>4

\* A worker with nothing in hand.
LEMMA IdleType == /\ Idle.at = "idle" /\ Idle.job = NoJob /\ Idle.answer = "none"
BY DEF Idle

-----------------------------------------------------------------------------
\* The queue's state, its threads' records included, keeps its type.
THEOREM TypeCorrect == Spec => []TypeOK
<1>1. Init => TypeOK
  BY EmptySeq, NoOpType, IdleType DEF Init, TypeOK, RowState
<1>2. ASSUME TypeOK, [Next]_vars PROVE TypeOK'
  <2>. USE TypeOK, OpType, NoOpType, IdleType DEF historyVars
  <2>1. ASSUME NEW j \in Jobs, EnqueueSave(j) PROVE TypeOK'
    <3>1. Append(created, j) \in Seq(Jobs)
      BY AppendProperties DEF TypeOK
    <3>. QED  BY <2>1, <3>1, BeginsType DEF TypeOK, EnqueueSave, RowState
  <2>2. ASSUME NEW j \in Jobs, EnqueueDispatch(j) PROVE TypeOK'
    BY <2>2, DispatchType DEF TypeOK, EnqueueDispatch, RowState
  <2>3. ASSUME NEW todo \in SUBSET Jobs, AskRetry(todo) PROVE TypeOK'
    BY <2>3, BeginsType DEF TypeOK, AskRetry
  <2>4. ASSUME NEW j \in Jobs, RetryNext(j) PROVE TypeOK'
    <3>1. op' \in CallType
      BY <2>4, GoesType DEF RetryNext
    <3>2. waiting' \in [Printers -> Seq(Jobs)]
      BY <2>4, DispatchType DEF RetryNext
    <3>3. status' \in [Jobs -> RowState] /\ retries' \in [Jobs -> Nat]
      BY <2>4 DEF TypeOK, RetryNext, RowState
    <3>4. UNCHANGED <<phase, worker, sends, interrupts, cancelled, created,
                      dismissed, started, papers, revived, starts>>
      BY <2>4 DEF RetryNext
    <3>5. [row EXCEPT ![j] = "pending"] \in [Jobs -> RowState]
      BY DEF TypeOK, RowState
    <3>6. row' \in [Jobs -> RowState] /\ faults' \in Nat /\ unwritten' \subseteq Jobs
      BY <2>4, <3>5, TriedType DEF RetryNext
    <3>. QED  BY <3>1, <3>2, <3>3, <3>4, <3>6 DEF TypeOK
  <2>5. ASSUME NEW j \in Jobs, RetryRefused(j) PROVE TypeOK'
    BY <2>5 DEF TypeOK, RetryRefused
  <2>6. ASSUME NEW todo \in SUBSET Jobs, AskDismiss(todo) PROVE TypeOK'
    BY <2>6, BeginsType DEF TypeOK, AskDismiss
  <2>7. ASSUME NEW j \in Jobs, DismissMark(j) PROVE TypeOK'
    <3>1. op' \in CallType
      BY <2>7, BeginsType DEF DismissMark
    <3>. QED  BY <2>7, <3>1, InterruptType DEF TypeOK, DismissMark
  <2>8. ASSUME NEW j \in Jobs, DismissRemove(j) PROVE TypeOK'
    <3>1. op' \in CallType
      BY <2>8, GoesType DEF DismissRemove
    <3>2. row' \in [Jobs -> RowState] /\ status' \in [Jobs -> RowState]
            /\ dismissed' \subseteq Jobs
      BY <2>8 DEF TypeOK, DismissRemove, RowState
    <3>3. UNCHANGED <<phase, waiting, worker, sends, interrupts, cancelled,
                      created, started, papers, retries, revived, starts, faultVars>>
      BY <2>8 DEF DismissRemove
    <3>. QED  BY <3>1, <3>2, <3>3 DEF TypeOK
  <2>9. ASSUME NEW j \in Jobs, DismissFails(j) PROVE TypeOK'
    <3>1. op' \in CallType
      BY <2>9, NoOpType DEF DismissFails
    <3>2. faults' \in Nat /\ unwritten' \subseteq Jobs /\ row' = row
      BY <2>9 DEF TypeOK, DismissFails, Refused
    <3>3. UNCHANGED <<phase, status, waiting, worker, sends, interrupts, cancelled,
                      countVars>>
      BY <2>9 DEF DismissFails
    <3>. QED  BY <3>1, <3>2, <3>3 DEF TypeOK
  <2>10. ASSUME NEW j \in Jobs, ResumeCut(j) PROVE TypeOK'
    <3>1. op' \in CallType
      BY <2>10, GoesType DEF ResumeCut
    <3>. QED  BY <2>10, <3>1, ParkType DEF TypeOK, ResumeCut
  <2>11. ASSUME NEW j \in Jobs, ResumeRest(j) PROVE TypeOK'
    <3>1. op' \in CallType
      BY <2>11, GoesType DEF ResumeRest
    <3>2. revived' \in [Jobs -> Nat] /\ status' \in [Jobs -> RowState]
      <4>1. [revived EXCEPT ![j] = @ + 1] \in [Jobs -> Nat]
        BY DEF TypeOK
      <4>2. revived' \in [Jobs -> Nat]
        BY <2>11, <4>1 DEF TypeOK, ResumeRest
      <4>3. status' \in [Jobs -> RowState]
        BY <2>11 DEF TypeOK, ResumeRest, RowState
      <4>. QED  BY <4>2, <4>3
    <3>3. waiting' \in [Printers -> Seq(Jobs)]
      BY <2>11, DispatchType DEF ResumeRest
    <3>. QED  BY <2>11, <3>1, <3>2, <3>3 DEF TypeOK, ResumeRest
  <2>12. ASSUME NEW p \in Printers, Take(p) PROVE TypeOK'
    <3>1. PICK i \in DOMAIN waiting[p] :
            /\ waiting' = [waiting EXCEPT ![p] = RemoveAt(@, i)]
            /\ LET j == waiting[p][i]
               IN IF j \in Unreadable
                  THEN Park(j) /\ UNCHANGED worker
                  ELSE /\ worker' = [worker EXCEPT ![p] =
                                       [Idle EXCEPT !.at = "ready", !.job = j]]
                       /\ UNCHANGED <<row, status, faultVars>>
      BY <2>12 DEF Take
    <3>2. waiting[p] \in Seq(Jobs)
      BY DEF TypeOK
    <3>3. RemoveAt(waiting[p], i) \in Seq(Jobs)
      BY <3>2, RemoveAtType
    <3>4. waiting' \in [Printers -> Seq(Jobs)]
      BY <3>1, <3>3 DEF TypeOK
    <3>5. waiting[p][i] \in Jobs
      BY <3>2, ElementOfSeq, LenProperties
    <3>6. CASE waiting[p][i] \in Unreadable
      BY <2>12, <3>1, <3>4, <3>5, <3>6, ParkType DEF TypeOK, Take
    <3>7. CASE waiting[p][i] \notin Unreadable
      <4>. DEFINE w == [Idle EXCEPT !.at = "ready", !.job = waiting[p][i]]
      <4>1. w \in InHandType /\ w.job \in Jobs
        BY <3>5 DEF Idle, InHandType, Step, Answer
      <4>2. worker' = [worker EXCEPT ![p] = w]
        BY <3>1, <3>7
      <4>. HIDE DEF w
      <4>. QED  BY <2>12, <3>1, <3>4, <3>7, <4>1, <4>2, WorkerType DEF TypeOK, Take
    <3>. QED  BY <3>6, <3>7
  <2>13. ASSUME NEW p \in Printers, WorkerStops(p) PROVE TypeOK'
    <3>. DEFINE w == [worker[p] EXCEPT !.at = "stopped"]
    <3>1. w \in InHandType /\ w.at = "stopped" /\ worker' = [worker EXCEPT ![p] = w]
      BY <2>13 DEF TypeOK, WorkerStops, InHandType, Step
    <3>. HIDE DEF w
    <3>. QED  BY <2>13, <3>1, WorkerType, EmptySeq DEF TypeOK, WorkerStops
  <2>14. ASSUME NEW p \in Printers, CheckBefore(p) PROVE TypeOK'
    <3>. DEFINE w == [worker[p] EXCEPT !.at = "begin", !.attempt = @ + 1]
    <3>1. worker[p] \in InHandType /\ worker[p].job \in Jobs
      BY <2>14 DEF TypeOK, CheckBefore
    <3>2. worker[p].attempt + 1 \in Nat
      BY <3>1 DEF InHandType
    <3>3. w \in InHandType /\ w.job \in Jobs
      BY <3>1, <3>2 DEF InHandType, Step
    <3>4. \/ worker' = [worker EXCEPT ![p] = w]
          \/ worker' = [worker EXCEPT ![p] = Idle]
      BY <2>14 DEF CheckBefore
    <3>. HIDE DEF w
    <3>. QED  BY <2>14, <3>3, <3>4, WorkerType DEF TypeOK, CheckBefore
  <2>15. ASSUME NEW p \in Printers, Begin(p) PROVE TypeOK'
    <3>. DEFINE j == worker[p].job
                n == started[j] + 1
                w == [worker[p] EXCEPT !.at = "send", !.send = n,
                                       !.answer = "none"]
                v == [worker[p] EXCEPT !.at = "answered", !.answer = "transient"]
    <3>1. worker[p] \in InHandType /\ j \in Jobs
      BY <2>15 DEF TypeOK, Begin
    <3>2. n \in Nat /\ Send(j, n, "opening", FALSE) \in SendType
      BY <3>1 DEF TypeOK, Send, SendType
    <3>3. w \in InHandType /\ w.job \in Jobs /\ v \in InHandType /\ v.job \in Jobs
      BY <3>1, <3>2 DEF InHandType, Step, Answer
    <3>4. \/ worker' = [worker EXCEPT ![p] = w]
          \/ worker' = [worker EXCEPT ![p] = v]
      BY <2>15 DEF Begin
    <3>5. sends' \subseteq SendType /\ started' \in [Jobs -> Nat]
      <4>1. \/ /\ sends' = sends \cup {Send(j, n, "opening", FALSE)}
               /\ started' = [started EXCEPT ![j] = n]
            \/ UNCHANGED <<sends, started>>
        BY <2>15 DEF Begin
      <4>2. sends \subseteq SendType /\ started \in [Jobs -> Nat]
        BY DEF TypeOK
      <4>. HIDE DEF j, n
      <4>. QED  BY <3>1, <3>2, <4>1, <4>2
    <3>6. status' \in [Jobs -> RowState] /\ Tried(j, Updated(row, j, "printing"))
      BY <2>15, <3>1 DEF TypeOK, Begin, RowState
    <3>7. UNCHANGED <<phase, waiting, interrupts, cancelled, op, created,
                      dismissed, papers, retries, revived, starts>>
      BY <2>15 DEF Begin
    <3>8. Updated(row, j, "printing") \in [Jobs -> RowState]
      BY <3>1, UpdatedType DEF RowState
    <3>. HIDE DEF j, n, w, v
    <3>9. row' \in [Jobs -> RowState] /\ faults' \in Nat /\ unwritten' \subseteq Jobs
      BY <3>1, <3>6, <3>8, TriedType
    <3>. QED  BY <3>3, <3>4, <3>5, <3>6, <3>7, <3>9, WorkerType DEF TypeOK
  <2>16. ASSUME NEW p \in Printers, Deadline(p) PROVE TypeOK'
    <3>. DEFINE w == [worker[p] EXCEPT !.at = "answered", !.answer = "permanent"]
    <3>1. worker[p] \in InHandType /\ worker[p].job \in Jobs
      BY <2>16 DEF TypeOK, Deadline
    <3>2. w \in InHandType /\ w.job \in Jobs /\ worker' = [worker EXCEPT ![p] = w]
      BY <2>16, <3>1 DEF InHandType, Step, Answer, Deadline
    <3>3. interrupts' \in [Jobs -> Nat] /\ sends' \subseteq SendType
      BY <2>16, <3>1, InterruptType DEF Deadline
    <3>. HIDE DEF w
    <3>. QED  BY <2>16, <3>2, <3>3, WorkerType DEF TypeOK, Deadline
  <2>17. ASSUME NEW p \in Printers, CheckAfter(p) PROVE TypeOK'
    <3>. DEFINE w == [worker[p] EXCEPT !.at = "settle"]
    <3>1. worker[p] \in InHandType /\ worker[p].job \in Jobs
      BY <2>17 DEF TypeOK, CheckAfter
    <3>2. w \in InHandType /\ w.job \in Jobs
      BY <3>1 DEF InHandType, Step
    <3>3. \/ worker' = [worker EXCEPT ![p] = w]
          \/ worker' = [worker EXCEPT ![p] = Idle]
      BY <2>17 DEF CheckAfter
    <3>. HIDE DEF w
    <3>. QED  BY <2>17, <3>2, <3>3, WorkerType DEF TypeOK, CheckAfter
  <2>18. ASSUME NEW p \in Printers, SettlePrinted(p) PROVE TypeOK'
    <3>1. status' \in [Jobs -> RowState] /\ worker[p].job \in Jobs
      BY <2>18 DEF TypeOK, SettlePrinted, RowState
    <3>2. [row EXCEPT ![worker[p].job] = "none"] \in [Jobs -> RowState]
      BY DEF TypeOK, RowState
    <3>3. row' \in [Jobs -> RowState] /\ faults' \in Nat /\ unwritten' \subseteq Jobs
      BY <2>18, <3>1, <3>2, TriedType DEF SettlePrinted
    <3>. QED  BY <2>18, <3>1, <3>3, WorkerType DEF TypeOK, SettlePrinted
  <2>19. ASSUME NEW p \in Printers, SettleParked(p) PROVE TypeOK'
    <3>1. worker[p].job \in Jobs
      BY <2>19 DEF TypeOK, SettleParked
    <3>. QED  BY <2>19, <3>1, ParkType, WorkerType DEF TypeOK, SettleParked
  <2>20. ASSUME NEW p \in Printers, SettleFailed(p) PROVE TypeOK'
    <3>. DEFINE w == [worker[p] EXCEPT !.at = "backoff"]
    <3>1. worker[p] \in InHandType /\ worker[p].job \in Jobs
      BY <2>20 DEF TypeOK, SettleFailed
    <3>2. w \in InHandType /\ w.job \in Jobs /\ worker' = [worker EXCEPT ![p] = w]
      BY <2>20, <3>1 DEF InHandType, Step, SettleFailed
    <3>3. /\ status' \in [Jobs -> RowState]
          /\ Updated(row, worker[p].job, "failed") \in [Jobs -> RowState]
      BY <2>20, <3>1, UpdatedType DEF TypeOK, SettleFailed, RowState
    <3>4. row' \in [Jobs -> RowState] /\ faults' \in Nat /\ unwritten' \subseteq Jobs
      BY <2>20, <3>1, <3>3, TriedType DEF SettleFailed
    <3>. HIDE DEF w
    <3>. QED  BY <2>20, <3>2, <3>3, <3>4, WorkerType DEF TypeOK, SettleFailed
  <2>21. ASSUME NEW p \in Printers, Wake(p) PROVE TypeOK'
    <3>. DEFINE w == [worker[p] EXCEPT !.at = "ready"]
    <3>1. worker[p] \in InHandType /\ worker[p].job \in Jobs
      BY <2>21 DEF TypeOK, Wake
    <3>2. w \in InHandType /\ w.job \in Jobs /\ worker' = [worker EXCEPT ![p] = w]
      BY <2>21, <3>1 DEF InHandType, Step, Wake
    <3>. HIDE DEF w
    <3>. QED  BY <2>21, <3>2, WorkerType DEF TypeOK, Wake
  <2>22. ASSUME NEW s \in sends, Opened(s) PROVE TypeOK'
    <3>1. s \in SendType /\ [s EXCEPT !.at = "writing"] \in SendType
      BY DEF TypeOK, SendType
    <3>2. s.job \in Jobs /\ s.no \in Nat
      BY <3>1 DEF SendType
    <3>. QED  BY <2>22, <3>1, <3>2 DEF TypeOK, Opened
  <2>23. ASSUME NEW s \in sends, OpenFailed(s) PROVE TypeOK'
    <3>1. PICK a \in {"transient", "permanent"} : Answered(s, a)
      BY <2>23 DEF OpenFailed
    <3>2. a \in Answer \ {"none"}
      BY DEF Answer
    <3>. QED  BY <2>23, <3>1, <3>2, AnsweredType DEF TypeOK, OpenFailed
  <2>24. ASSUME NEW s \in sends, NEW a \in Answer \ {"none"}, Written(s, a)
         PROVE  TypeOK'
    <3>1. s.job \in Jobs
      BY DEF TypeOK, SendType
    <3>2. interrupts' \in [Jobs -> Nat]
      BY <2>24, <3>1 DEF TypeOK, Written
    <3>3. papers' \in [Jobs -> Nat]
      <4>1. [papers EXCEPT ![s.job] = @ + 1] \in [Jobs -> Nat]
        BY <3>1 DEF TypeOK
      <4>2. papers \in [Jobs -> Nat]
        BY DEF TypeOK
      <4>. QED  BY <2>24, <4>1, <4>2 DEF Written
    <3>. QED  BY <2>24, <3>2, <3>3, AnsweredType DEF TypeOK, Written
  <2>25. CASE Shutdown
    BY <2>25 DEF TypeOK, Shutdown
  <2>26. CASE Exit \/ Crash
    <3>1. PowerOff
      BY <2>26 DEF Exit, Crash
    <3>2. /\ status' \in [Jobs -> RowState] /\ waiting' \in [Printers -> Seq(Jobs)]
          /\ worker' \in [Printers -> InHandType] /\ interrupts' \in [Jobs -> Nat]
          /\ \A p \in Printers : worker'[p] = Idle
      BY <3>1, EmptySeq DEF PowerOff, RowState
    <3>. QED  BY <3>1, <3>2 DEF TypeOK, PowerOff
  <2>27. CASE Start
    <3>1. op' \in CallType
      BY <2>27, GoesType DEF Start
    <3>2. phase' = "up" /\ starts' \in Nat
      BY <2>27 DEF Start, TypeOK
    <3>. QED  BY <2>27, <3>1, <3>2 DEF TypeOK, Start
  <2>28. CASE UNCHANGED vars
    BY <2>28 DEF TypeOK, vars, queueVars
  <2>. QED
    <3>1. CASE Calls
      <4>1. ASSUME NEW j \in Jobs PROVE {j} \in SUBSET Jobs
        OBVIOUS
      <4>2. /\ {j \in Jobs : status[j] = "parked"} \in SUBSET Jobs
            /\ {j \in Jobs : status[j] # "none"} \in SUBSET Jobs
        OBVIOUS
      <4>. QED
        BY <3>1, <4>1, <4>2, <2>1, <2>2, <2>3, <2>4, <2>5, <2>6, <2>7, <2>8,
           <2>9, <2>10, <2>11
        DEF Calls, CallGoesOn, RetryOne, RetryParked, DismissOne, DismissAll
    <3>2. CASE \E p \in Printers : Worker(p)
      BY <3>2, <2>12, <2>13, <2>14, <2>15, <2>16, <2>17, <2>18, <2>19, <2>20,
         <2>21 DEF Worker
    <3>3. CASE SendThread
      BY <3>3, <2>22, <2>23, <2>24 DEF SendThread
    <3>. QED
      BY <1>2, <2>25, <2>26, <2>27, <2>28, <3>1, <3>2, <3>3 DEF Next
<1>. QED  BY <1>1, <1>2, PTL DEF Spec

-----------------------------------------------------------------------------
(* An accepted job is never lost.  All but three actions keep every row,    *)
(* every paper and every dismissal; a row goes by a dismissal, which is     *)
(* noted, or by a worker that was told the job printed.                     *)

Kept == /\ created' = created /\ dismissed \subseteq dismissed'
        /\ \A j \in Jobs : /\ papers'[j] >= papers[j]
                           /\ row[j] # "none" => row'[j] # "none"

\* A step that keeps rows, papers and dismissals loses nothing.
LEMMA KeptIsEnough ==
  ASSUME TypeOK, AcceptedIsNeverLost, Kept, TypeOK'
  PROVE  AcceptedIsNeverLost'
<1>1. \A j \in Range(created) : j \in Jobs
  BY ElementOfSeq, LenProperties DEF TypeOK, Range
<1>2. \A j \in Jobs : papers[j] \in Nat /\ papers'[j] \in Nat
  BY DEF TypeOK
<1>. QED  BY <1>1, <1>2 DEF AcceptedIsNeverLost, Kept

\* The calls keep every row, but for a dismissal, which notes the job.
LEMMA CallsKeep ==
  ASSUME TypeOK, AcceptedIsNeverLost, TypeOK', Calls
  PROVE  AcceptedIsNeverLost' /\ worker' = worker /\ papers' = papers
<1>1. \A j \in Jobs : papers[j] \in Nat
  BY DEF TypeOK
<1>2. ASSUME NEW j \in Jobs, EnqueueSave(j)
      PROVE  AcceptedIsNeverLost' /\ worker' = worker /\ papers' = papers
  <2>1. Range(created') = Range(created) \cup {j}
    BY <1>2, AppendRange DEF EnqueueSave, TypeOK
  <2>2. row'[j] # "none" /\ \A k \in Jobs : row[k] # "none" => row'[k] # "none"
    BY <1>2 DEF EnqueueSave, TypeOK
  <2>3. \A k \in Range(created) : k \in Jobs
    BY ElementOfSeq, LenProperties DEF TypeOK, Range
  <2>. QED  BY <1>2, <2>1, <2>2, <2>3 DEF EnqueueSave, AcceptedIsNeverLost
<1>3. ASSUME NEW j \in Jobs, DismissRemove(j)
      PROVE  AcceptedIsNeverLost' /\ worker' = worker /\ papers' = papers
  <2>1. \A k \in Jobs \ {j} : row'[k] = row[k]
    BY <1>3 DEF DismissRemove, TypeOK
  <2>2. \A k \in Range(created) : k \in Jobs
    BY ElementOfSeq, LenProperties DEF TypeOK, Range
  <2>. QED  BY <1>3, <2>1, <2>2 DEF DismissRemove, AcceptedIsNeverLost
<1>4. ASSUME NEW j \in Jobs, RetryNext(j) \/ ResumeCut(j)
      PROVE  Kept /\ worker' = worker /\ papers' = papers
  <2>1. UNCHANGED <<created, dismissed, papers, worker>>
    BY <1>4 DEF RetryNext, ResumeCut, historyVars
  <2>2. row' = [row EXCEPT ![j] = "pending"] \/ row' = Updated(row, j, "parked") \/ row' = row
    BY <1>4 DEF RetryNext, ResumeCut, Park, Tried, Refused
  <2>3. \A k \in Jobs : row[k] # "none" => row'[k] # "none"
    BY <2>2 DEF Updated, TypeOK
  <2>. QED  BY <1>1, <2>1, <2>3 DEF Kept
<1>5. ASSUME row' = row, UNCHANGED <<created, dismissed, papers, worker>>
      PROVE  Kept /\ worker' = worker /\ papers' = papers
  BY <1>1, <1>5 DEF Kept
<1>6. ASSUME NEW j \in Jobs,
             \/ EnqueueDispatch(j) \/ RetryRefused(j) \/ DismissMark(j)
             \/ DismissFails(j) \/ ResumeRest(j)
      PROVE  row' = row /\ UNCHANGED <<created, dismissed, papers, worker>>
  BY <1>6
  DEF EnqueueDispatch, RetryRefused, DismissMark, DismissFails, Refused, ResumeRest,
      historyVars
<1>7. ASSUME RetryOne \/ RetryParked \/ DismissOne \/ DismissAll
      PROVE  row' = row /\ UNCHANGED <<created, dismissed, papers, worker>>
  BY <1>7
  DEF RetryOne, RetryParked, DismissOne, DismissAll, AskRetry, AskDismiss, historyVars
<1>. QED
  BY <1>2, <1>3, <1>4, <1>5, <1>6, <1>7, KeptIsEnough DEF Calls, CallGoesOn

\* A worker's step deletes a row only when it was told the job printed.
LEMMA WorkerKeeps ==
  ASSUME TypeOK, NeverLostInv, TypeOK', NEW p \in Printers, Worker(p)
  PROVE  NeverLostInv'
<1>1. \A j \in Jobs : papers[j] \in Nat
  BY DEF TypeOK
<1>2. papers' = papers /\ created' = created /\ dismissed' = dismissed
  BY DEF Worker, Take, WorkerStops, CheckBefore, Begin, Deadline, CheckAfter,
         SettlePrinted, SettleParked, SettleFailed, Wake, historyVars
<1>3. \A q \in Printers \ {p} : worker'[q] = worker[q]
  <2>1. worker' = worker \/ \E w : worker' = [worker EXCEPT ![p] = w]
    <3>1. CASE CheckBefore(p) \/ CheckAfter(p) \/ Deadline(p)
      BY <3>1 DEF CheckBefore, CheckAfter, Deadline
    <3>2. CASE Begin(p)
      BY <3>2 DEF Begin
    <3>3. CASE Take(p) \/ WorkerStops(p) \/ Wake(p)
      BY <3>3 DEF Take, WorkerStops, Wake
    <3>4. CASE SettlePrinted(p) \/ SettleParked(p) \/ SettleFailed(p)
      BY <3>4 DEF SettlePrinted, SettleParked, SettleFailed
    <3>. QED  BY <3>1, <3>2, <3>3, <3>4 DEF Worker
  <2>2. DOMAIN worker = Printers
    BY DEF TypeOK
  <2>. QED  BY <2>1, <2>2
<1>4. ASSUME worker'[p].answer = "ok"
      PROVE  worker[p].answer = "ok" /\ worker'[p].job = worker[p].job
  <2>. USE <1>4
  <2>. DEFINE w == worker[p]
  <2>0. w \in InHandType /\ DOMAIN worker = Printers
    BY DEF TypeOK
  <2>1. CASE Take(p)
    <3>1. \/ worker' = worker
          \/ \E j : worker' = [worker EXCEPT ![p] =
                                 [Idle EXCEPT !.at = "ready", !.job = j]]
      BY <2>1 DEF Take
    <3>2. \A j : [Idle EXCEPT !.at = "ready", !.job = j].answer = "none"
      BY DEF Idle
    <3>. QED  BY <2>0, <3>1, <3>2
  <2>2. CASE WorkerStops(p) \/ Wake(p) \/ SettleFailed(p)
    <3>1. \E at \in Step : worker'[p] = [w EXCEPT !.at = at]
      BY <2>0, <2>2 DEF WorkerStops, Wake, SettleFailed, Step
    <3>. QED  BY <2>0, <3>1 DEF InHandType
  <2>3. CASE CheckBefore(p) \/ CheckAfter(p)
    <3>1. \/ worker'[p] = Idle
          \/ worker'[p] = [w EXCEPT !.at = "begin", !.attempt = @ + 1]
          \/ worker'[p] = [w EXCEPT !.at = "settle"]
      BY <2>0, <2>3 DEF CheckBefore, CheckAfter
    <3>. QED  BY <2>0, <3>1, IdleType DEF InHandType
  <2>4. CASE Begin(p)
    <3>1. \/ \E n : worker'[p] = [w EXCEPT !.at = "send", !.send = n,
                                           !.answer = "none"]
          \/ worker'[p] = [w EXCEPT !.at = "answered", !.answer = "transient"]
      BY <2>0, <2>4 DEF Begin
    <3>2. worker'[p].answer \in {"none", "transient"}
      BY <2>0, <3>1 DEF InHandType
    <3>. QED  BY <3>2
  <2>5. CASE Deadline(p)
    <3>1. worker'[p].answer = "permanent"
      BY <2>0, <2>5 DEF Deadline, InHandType
    <3>. QED  BY <3>1
  <2>6. CASE SettlePrinted(p) \/ SettleParked(p)
    BY <2>0, <2>6, IdleType DEF SettlePrinted, SettleParked
  <2>. QED  BY <2>1, <2>2, <2>3, <2>4, <2>5, <2>6 DEF Worker
<1>5. OkMeansPaper'
  BY <1>2, <1>3, <1>4 DEF NeverLostInv, OkMeansPaper
<1>6. CASE SettlePrinted(p)
  <2>. DEFINE j == worker[p].job
  <2>1. papers'[j] > 0
    BY <1>2, <1>6 DEF SettlePrinted, NeverLostInv, OkMeansPaper
  <2>2. \A k \in Jobs \ {j} : row'[k] = row[k]
    <3>1. row' = row \/ row' = [row EXCEPT ![j] = "none"]
      BY <1>6 DEF SettlePrinted, Tried, Refused
    <3>. QED  BY <3>1 DEF TypeOK
  <2>3. \A k \in Range(created) : k \in Jobs
    BY ElementOfSeq, LenProperties DEF TypeOK, Range
  <2>4. AcceptedIsNeverLost'
    BY <1>2, <2>1, <2>2, <2>3 DEF NeverLostInv, AcceptedIsNeverLost
  <2>. QED  BY <1>5, <2>4 DEF NeverLostInv
<1>7. CASE ~SettlePrinted(p)
  <2>1. \A j \in Jobs : row[j] # "none" => row'[j] # "none"
    <3>1. \/ row' = row
          \/ \E j \in Jobs, state \in RowState \ {"none"} :
               row' = Updated(row, j, state)
      <4>1. CASE Take(p)
        <5>1. PICK i \in DOMAIN waiting[p] :
                row' = row \/ Park(waiting[p][i])
          BY <4>1 DEF Take
        <5>2. waiting[p][i] \in Jobs
          BY ElementOfSeq, LenProperties DEF TypeOK
        <5>. QED  BY <5>1, <5>2, ParkType DEF RowState
      <4>2. CASE Begin(p) \/ SettleParked(p) \/ SettleFailed(p)
        <5>1. worker[p].job \in Jobs
          BY <4>2 DEF TypeOK, Begin, SettleParked, SettleFailed
        <5>2. \/ row' = row
              \/ \E state \in {"printing", "parked", "failed"} :
                   row' = Updated(row, worker[p].job, state)
          BY <4>2 DEF Begin, SettleParked, SettleFailed, Park, Tried, Refused
        <5>. QED  BY <5>1, <5>2 DEF RowState
      <4>3. CASE WorkerStops(p) \/ CheckBefore(p) \/ Deadline(p) \/ CheckAfter(p)
                   \/ Wake(p)
        BY <4>3 DEF WorkerStops, CheckBefore, Deadline, CheckAfter, Wake
      <4>. QED  BY <1>7, <4>1, <4>2, <4>3 DEF Worker
    <3>. QED  BY <3>1 DEF TypeOK, Updated
  <2>2. Kept
    BY <1>1, <1>2, <2>1 DEF Kept
  <2>. QED  BY <1>5, <2>2, KeptIsEnough DEF NeverLostInv
<1>. QED  BY <1>6, <1>7

\* A send thread that answers "printed" has added a paper for its job.
LEMMA SendKeeps ==
  ASSUME TypeOK, NeverLostInv, TypeOK', SendThread
  PROVE  NeverLostInv'
<1>1. PICK s \in sends : \/ Opened(s) \/ OpenFailed(s)
                         \/ \E a \in Answer \ {"none"} : Written(s, a)
  BY DEF SendThread
<1>2. s.job \in Jobs /\ \A j \in Jobs : papers[j] \in Nat
  BY DEF TypeOK, SendType
<1>3. Kept
  <2>1. UNCHANGED <<row, created, dismissed>>
    BY <1>1 DEF Opened, OpenFailed, Written, historyVars
  <2>2. papers' = papers \/ papers' = [papers EXCEPT ![s.job] = @ + 1]
    BY <1>1 DEF Opened, OpenFailed, Written, historyVars
  <2>3. ASSUME NEW j \in Jobs PROVE papers'[j] >= papers[j]
    <3>1. papers[j] \in Nat /\ (papers'[j] = papers[j] \/ papers'[j] = papers[j] + 1)
      BY <1>2, <2>2 DEF TypeOK
    <3>. QED  BY <3>1
  <2>. QED  BY <2>1, <2>3 DEF Kept
<1>4. ASSUME NEW p \in Printers, worker'[p].answer = "ok"
      PROVE  worker'[p].job \in Jobs /\ papers'[worker'[p].job] > 0
  <2>1. CASE Opened(s)
    BY <1>4, <2>1 DEF Opened, NeverLostInv, OkMeansPaper, historyVars
  <2>2. CASE OpenFailed(s)
    <3>1. worker'[p] = worker[p] /\ papers' = papers
      BY <1>4, <2>2 DEF OpenFailed, Answered, TypeOK, InHandType, historyVars
    <3>. QED  BY <1>4, <3>1 DEF NeverLostInv, OkMeansPaper
  <2>3. ASSUME NEW a \in Answer \ {"none"}, Written(s, a)
        PROVE  worker'[p].job \in Jobs /\ papers'[worker'[p].job] > 0
    <3>1. CASE AwaitedBy(p, s)
      <4>1. worker'[p].answer = a /\ worker'[p].job = s.job
        <5>1. worker'[p] = [worker[p] EXCEPT !.at = "answered", !.answer = a]
          BY <2>3, <3>1 DEF Written, Answered
        <5>2. worker[p] \in InHandType /\ worker[p].job = s.job
          BY <3>1 DEF AwaitedBy, TypeOK
        <5>. QED  BY <5>1, <5>2 DEF InHandType
      <4>2. papers'[s.job] = papers[s.job] + 1
        BY <1>2, <1>4, <2>3, <4>1 DEF Written, TypeOK
      <4>. QED  BY <1>2, <4>1, <4>2
    <3>2. CASE ~AwaitedBy(p, s)
      <4>1. worker'[p] = worker[p]
        BY <2>3, <3>2 DEF Written, Answered
      <4>2. worker[p].job \in Jobs /\ papers[worker[p].job] > 0
        BY <1>4, <4>1 DEF NeverLostInv, OkMeansPaper
      <4>3. papers' = papers \/ papers' = [papers EXCEPT ![s.job] = @ + 1]
        BY <2>3 DEF Written
      <4>4. papers'[worker[p].job] \in {papers[worker[p].job],
                                         papers[worker[p].job] + 1}
        BY <1>2, <4>2, <4>3 DEF TypeOK
      <4>. QED  BY <1>2, <4>1, <4>2, <4>4
    <3>. QED  BY <3>1, <3>2
  <2>. QED  BY <1>1, <2>1, <2>2, <2>3
<1>5. OkMeansPaper'
  BY <1>4 DEF OkMeansPaper
<1>. QED  BY <1>3, <1>5, KeptIsEnough DEF NeverLostInv

\* What a worker was told, and what the spool holds, are never at odds.
LEMMA ToldTruly == Spec => []NeverLostInv
<1>1. Init => NeverLostInv
  BY DEF Init, NeverLostInv, AcceptedIsNeverLost, OkMeansPaper, Range, Idle
<1>2. ASSUME TypeOK, NeverLostInv, [Next]_vars, TypeOK' PROVE NeverLostInv'
  <2>. USE <1>2
  <2>1. CASE Calls
    BY <2>1, CallsKeep DEF NeverLostInv, OkMeansPaper
  <2>2. CASE \E p \in Printers : Worker(p)
    BY <2>2, WorkerKeeps
  <2>3. CASE SendThread
    BY <2>3, SendKeeps
  <2>4. CASE Shutdown \/ Start \/ UNCHANGED vars
    <3>1. UNCHANGED <<row, created, dismissed, papers, worker>>
      BY <2>4 DEF Shutdown, Start, vars, queueVars, historyVars
    <3>. QED  BY <3>1 DEF NeverLostInv, AcceptedIsNeverLost, OkMeansPaper
  <2>5. CASE Exit \/ Crash
    <3>1. UNCHANGED <<row, created, dismissed, papers>>
      BY <2>5 DEF Exit, Crash, PowerOff, historyVars
    <3>2. \A p \in Printers : worker'[p].answer = "none"
      BY <2>5 DEF Exit, Crash, PowerOff, Idle
    <3>. QED  BY <3>1, <3>2 DEF NeverLostInv, AcceptedIsNeverLost, OkMeansPaper
  <2>. QED  BY <2>1, <2>2, <2>3, <2>4, <2>5 DEF Next
<1>. QED  BY <1>1, <1>2, TypeCorrect, PTL DEF Spec

\* Whatever crashes, hangs or is retried, a job billing was told is queued is
\* in the spool until it has been on paper or a person dismissed it.
THEOREM NeverLost == Spec => []AcceptedIsNeverLost
<1>1. NeverLostInv => AcceptedIsNeverLost
  BY DEF NeverLostInv
<1>. QED  BY <1>1, ToldTruly, PTL

-----------------------------------------------------------------------------
(* A dismissed job stays out of the spool.  Updates leave a missing row      *)
(* alone, Retry refuses it, and only a job never queued before gets a new    *)
(* row, which is why nothing in the queue may be about an unknown job.       *)

\* An update brings no row back.
LEMMA UpdatedKeepsAbsence ==
  ASSUME TypeOK, NEW j \in Jobs, NEW state, NEW k \in Jobs,
         Updated(row, j, state)[k] # "none"
  PROVE  row[k] # "none"
BY DEF Updated, TypeOK

\* What dispatching and popping do to the known jobs.
LEMMA DispatchKnown ==
  ASSUME TypeOK, OnlyKnown, NEW j \in Known, j \in Jobs, Dispatch(j)
  PROVE  \A p \in Printers : Range(waiting'[p]) \subseteq Known
<1>. SUFFICES ASSUME NEW p \in Printers PROVE Range(waiting'[p]) \subseteq Known
  OBVIOUS
<1>1. waiting[p] \in Seq(Jobs) /\ Range(waiting[p]) \subseteq Known
  BY DEF TypeOK, OnlyKnown
<1>2. waiting'[p] = waiting[p] \/ waiting'[p] = Append(waiting[p], j)
  BY DEF Dispatch, TypeOK
<1>3. Range(Append(waiting[p], j)) = Range(waiting[p]) \cup {j}
  BY <1>1, AppendRange
<1>. QED  BY <1>1, <1>2, <1>3

\* No call brings a dismissed job back, or puts an unknown one anywhere.
LEMMA CallsStayOut ==
  ASSUME TypeOK, StaysOutInv, Calls
  PROVE  StaysOutInv'
<1>. USE DEF StaysOutInv
<1>0. Known \subseteq Jobs
  BY ElementOfSeq, LenProperties DEF TypeOK, Known, Range
<1>1. ASSUME NEW j \in Jobs, EnqueueSave(j) PROVE StaysOutInv'
  <2>1. Known' = Known \cup {j} /\ j \notin Known
    BY <1>1, AppendRange DEF EnqueueSave, TypeOK, Known
  <2>2. \A k \in Jobs \ {j} : row'[k] = row[k]
    BY <1>1 DEF EnqueueSave, TypeOK
  <2>3. DismissedStaysOut'
    BY <1>0, <1>1, <2>1, <2>2 DEF EnqueueSave, DismissedStaysOut, OnlyKnown, TypeOK
  <2>4. op'.todo = {j}
    BY <1>1 DEF EnqueueSave, Begins
  <2>. QED
    BY <1>1, <2>1, <2>2, <2>3, <2>4 DEF EnqueueSave, OnlyKnown
<1>2. ASSUME UNCHANGED <<row, worker, created, dismissed>>,
             \A j \in Jobs : status'[j] # "none" => status[j] # "none" \/ j \in Known,
             \A p \in Printers : Range(waiting'[p]) \subseteq Known,
             op'.todo \subseteq Known
      PROVE  StaysOutInv'
  BY <1>2 DEF DismissedStaysOut, OnlyKnown, Known
<1>3. ASSUME NEW j \in Jobs, EnqueueDispatch(j) \/ ResumeRest(j) PROVE StaysOutInv'
  <2>1. j \in Known
    BY <1>3 DEF EnqueueDispatch, ResumeRest, NextUrgent, OnlyKnown
  <2>2. \A p \in Printers : Range(waiting'[p]) \subseteq Known
    BY <1>3, <2>1, DispatchKnown DEF EnqueueDispatch, ResumeRest
  <2>3. op'.todo \subseteq op.todo
    BY <1>3 DEF EnqueueDispatch, ResumeRest, Goes, NoOp
  <2>4. \A k \in Jobs : status'[k] # "none" => status[k] # "none" \/ k = j
    BY <1>3 DEF EnqueueDispatch, ResumeRest, TypeOK
  <2>5. UNCHANGED <<row, worker, created, dismissed>>
    BY <1>3 DEF EnqueueDispatch, ResumeRest, historyVars
  <2>. QED  BY <1>2, <2>1, <2>2, <2>3, <2>4, <2>5 DEF OnlyKnown
<1>4. ASSUME NEW todo \in SUBSET Jobs, AskRetry(todo) \/ AskDismiss(todo)
      PROVE  StaysOutInv'
  <2>1. todo \subseteq Known
    BY <1>4 DEF AskRetry, AskDismiss, OnlyKnown
  <2>2. UNCHANGED <<row, worker, created, dismissed, status, waiting>>
    BY <1>4 DEF AskRetry, AskDismiss, historyVars
  <2>3. op'.todo = todo
    BY <1>4 DEF AskRetry, AskDismiss, Begins
  <2>. QED  BY <1>2, <2>1, <2>2, <2>3 DEF OnlyKnown
<1>5. ASSUME NEW j \in Jobs, RetryRefused(j) \/ DismissMark(j) \/ DismissFails(j)
      PROVE  StaysOutInv'
  <2>1. UNCHANGED <<row, worker, created, dismissed, status, waiting>>
    BY <1>5 DEF RetryRefused, DismissMark, DismissFails, Refused, historyVars
  <2>2. op'.todo \subseteq op.todo
    BY <1>5 DEF RetryRefused, DismissMark, DismissFails, Begins, NoOp
  <2>. QED  BY <1>2, <2>1, <2>2 DEF OnlyKnown
<1>6. ASSUME NEW j \in Jobs, RetryNext(j) PROVE StaysOutInv'
  <2>1. j \in Known /\ row[j] # "none"
    BY <1>6 DEF RetryNext, NextOf, OnlyKnown
  <2>2. \A k \in Jobs \ {j} : row'[k] = row[k] /\ status'[k] = status[k]
    <3>1. row' = row \/ row' = [row EXCEPT ![j] = "pending"]
      BY <1>6 DEF RetryNext, Tried, Refused
    <3>. QED  BY <1>6, <3>1 DEF RetryNext, TypeOK
  <2>3. \A p \in Printers : Range(waiting'[p]) \subseteq Known
    BY <1>6, <2>1, DispatchKnown DEF RetryNext
  <2>4. UNCHANGED <<worker, created, dismissed>> /\ op'.todo \subseteq op.todo
    BY <1>6 DEF RetryNext, Goes, NoOp
  <2>5. DismissedStaysOut'
    BY <2>1, <2>2, <2>4 DEF DismissedStaysOut, TypeOK
  <2>. QED  BY <2>1, <2>2, <2>3, <2>4, <2>5 DEF OnlyKnown, Known
<1>7. ASSUME NEW j \in Jobs, DismissRemove(j) PROVE StaysOutInv'
  <2>1. j \in Known
    BY <1>7 DEF DismissRemove, NextOf, OnlyKnown
  <2>2. /\ row'[j] = "none"
        /\ \A k \in Jobs \ {j} : row'[k] = row[k] /\ status'[k] = status[k]
    BY <1>7 DEF DismissRemove, TypeOK
  <2>3. UNCHANGED <<worker, created, waiting>> /\ op'.todo \subseteq op.todo
    BY <1>7 DEF DismissRemove, Goes, NoOp
  <2>4. dismissed' = dismissed \cup {j} /\ dismissed \subseteq Jobs
    BY <1>7 DEF DismissRemove, TypeOK
  <2>. QED
    BY <2>1, <2>2, <2>3, <2>4 DEF DismissedStaysOut, OnlyKnown, Known
<1>8. ASSUME NEW j \in Jobs, ResumeCut(j) PROVE StaysOutInv'
  <2>1. j \in Known
    BY <1>8 DEF ResumeCut, NextUrgent, OnlyKnown
  <2>2. /\ \A k \in Jobs : row'[k] # "none" => row[k] # "none"
        /\ \A k \in Jobs \ {j} : status'[k] = status[k]
    <3>1. row' = row \/ row' = Updated(row, j, "parked")
      BY <1>8, ParkType DEF ResumeCut
    <3>2. \A k \in Jobs : row'[k] # "none" => row[k] # "none"
      BY <3>1, UpdatedKeepsAbsence
    <3>3. status' = [status EXCEPT ![j] = "parked"]
      BY <1>8 DEF ResumeCut, Park
    <3>. QED  BY <3>2, <3>3 DEF TypeOK
  <2>3. UNCHANGED <<worker, created, waiting, dismissed>> /\ op'.todo \subseteq op.todo
    BY <1>8 DEF ResumeCut, Goes, NoOp, historyVars
  <2>4. DismissedStaysOut'
    BY <2>2, <2>3 DEF DismissedStaysOut, TypeOK
  <2>. QED  BY <2>1, <2>2, <2>3, <2>4 DEF OnlyKnown, Known
<1>9. CASE RetryOne \/ RetryParked \/ DismissOne \/ DismissAll
  <2>1. \E todo \in SUBSET Jobs : AskRetry(todo) \/ AskDismiss(todo)
    <3>1. \A j \in Jobs : {j} \in SUBSET Jobs
      OBVIOUS
    <3>. QED
      BY <1>9, <3>1 DEF RetryOne, RetryParked, DismissOne, DismissAll
  <2>. QED  BY <1>4, <2>1
<1>. QED
  BY <1>1, <1>3, <1>5, <1>6, <1>7, <1>8, <1>9 DEF Calls, CallGoesOn

\* Nor does a worker.
LEMMA WorkerStaysOut ==
  ASSUME TypeOK, StaysOutInv, NEW p \in Printers, Worker(p)
  PROVE  StaysOutInv'
<1>. USE DEF StaysOutInv
<1>1. UNCHANGED <<op, created, dismissed>>
  BY DEF Worker, Take, WorkerStops, CheckBefore, Begin, Deadline, CheckAfter,
         SettlePrinted, SettleParked, SettleFailed, Wake, historyVars
<1>2. ASSUME NEW j \in Known, j \in Jobs,
             \A k \in Jobs : row'[k] # "none" => row[k] # "none",
             \A k \in Jobs \ {j} : status'[k] = status[k],
             \A q \in Printers : worker'[q].job \in Known \cup {NoJob},
             \A q \in Printers : Range(waiting'[q]) \subseteq Known
      PROVE  StaysOutInv'
  BY <1>1, <1>2 DEF DismissedStaysOut, OnlyKnown, Known, TypeOK
<1>3. CASE Take(p)
  <2>1. PICK i \in DOMAIN waiting[p] :
          /\ waiting' = [waiting EXCEPT ![p] = RemoveAt(@, i)]
          /\ \/ Park(waiting[p][i]) /\ UNCHANGED worker
             \/ /\ worker' = [worker EXCEPT ![p] =
                     [Idle EXCEPT !.at = "ready", !.job = waiting[p][i]]]
                /\ UNCHANGED <<row, status>>
    BY <1>3 DEF Take
  <2>. DEFINE j == waiting[p][i]
  <2>2. waiting[p] \in Seq(Jobs) /\ Range(waiting[p]) \subseteq Known
    BY DEF TypeOK, OnlyKnown
  <2>3. j \in Known /\ j \in Jobs
    BY <2>2, ElementOfSeq, LenProperties DEF Range
  <2>4. \A q \in Printers : Range(waiting'[q]) \subseteq Known
    <3>1. Range(RemoveAt(waiting[p], i)) \subseteq Known
      BY <2>2, RemoveAtType
    <3>. QED  BY <2>1, <3>1 DEF OnlyKnown, TypeOK
  <2>5. [Idle EXCEPT !.at = "ready", !.job = j].job = j
    BY DEF Idle
  <2>6. \A q \in Printers : worker'[q].job \in Known \cup {NoJob}
    BY <2>1, <2>3, <2>5 DEF OnlyKnown, TypeOK
  <2>7. \A k \in Jobs : row'[k] # "none" => row[k] # "none"
    <3>. HIDE DEF j
    <3>1. row' = row \/ row' = Updated(row, j, "parked")
      BY <2>1, <2>3, ParkType DEF j
    <3>. QED  BY <2>3, <3>1, UpdatedKeepsAbsence
  <2>8. \A k \in Jobs \ {j} : status'[k] = status[k]
    BY <2>1 DEF Park, TypeOK
  <2>. QED  BY <1>2, <2>3, <2>4, <2>6, <2>7, <2>8
<1>4. CASE WorkerStops(p)
  <2>1. UNCHANGED <<row, status>> /\ worker'[p].job = worker[p].job
    BY <1>4 DEF WorkerStops, TypeOK, InHandType
  <2>2. /\ \A q \in Printers : worker'[q].job = worker[q].job
        /\ \A q \in Printers : waiting'[q] = waiting[q] \/ waiting'[q] = <<>>
    BY <1>4, <2>1 DEF WorkerStops, TypeOK
  <2>3. Range(<<>>) = {}
    BY DEF Range
  <2>. QED  BY <1>1, <2>1, <2>2, <2>3 DEF DismissedStaysOut, OnlyKnown, Known
<1>5. CASE ~Take(p) /\ ~WorkerStops(p)
  <2>. DEFINE j == worker[p].job
  <2>1. j \in Jobs /\ j \in Known
    <3>1. worker[p].at \notin {"idle", "stopped"}
      BY <1>5
      DEF Worker, CheckBefore, Begin, Deadline, CheckAfter, SettlePrinted,
          SettleParked, SettleFailed, Wake
    <3>2. worker[p].job \in Jobs /\ worker[p].job \in Known \cup {NoJob}
      BY <3>1 DEF TypeOK, OnlyKnown
    <3>. QED  BY <3>2, PrintersAssumption
  <2>2. UNCHANGED waiting
    BY <1>5 DEF Worker, CheckBefore, Begin, Deadline, CheckAfter, SettlePrinted,
                SettleParked, SettleFailed, Wake
  <2>3. /\ \/ row' = row \/ row' = [row EXCEPT ![j] = "none"]
           \/ \E state : row' = Updated(row, j, state)
        /\ \/ status' = status
           \/ \E state : status' = [status EXCEPT ![j] = state]
    BY <1>5 DEF Worker, CheckBefore, Begin, Deadline, CheckAfter, SettlePrinted,
                SettleParked, SettleFailed, Wake, Park, Tried, Refused
  <2>4. ASSUME NEW k \in Jobs, row'[k] # "none" PROVE row[k] # "none"
    <3>1. CASE row' = row \/ row' = [row EXCEPT ![j] = "none"]
      BY <2>4, <3>1 DEF TypeOK
    <3>2. ASSUME NEW state, row' = Updated(row, j, state) PROVE row[k] # "none"
      BY <2>1, <2>4, <3>2, UpdatedKeepsAbsence
    <3>. QED  BY <2>3, <3>1, <3>2
  <2>5. \A k \in Jobs \ {j} : status'[k] = status[k]
    BY <2>3 DEF TypeOK
  <2>6. worker[p] \in InHandType /\ DOMAIN worker = Printers
    BY DEF TypeOK
  <2>7. worker'[p].job \in {j, NoJob} /\ \A q \in Printers \ {p} : worker'[q] = worker[q]
    <3>1. CASE CheckBefore(p) \/ CheckAfter(p)
      BY <2>6, <3>1, IdleType DEF CheckBefore, CheckAfter, InHandType
    <3>2. CASE Begin(p)
      <4>1. \/ \E n : worker' = [worker EXCEPT ![p].at = "send", ![p].send = n,
                                               ![p].answer = "none"]
            \/ worker' = [worker EXCEPT ![p].at = "answered",
                                       ![p].answer = "transient"]
        BY <3>2 DEF Begin
      <4>. QED  BY <2>6, <4>1 DEF InHandType
    <3>3. CASE Deadline(p)
      BY <2>6, <3>3 DEF Deadline, InHandType
    <3>4. CASE SettlePrinted(p) \/ SettleParked(p)
      BY <2>6, <3>4, IdleType DEF SettlePrinted, SettleParked
    <3>5. CASE SettleFailed(p) \/ Wake(p)
      BY <2>6, <3>5 DEF SettleFailed, Wake, InHandType
    <3>. QED  BY <1>5, <3>1, <3>2, <3>3, <3>4, <3>5 DEF Worker
  <2>8. \A q \in Printers : worker'[q].job \in Known \cup {NoJob}
    BY <2>1, <2>7 DEF OnlyKnown
  <2>. QED  BY <1>2, <2>1, <2>2, <2>4, <2>5, <2>8 DEF OnlyKnown
<1>. QED  BY <1>3, <1>4, <1>5

\* Nor does a send.
LEMMA SendStaysOut ==
  ASSUME TypeOK, StaysOutInv, SendThread
  PROVE  StaysOutInv'
<1>1. UNCHANGED <<row, status, waiting, op, created, dismissed>>
  BY DEF SendThread, Opened, OpenFailed, Written, historyVars
<1>2. ASSUME NEW p \in Printers PROVE worker'[p].job = worker[p].job
  <2>1. \/ worker'[p] = worker[p]
        \/ \E a : worker'[p] = [worker[p] EXCEPT !.at = "answered", !.answer = a]
    BY DEF SendThread, Opened, OpenFailed, Written, Answered, historyVars
  <2>2. worker[p] \in InHandType
    BY DEF TypeOK
  <2>. QED  BY <2>1, <2>2 DEF InHandType
<1>. QED
  BY <1>1, <1>2 DEF StaysOutInv, DismissedStaysOut, OnlyKnown, Known

\* Nothing is about an unknown job, and a dismissed one has no row.
LEMMA OnlyTheKnown == Spec => []StaysOutInv
<1>1. Init => StaysOutInv
  BY DEF Init, StaysOutInv, DismissedStaysOut, OnlyKnown, Known, Range, Idle, NoOp
<1>2. ASSUME TypeOK, StaysOutInv, [Next]_vars PROVE StaysOutInv'
  <2>. USE <1>2
  <2>1. CASE Calls
    BY <2>1, CallsStayOut
  <2>2. CASE \E p \in Printers : Worker(p)
    BY <2>2, WorkerStaysOut
  <2>3. CASE SendThread
    BY <2>3, SendStaysOut
  <2>4. CASE Shutdown \/ UNCHANGED vars
    <3>1. UNCHANGED <<row, status, waiting, worker, op, created, dismissed>>
      BY <2>4 DEF Shutdown, vars, queueVars, historyVars
    <3>. QED  BY <3>1 DEF StaysOutInv, DismissedStaysOut, OnlyKnown, Known
  <2>5. CASE Exit \/ Crash
    <3>1. PowerOff
      BY <2>5 DEF Exit, Crash
    <3>2. /\ UNCHANGED <<row, created, dismissed>> /\ op'.todo = {}
          /\ \A p \in Printers : waiting'[p] = <<>> /\ worker'[p].job = NoJob
          /\ \A j \in Jobs : status'[j] = "none"
      BY <3>1, IdleType DEF PowerOff, historyVars, NoOp
    <3>3. Range(<<>>) = {}
      BY DEF Range
    <3>. QED  BY <3>2, <3>3 DEF StaysOutInv, DismissedStaysOut, OnlyKnown, Known
  <2>6. CASE Start
    <3>1. UNCHANGED <<row, status, waiting, worker, created, dismissed>>
      BY <2>6 DEF Start
    <3>2. op'.todo \subseteq {j \in Jobs : row[j] # "none"}
      BY <2>6 DEF Start, Goes, NoOp
    <3>. QED  BY <3>1, <3>2 DEF StaysOutInv, DismissedStaysOut, OnlyKnown, Known
  <2>. QED  BY <2>1, <2>2, <2>3, <2>4, <2>5, <2>6 DEF Next
<1>. QED  BY <1>1, <1>2, TypeCorrect, PTL DEF Spec

\* A worker that settles a job after a person dismissed it, and an update that
\* arrives late, never bring its row back.
THEOREM DismissedForGood == Spec => []DismissedStaysOut
<1>1. StaysOutInv => DismissedStaysOut
  BY DEF StaysOutInv
<1>. QED  BY <1>1, OnlyTheKnown, PTL

-----------------------------------------------------------------------------
(* Where a job is.  A job waits, or is in its worker's hands, or is about to *)
(* be put in, or is shown as parked: never two of these, never twice in the  *)
(* queue, and never with a worker other than its printer's.                  *)

\* A queue and a worker hold only the jobs of their printer.
AtItsPrinter ==
  /\ \A p \in Printers : \A j \in Range(waiting[p]) : PrinterOf[j] = p
  /\ \A p \in Printers : worker[p].job # NoJob => PrinterOf[worker[p].job] = p
  /\ \A p \in Printers :
       worker[p].at \in {"idle", "stopped"} => worker[p].job = NoJob

\* With the program down nothing is in memory.
AsleepIsEmpty ==
  phase = "down" =>
    /\ op = NoOp /\ \A j \in Jobs : status[j] = "none"
    /\ \A p \in Printers : waiting[p] = <<>> /\ worker[p] = Idle

\* No queue holds a job twice.
QueuedOnce == \A p \in Printers : \A i, k \in DOMAIN waiting[p] :
                waiting[p][i] = waiting[p][k] => i = k

\* A job is in a queue, in a hand, about to be put in, or parked.
OnePlace ==
  /\ \A j \in Jobs : Queued(j) => ~InHand(j)
  /\ \A j \in Jobs : BeingPutIn(j) \/ status[j] = "parked" => ~Queued(j) /\ ~InHand(j)
  /\ op.call = "retry" => \A j \in op.todo : status[j] = "parked"

Places == AtItsPrinter /\ AsleepIsEmpty /\ QueuedOnce /\ OnePlace

\* The queue of a printer holds jobs, and a job in hand is a job.
LEMMA QueueOfJobs ==
  ASSUME TypeOK
  PROVE  /\ \A p \in Printers : /\ waiting[p] \in Seq(Jobs)
                                /\ Range(waiting[p]) \subseteq Jobs
         /\ NoJob \notin Jobs
         /\ Known \subseteq Jobs
<1>1. \A s \in Seq(Jobs) : Range(s) \subseteq Jobs
  BY ElementOfSeq, LenProperties DEF Range
<1>. QED  BY <1>1, PrintersAssumption DEF TypeOK, Known

\* What a worker's step may do, but for taking a job and for stopping: it keeps
\* its job or lets go of it, and only the job it had changes on the screen.
LEMMA WorkerGoesOn ==
  ASSUME TypeOK, NEW p \in Printers, Worker(p), ~Take(p), ~WorkerStops(p)
  PROVE  /\ UNCHANGED <<phase, waiting, op, created, dismissed, papers, retries,
                        revived, starts>>
         /\ worker[p].at \notin {"idle", "stopped"} /\ worker[p].job \in Jobs
         /\ \A q \in Printers \ {p} : worker'[q] = worker[q]
         /\ \/ worker'[p] = Idle
            \/ /\ worker'[p].job = worker[p].job
               /\ worker'[p].at \notin {"idle", "stopped"}
         /\ \A j \in Jobs \ {worker[p].job} : row'[j] = row[j] /\ status'[j] = status[j]
         /\ status'[worker[p].job] = "parked" =>
              status[worker[p].job] = "parked" \/ worker'[p] = Idle
<1>1. worker[p] \in InHandType /\ DOMAIN worker = Printers
  BY DEF TypeOK
<1>2. /\ worker[p].at \notin {"idle", "stopped"}
      /\ UNCHANGED <<phase, waiting, op, created, dismissed, papers, retries,
                     revived, starts>>
  BY DEF Worker, CheckBefore, Begin, Deadline, CheckAfter, SettlePrinted,
         SettleParked, SettleFailed, Wake, historyVars
<1>3. worker[p].job \in Jobs
  BY <1>2 DEF TypeOK
<1>4. CASE CheckBefore(p) \/ CheckAfter(p) \/ Deadline(p) \/ Wake(p)
  <2>1. row' = row /\ status' = status
    BY <1>4 DEF CheckBefore, CheckAfter, Deadline, Wake
  <2>2. /\ \A q \in Printers \ {p} : worker'[q] = worker[q]
        /\ \/ worker'[p] = Idle
           \/ /\ worker'[p].job = worker[p].job
              /\ worker'[p].at \notin {"idle", "stopped"}
    BY <1>1, <1>4 DEF CheckBefore, CheckAfter, Deadline, Wake, InHandType
  <2>. QED  BY <1>2, <1>3, <2>1, <2>2
<1>5. CASE Begin(p)
  <2>1. \/ worker' = [worker EXCEPT ![p].at = "send", ![p].send = started[worker[p].job] + 1,
                                    ![p].answer = "none"]
        \/ worker' = [worker EXCEPT ![p].at = "answered", ![p].answer = "transient"]
    BY <1>5 DEF Begin
  <2>2. /\ \A q \in Printers \ {p} : worker'[q] = worker[q]
        /\ worker'[p].job = worker[p].job /\ worker'[p].at \notin {"idle", "stopped"}
    BY <1>1, <2>1 DEF InHandType
  <2>3. /\ \A j \in Jobs \ {worker[p].job} : row'[j] = row[j] /\ status'[j] = status[j]
        /\ status'[worker[p].job] = "printing"
    <3>1. row' = row \/ row' = Updated(row, worker[p].job, "printing")
      BY <1>5 DEF Begin, Tried, Refused
    <3>. QED  BY <1>3, <1>5, <3>1, UpdatedType DEF Begin, TypeOK, RowState
  <2>. QED  BY <1>2, <1>3, <2>2, <2>3
<1>6. CASE SettlePrinted(p) \/ SettleParked(p)
  <2>1. \A q \in Printers : worker'[q] = IF q = p THEN Idle ELSE worker[q]
    BY <1>1, <1>6 DEF SettlePrinted, SettleParked
  <2>2. \A j \in Jobs \ {worker[p].job} : row'[j] = row[j] /\ status'[j] = status[j]
    <3>1. \/ row' = row \/ row' = Updated(row, worker[p].job, "parked")
          \/ row' = [row EXCEPT ![worker[p].job] = "none"]
      BY <1>6 DEF SettlePrinted, SettleParked, Park, Tried, Refused
    <3>2. \A j \in Jobs \ {worker[p].job} : row'[j] = row[j]
      BY <3>1 DEF Updated, TypeOK
    <3>. QED  BY <1>6, <3>2 DEF SettlePrinted, SettleParked, Park, TypeOK
  <2>. QED  BY <1>2, <1>3, <2>1, <2>2
<1>7. CASE SettleFailed(p)
  <2>1. /\ \A q \in Printers \ {p} : worker'[q] = worker[q]
        /\ worker'[p].job = worker[p].job /\ worker'[p].at \notin {"idle", "stopped"}
    BY <1>1, <1>7 DEF SettleFailed, InHandType
  <2>2. /\ \A j \in Jobs \ {worker[p].job} : row'[j] = row[j] /\ status'[j] = status[j]
        /\ status'[worker[p].job] = "failed"
    <3>1. row' = row \/ row' = Updated(row, worker[p].job, "failed")
      BY <1>7 DEF SettleFailed, Tried, Refused
    <3>2. \A j \in Jobs \ {worker[p].job} : row'[j] = row[j]
      BY <3>1 DEF Updated, TypeOK
    <3>3. status' = [status EXCEPT ![worker[p].job] = "failed"]
      BY <1>7 DEF SettleFailed
    <3>. QED  BY <1>3, <3>2, <3>3 DEF TypeOK
  <2>. QED  BY <1>2, <1>3, <2>1, <2>2
<1>. QED  BY <1>4, <1>5, <1>6, <1>7 DEF Worker

\* Taking a job: the most urgent ticket, and what becomes of its job.
LEMMA TakenTicket ==
  ASSUME TypeOK, NEW p \in Printers, Take(p)
  PROVE  \E i \in DOMAIN waiting[p] :
           /\ Pops(waiting[p], i) /\ waiting[p][i] \in Jobs
           /\ waiting' = [waiting EXCEPT ![p] = RemoveAt(waiting[p], i)]
           /\ \A q \in Printers \ {p} : worker'[q] = worker[q]
           /\ \/ /\ waiting[p][i] \in Unreadable
                 /\ Park(waiting[p][i]) /\ UNCHANGED worker
              \/ /\ waiting[p][i] \notin Unreadable
                 /\ worker'[p].job = waiting[p][i] /\ worker'[p].at = "ready"
                 /\ UNCHANGED <<row, status, faultVars>>
<1>1. PICK i \in DOMAIN waiting[p] :
        /\ Pops(waiting[p], i)
        /\ waiting' = [waiting EXCEPT ![p] = RemoveAt(@, i)]
        /\ LET j == waiting[p][i]
           IN IF j \in Unreadable
              THEN Park(j) /\ UNCHANGED worker
              ELSE /\ worker' = [worker EXCEPT ![p] =
                                   [Idle EXCEPT !.at = "ready", !.job = j]]
                   /\ UNCHANGED <<row, status, faultVars>>
  BY DEF Take
<1>2. waiting[p][i] \in Jobs
  BY <1>1, ElementOfSeq, LenProperties DEF TypeOK
<1>3. waiting' = [waiting EXCEPT ![p] = RemoveAt(waiting[p], i)]
  BY <1>1
<1>4. DOMAIN worker = Printers
  BY DEF TypeOK
<1>5. /\ [Idle EXCEPT !.at = "ready", !.job = waiting[p][i]].job = waiting[p][i]
      /\ [Idle EXCEPT !.at = "ready", !.job = waiting[p][i]].at = "ready"
  BY DEF Idle
<1>6. CASE waiting[p][i] \in Unreadable
  BY <1>1, <1>2, <1>3, <1>6
<1>7. CASE waiting[p][i] \notin Unreadable
  <2>1. /\ \A q \in Printers \ {p} : worker'[q] = worker[q]
        /\ worker'[p] = [Idle EXCEPT !.at = "ready", !.job = waiting[p][i]]
    BY <1>1, <1>4, <1>7
  <2>. QED  BY <1>1, <1>2, <1>3, <1>5, <1>7, <2>1
<1>. QED  BY <1>6, <1>7

\* A send's answer makes its worker go on with the job it has.
LEMMA SendGoesOn ==
  ASSUME TypeOK, SendThread
  PROVE  /\ UNCHANGED <<phase, row, status, waiting, op, cancelled, created, dismissed,
                        retries, revived, starts, faults, unwritten>>
         /\ \A p \in Printers :
              \/ worker'[p] = worker[p]
              \/ /\ worker[p].at = "send" /\ worker'[p].at = "answered"
                 /\ worker'[p].job = worker[p].job
<1>1. UNCHANGED <<phase, row, status, waiting, op, cancelled, created, dismissed,
                  retries, revived, starts, faults, unwritten>>
  BY DEF SendThread, Opened, OpenFailed, Written, historyVars
<1>2. ASSUME NEW p \in Printers
      PROVE  \/ worker'[p] = worker[p]
             \/ /\ worker[p].at = "send" /\ worker'[p].at = "answered"
                /\ worker'[p].job = worker[p].job
  <2>1. \/ worker'[p] = worker[p]
        \/ /\ worker[p].at = "send"
           /\ \E a : worker'[p] = [worker[p] EXCEPT !.at = "answered", !.answer = a]
    BY DEF SendThread, Opened, OpenFailed, Written, Answered, AwaitedBy, historyVars
  <2>2. worker[p] \in InHandType
    BY DEF TypeOK
  <2>. QED  BY <2>1, <2>2 DEF InHandType
<1>. QED  BY <1>1, <1>2

\* Dispatching puts a job at the end of its printer's queue.
LEMMA Dispatched ==
  ASSUME TypeOK, NEW j \in Jobs, Dispatch(j)
  PROVE  /\ waiting' = [waiting EXCEPT ![PrinterOf[j]] = Append(waiting[PrinterOf[j]], j)]
         /\ \A p \in Printers : Range(waiting'[p]) =
              IF p = PrinterOf[j] THEN Range(waiting[p]) \cup {j} ELSE Range(waiting[p])
         /\ \A k : Queued(k)' <=> Queued(k) \/ k = j
<1>1. PrinterOf[j] \in Printers
  BY PrintersAssumption
<1>2. DOMAIN waiting = Printers /\ \A p \in Printers : waiting[p] \in Seq(Jobs)
  BY DEF TypeOK
<1>3. waiting' = [waiting EXCEPT ![PrinterOf[j]] = Append(waiting[PrinterOf[j]], j)]
  BY DEF Dispatch
<1>4. ASSUME NEW p \in Printers
      PROVE  Range(waiting'[p]) =
               IF p = PrinterOf[j] THEN Range(waiting[p]) \cup {j} ELSE Range(waiting[p])
  <2>1. waiting'[p] = IF p = PrinterOf[j] THEN Append(waiting[p], j) ELSE waiting[p]
    BY <1>2, <1>3
  <2>2. Range(Append(waiting[p], j)) = Range(waiting[p]) \cup {j}
    BY <1>2, AppendRange
  <2>. QED  BY <2>1, <2>2
<1>5. ASSUME NEW k PROVE Queued(k)' <=> Queued(k) \/ k = j
  BY <1>1, <1>4 DEF Queued
<1>. QED  BY <1>3, <1>4, <1>5

\* While the program is down, only its start changes anything in memory.
LEMMA AsleepHolds ==
  ASSUME TypeOK, AsleepIsEmpty, [Next]_vars
  PROVE  AsleepIsEmpty'
<1>1. CASE phase # "down" /\ phase' = "down"
  <2>1. PowerOff
    <3>1. ASSUME NEW p \in Printers, Worker(p) PROVE phase' = phase
      BY <3>1 DEF Worker, Take, WorkerStops, CheckBefore, Begin, Deadline, CheckAfter,
                  SettlePrinted, SettleParked, SettleFailed, Wake
    <3>2. ASSUME Calls PROVE phase' = phase
      BY <3>2
      DEF Calls, CallGoesOn, EnqueueSave, EnqueueDispatch, RetryOne, RetryParked, AskRetry,
          RetryNext, RetryRefused, DismissOne, DismissAll, AskDismiss, DismissMark,
          DismissRemove, DismissFails, ResumeCut, ResumeRest
    <3>3. ~Shutdown /\ ~Start /\ ~UNCHANGED vars
      BY <1>1 DEF Shutdown, Start, vars, queueVars
    <3>4. ASSUME SendThread PROVE phase' = phase
      BY <3>4, SendGoesOn
    <3>. QED  BY <1>1, <3>1, <3>2, <3>3, <3>4 DEF Next, Exit, Crash
  <2>. QED  BY <2>1 DEF PowerOff, AsleepIsEmpty
<1>2. CASE phase = "down" /\ phase' = "down"
  <2>1. op = NoOp /\ \A p \in Printers : worker[p].at = "idle"
    BY <1>2, IdleType DEF AsleepIsEmpty
  <2>2. UNCHANGED <<op, status, waiting>> /\ \A p \in Printers : worker'[p] = worker[p]
    <3>1. ASSUME NEW p \in Printers, Worker(p) PROVE FALSE
      BY <1>2, <2>1, <3>1
      DEF Worker, Take, WorkerStops, CheckBefore, Begin, Deadline, CheckAfter,
          SettlePrinted, SettleParked, SettleFailed, Wake
    <3>2. ASSUME Calls PROVE FALSE
      BY <1>2, <2>1, <3>2
      DEF Calls, CallGoesOn, EnqueueSave, EnqueueDispatch, RetryOne, RetryParked, AskRetry,
          RetryNext, RetryRefused, DismissOne, DismissAll, AskDismiss, DismissMark,
          DismissRemove, DismissFails, ResumeCut, ResumeRest, NoOp
    <3>3. ~Shutdown /\ ~Exit /\ ~Crash /\ ~Start
      BY <1>2 DEF Shutdown, Exit, Crash, Start
    <3>4. CASE SendThread
      BY <2>1, <3>4, SendGoesOn
    <3>5. CASE UNCHANGED vars
      BY <3>5 DEF vars, queueVars
    <3>. QED  BY <3>1, <3>2, <3>3, <3>4, <3>5 DEF Next
  <2>. QED  BY <1>2, <2>2 DEF AsleepIsEmpty
<1>. QED  BY <1>1, <1>2 DEF AsleepIsEmpty

\* Nothing moves: the queues and the hands are what they were.
LEMMA NothingMoves ==
  ASSUME TypeOK, Places, waiting' = waiting,
         \A p \in Printers : worker'[p].job = worker[p].job
                             /\ (worker'[p].at \in {"idle", "stopped"}
                                   <=> worker[p].at \in {"idle", "stopped"})
  PROVE  /\ AtItsPrinter' /\ QueuedOnce'
         /\ \A j \in Jobs : Queued(j)' <=> Queued(j)
         /\ \A j \in Jobs : InHand(j)' <=> InHand(j)
<1>1. AtItsPrinter' /\ QueuedOnce' /\ \A j \in Jobs : Queued(j)' <=> Queued(j)
  BY DEF Places, AtItsPrinter, QueuedOnce, Queued
<1>2. AtItsPrinter
  BY DEF Places
<1>3. \A j \in Jobs : InHand(j) <=> \E p \in Printers : worker[p].job = j
  BY <1>2, QueueOfJobs DEF AtItsPrinter, InHand
<1>4. \A j \in Jobs : InHand(j)' <=> \E p \in Printers : worker'[p].job = j
  BY <1>1, QueueOfJobs DEF AtItsPrinter, InHand
<1>. QED  BY <1>1, <1>3, <1>4

\* A job that is nowhere is put at the end of its printer's queue.
LEMMA PutIn ==
  ASSUME TypeOK, Places, NEW j \in Jobs, ~Queued(j), Dispatch(j), worker' = worker
  PROVE  /\ AtItsPrinter' /\ QueuedOnce'
         /\ \A k \in Jobs : Queued(k)' <=> Queued(k) \/ k = j
         /\ \A k \in Jobs : InHand(k)' <=> InHand(k)
<1>. DEFINE r == PrinterOf[j]
            t == Append(waiting[r], j)
<1>1. r \in Printers /\ waiting[r] \in Seq(Jobs)
  BY PrintersAssumption DEF TypeOK
<1>2. /\ waiting' = [waiting EXCEPT ![r] = t]
      /\ \A p \in Printers : Range(waiting'[p]) =
              IF p = r THEN Range(waiting[p]) \cup {j} ELSE Range(waiting[p])
      /\ \A k : Queued(k)' <=> Queued(k) \/ k = j
  BY Dispatched
<1>3. AtItsPrinter'
  <2>1. ASSUME NEW p \in Printers, NEW k \in Range(waiting'[p]) PROVE PrinterOf[k] = p
    <3>1. k \in Range(waiting[p]) \/ (p = r /\ k = j)
      <4>1. Range(waiting'[p]) = IF p = r THEN Range(waiting[p]) \cup {j} ELSE Range(waiting[p])
        BY <1>2
      <4>. HIDE DEF r
      <4>. QED  BY <2>1, <4>1
    <3>2. \A l \in Range(waiting[p]) : PrinterOf[l] = p
      BY DEF Places, AtItsPrinter
    <3>. QED  BY <3>1, <3>2
  <2>. QED  BY <2>1 DEF Places, AtItsPrinter
<1>4. /\ DOMAIN t = 1..Len(waiting[r]) + 1 /\ DOMAIN waiting[r] = 1..Len(waiting[r])
      /\ Len(waiting[r]) \in Nat
      /\ \A i \in 1..Len(waiting[r]) : t[i] = waiting[r][i]
      /\ t[Len(waiting[r]) + 1] = j
  BY <1>1, AppendProperties, LenProperties
<1>5. \A i \in DOMAIN waiting[r] : waiting[r][i] # j
  BY <1>1 DEF Queued, Range
<1>. HIDE DEF t
<1>6. \A i, k \in DOMAIN t : t[i] = t[k] => i = k
  <2>1. \A i, k \in 1..Len(waiting[r]) : waiting[r][i] = waiting[r][k] => i = k
    BY <1>1, <1>4 DEF Places, QueuedOnce
  <2>2. \A i \in DOMAIN t : i \in 1..Len(waiting[r]) \/ i = Len(waiting[r]) + 1
    BY <1>4
  <2>. QED  BY <1>4, <1>5, <2>1, <2>2
<1>7. \A p \in Printers : waiting'[p] = IF p = r THEN t ELSE waiting[p]
  BY <1>2 DEF TypeOK
<1>8. QueuedOnce'
  BY <1>6, <1>7 DEF Places, QueuedOnce
<1>. QED  BY <1>2, <1>3, <1>8 DEF InHand

\* The calls leave a job in one place.
LEMMA CallsPlace ==
  ASSUME TypeOK, StaysOutInv, Places, Calls
  PROVE  AtItsPrinter' /\ QueuedOnce' /\ OnePlace'
<1>. USE DEF Places
<1>1. ASSUME NEW j \in Jobs, EnqueueSave(j) PROVE AtItsPrinter' /\ QueuedOnce' /\ OnePlace'
  <2>1. waiting' = waiting /\ worker' = worker /\ status' = status
    BY <1>1 DEF EnqueueSave
  <2>2. op' = [call |-> "enqueue", todo |-> {j}]
    BY <1>1 DEF EnqueueSave, Begins
  <2>3. ~Queued(j) /\ ~InHand(j)
    BY <1>1, QueueOfJobs DEF EnqueueSave, StaysOutInv, OnlyKnown, Known, Queued, InHand
  <2>4. \A k \in Jobs : BeingPutIn(k)' => k = j
    BY <2>2 DEF BeingPutIn
  <2>. QED  BY <2>1, <2>2, <2>3, <2>4, NothingMoves DEF OnePlace
<1>2. ASSUME NEW j \in Jobs, EnqueueDispatch(j) \/ ResumeRest(j)
      PROVE  AtItsPrinter' /\ QueuedOnce' /\ OnePlace'
  <2>1. BeingPutIn(j) /\ Dispatch(j) /\ worker' = worker
    BY <1>2 DEF EnqueueDispatch, ResumeRest, NextUrgent, BeingPutIn, historyVars
  <2>2. ~Queued(j) /\ ~InHand(j)
    BY <2>1 DEF OnePlace
  <2>3. \A k \in Jobs : status'[k] = IF k = j THEN "pending" ELSE status[k]
    BY <1>2 DEF EnqueueDispatch, ResumeRest, TypeOK
  <2>4. /\ op'.call # "retry"
        /\ \A k \in Jobs : BeingPutIn(k)' => k # j /\ BeingPutIn(k)
    BY <1>2 DEF EnqueueDispatch, ResumeRest, Goes, NoOp, BeingPutIn
  <2>. QED  BY <2>1, <2>2, <2>3, <2>4, PutIn DEF OnePlace
<1>3. ASSUME NEW j \in Jobs, RetryNext(j) PROVE AtItsPrinter' /\ QueuedOnce' /\ OnePlace'
  <2>1. /\ op.call = "retry" /\ j \in op.todo /\ Dispatch(j) /\ worker' = worker
    BY <1>3 DEF RetryNext, NextOf
  <2>2. status[j] = "parked" /\ ~Queued(j) /\ ~InHand(j)
    BY <2>1 DEF OnePlace
  <2>3. \A k \in Jobs : status'[k] = IF k = j THEN "pending" ELSE status[k]
    BY <1>3 DEF RetryNext, TypeOK
  <2>4. /\ \A k \in Jobs : ~BeingPutIn(k)'
        /\ op'.call = "retry" => op'.todo = op.todo \ {j}
    BY <1>3 DEF RetryNext, Goes, NoOp, BeingPutIn
  <2>5. op.todo \subseteq Jobs
    BY OpType
  <2>6. op'.call = "retry" => \A k \in op'.todo : status'[k] = "parked"
    BY <2>1, <2>3, <2>4, <2>5 DEF OnePlace
  <2>. QED  BY <2>1, <2>2, <2>3, <2>4, <2>6, PutIn DEF OnePlace
<1>4. ASSUME NEW todo \in SUBSET Jobs, AskRetry(todo) \/ AskDismiss(todo)
      PROVE  AtItsPrinter' /\ QueuedOnce' /\ OnePlace'
  <2>1. waiting' = waiting /\ worker' = worker /\ status' = status
    BY <1>4 DEF AskRetry, AskDismiss
  <2>2. /\ \A k \in Jobs : ~BeingPutIn(k)'
        /\ op'.call = "retry" => \A k \in op'.todo : status[k] = "parked"
    BY <1>4 DEF AskRetry, AskDismiss, Begins, BeingPutIn
  <2>. QED  BY <2>1, <2>2, NothingMoves DEF OnePlace
<1>5. ASSUME NEW j \in Jobs, RetryRefused(j) \/ DismissMark(j) \/ DismissFails(j)
      PROVE  AtItsPrinter' /\ QueuedOnce' /\ OnePlace'
  <2>1. waiting' = waiting /\ worker' = worker /\ status' = status
    BY <1>5 DEF RetryRefused, DismissMark, DismissFails
  <2>2. op'.call # "retry" /\ \A k \in Jobs : ~BeingPutIn(k)'
    BY <1>5 DEF RetryRefused, DismissMark, DismissFails, Begins, NoOp, BeingPutIn
  <2>. QED  BY <2>1, <2>2, NothingMoves DEF OnePlace
<1>6. ASSUME NEW j \in Jobs, DismissRemove(j) PROVE AtItsPrinter' /\ QueuedOnce' /\ OnePlace'
  <2>1. /\ waiting' = waiting /\ worker' = worker
        /\ \A k \in Jobs : status'[k] = IF k = j THEN "none" ELSE status[k]
    BY <1>6 DEF DismissRemove, TypeOK
  <2>2. op'.call # "retry" /\ \A k \in Jobs : ~BeingPutIn(k)'
    BY <1>6 DEF DismissRemove, Goes, NoOp, BeingPutIn
  <2>. QED  BY <2>1, <2>2, NothingMoves DEF OnePlace
<1>7. ASSUME NEW j \in Jobs, ResumeCut(j) PROVE AtItsPrinter' /\ QueuedOnce' /\ OnePlace'
  <2>1. waiting' = waiting /\ worker' = worker /\ BeingPutIn(j)
    BY <1>7 DEF ResumeCut, NextUrgent, BeingPutIn
  <2>2. \A k \in Jobs : status'[k] = IF k = j THEN "parked" ELSE status[k]
    BY <1>7 DEF ResumeCut, Park, TypeOK
  <2>3. /\ op'.call # "retry"
        /\ \A k \in Jobs : BeingPutIn(k)' => BeingPutIn(k)
    BY <1>7 DEF ResumeCut, Goes, NoOp, BeingPutIn
  <2>. QED  BY <2>1, <2>2, <2>3, NothingMoves DEF OnePlace
<1>8. CASE RetryOne \/ RetryParked \/ DismissOne \/ DismissAll
  <2>1. \E todo \in SUBSET Jobs : AskRetry(todo) \/ AskDismiss(todo)
    <3>1. \A j \in Jobs : {j} \in SUBSET Jobs
      OBVIOUS
    <3>. QED
      BY <1>8, <3>1 DEF RetryOne, RetryParked, DismissOne, DismissAll
  <2>. QED  BY <1>4, <2>1
<1>. QED
  BY <1>1, <1>2, <1>3, <1>5, <1>6, <1>7, <1>8 DEF Calls, CallGoesOn

\* Taking a job moves it from the queue into the worker's hands.
LEMMA TakePlaces ==
  ASSUME TypeOK, Places, NEW p \in Printers, Take(p)
  PROVE  AtItsPrinter' /\ QueuedOnce' /\ OnePlace'
<1>. USE DEF Places
<1>1. PICK i \in DOMAIN waiting[p] :
        /\ waiting[p][i] \in Jobs
        /\ waiting' = [waiting EXCEPT ![p] = RemoveAt(waiting[p], i)]
        /\ \A q \in Printers \ {p} : worker'[q] = worker[q]
        /\ \/ /\ waiting[p][i] \in Unreadable
              /\ Park(waiting[p][i]) /\ UNCHANGED worker
           \/ /\ waiting[p][i] \notin Unreadable
              /\ worker'[p].job = waiting[p][i] /\ worker'[p].at = "ready"
              /\ UNCHANGED <<row, status>>
  BY TakenTicket
<1>2. PICK j \in Jobs : j = waiting[p][i]
  BY <1>1
<1>. DEFINE t == RemoveAt(waiting[p], i)
<1>3. waiting[p] \in Seq(Jobs) /\ DOMAIN waiting = Printers
  BY DEF TypeOK
<1>4. \A q \in Printers : waiting'[q] = IF q = p THEN t ELSE waiting[q]
  BY <1>1, <1>3
<1>5. /\ \A m, n \in DOMAIN t : m < n =>
           \E k, l \in DOMAIN waiting[p] \ {i} :
              k < l /\ t[m] = waiting[p][k] /\ t[n] = waiting[p][l]
      /\ \A m \in DOMAIN t : \E k \in DOMAIN waiting[p] \ {i} : t[m] = waiting[p][k]
      /\ t \in Seq(Jobs) /\ Range(t) \subseteq Range(waiting[p])
  BY <1>3, RemoveAtOrder, RemoveAtType
<1>. HIDE DEF t
<1>6. DOMAIN t = 1..Len(t) /\ DOMAIN waiting[p] = 1..Len(waiting[p])
  BY <1>3, <1>5, LenProperties
<1>7. PrinterOf[j] = p /\ Queued(j) /\ ~InHand(j) /\ ~BeingPutIn(j) /\ status[j] # "parked"
  <2>1. j \in Range(waiting[p])
    BY <1>2 DEF Range
  <2>. QED  BY <2>1 DEF AtItsPrinter, OnePlace, Queued
<1>8. worker[p].at = "idle" /\ worker[p].job = NoJob /\ op' = op
  BY DEF Take, AtItsPrinter
<1>9. AtItsPrinter'
  <2>1. \A q \in Printers : \A k \in Range(waiting'[q]) : PrinterOf[k] = q
    <3>1. \A q \in Printers : Range(waiting'[q]) \subseteq Range(waiting[q])
      BY <1>4, <1>5
    <3>. QED  BY <3>1 DEF AtItsPrinter
  <2>2. \A q \in Printers : /\ worker'[q].job # NoJob => PrinterOf[worker'[q].job] = q
                            /\ worker'[q].at \in {"idle", "stopped"} => worker'[q].job = NoJob
    BY <1>1, <1>2, <1>7 DEF AtItsPrinter
  <2>. QED  BY <2>1, <2>2 DEF AtItsPrinter
<1>10. QueuedOnce'
  <2>1. ASSUME NEW m \in DOMAIN t, NEW n \in DOMAIN t, t[m] = t[n], m < n PROVE FALSE
    <3>1. PICK k \in DOMAIN waiting[p] \ {i}, l \in DOMAIN waiting[p] \ {i} :
            k < l /\ t[m] = waiting[p][k] /\ t[n] = waiting[p][l]
      BY <1>5, <2>1
    <3>2. k = l
      BY <2>1, <3>1 DEF QueuedOnce
    <3>. QED  BY <1>6, <3>1, <3>2
  <2>2. \A m, n \in DOMAIN t : t[m] = t[n] => m = n
    BY <1>6, <2>1
  <2>. QED  BY <1>4, <2>2 DEF QueuedOnce
<1>11. ~Queued(j)'
  <2>1. j \notin Range(t)
    <3>1. ASSUME NEW m \in DOMAIN t PROVE t[m] # j
      BY <1>2, <1>5, <3>1 DEF QueuedOnce
    <3>. QED  BY <3>1 DEF Range
  <2>2. \A q \in Printers \ {p} : j \notin Range(waiting'[q])
    BY <1>4, <1>7 DEF AtItsPrinter
  <2>. QED  BY <1>4, <2>1, <2>2 DEF Queued
<1>12. \A k \in Jobs : Queued(k)' => Queued(k)
  BY <1>4, <1>5 DEF Queued
<1>13. /\ \A k \in Jobs : InHand(k)' => InHand(k) \/ k = j
       /\ UNCHANGED worker => \A k \in Jobs : InHand(k)' <=> InHand(k)
  BY <1>1, <1>2 DEF InHand
<1>14. \A k \in Jobs : status'[k] = status[k] \/ (k = j /\ status'[k] = "parked" /\ UNCHANGED worker)
  BY <1>1, <1>2 DEF Park, TypeOK
<1>15. \A k \in Jobs : BeingPutIn(k)' <=> BeingPutIn(k)
  BY <1>8 DEF BeingPutIn
<1>16. \A k \in Jobs : Queued(k)' => ~InHand(k)'
  BY <1>11, <1>12, <1>13 DEF OnePlace
<1>17. ASSUME NEW k \in Jobs, BeingPutIn(k)' \/ status'[k] = "parked"
       PROVE  ~Queued(k)' /\ ~InHand(k)'
  <2>1. CASE k = j
    BY <1>7, <1>11, <1>13, <1>14, <1>15, <1>17, <2>1
  <2>2. CASE k # j
    BY <1>12, <1>13, <1>14, <1>15, <1>17, <2>2 DEF OnePlace
  <2>. QED  BY <2>1, <2>2
<1>18. op'.call = "retry" => \A k \in op'.todo : status'[k] = "parked"
  BY <1>8, <1>14, OpType DEF OnePlace
<1>. QED  BY <1>9, <1>10, <1>16, <1>17, <1>18 DEF OnePlace

\* A worker that goes on lets go of a job or keeps it where it is.
LEMMA WorkerPlaces ==
  ASSUME TypeOK, Places, NEW p \in Printers, Worker(p)
  PROVE  AtItsPrinter' /\ QueuedOnce' /\ OnePlace'
<1>. USE DEF Places
<1>1. CASE Take(p)
  BY <1>1, TakePlaces
<1>2. CASE WorkerStops(p)
  <2>1. /\ UNCHANGED <<op, status>> /\ worker[p].at = "idle"
        /\ \A q \in Printers \ {p} : worker'[q] = worker[q]
        /\ worker'[p].job = worker[p].job
        /\ \A q \in Printers : waiting'[q] = IF q = p THEN <<>> ELSE waiting[q]
    BY <1>2 DEF WorkerStops, TypeOK, InHandType
  <2>2. Range(<<>>) = {} /\ DOMAIN <<>> = {}
    BY DEF Range
  <2>3. worker[p].job = NoJob
    BY <2>1 DEF AtItsPrinter
  <2>4. \A k \in Jobs : /\ Queued(k)' => Queued(k)
                        /\ InHand(k)' => InHand(k)
                        /\ BeingPutIn(k)' <=> BeingPutIn(k)
    BY <2>1, <2>2, <2>3, QueueOfJobs DEF Queued, InHand, BeingPutIn
  <2>5. AtItsPrinter'
    BY <2>1, <2>2, <2>3 DEF AtItsPrinter
  <2>6. QueuedOnce'
    BY <2>1, <2>2 DEF QueuedOnce
  <2>7. OnePlace'
    <3>1. \A k \in Jobs : Queued(k)' => ~InHand(k)'
      BY <2>4 DEF OnePlace
    <3>2. ASSUME NEW k \in Jobs, BeingPutIn(k)' \/ status'[k] = "parked"
          PROVE  ~Queued(k)' /\ ~InHand(k)'
      BY <2>1, <2>4, <3>2 DEF OnePlace
    <3>3. op'.call = "retry" => \A k \in op'.todo : status'[k] = "parked"
      BY <2>1 DEF OnePlace
    <3>. QED  BY <3>1, <3>2, <3>3 DEF OnePlace
  <2>. QED  BY <2>5, <2>6, <2>7
<1>3. CASE ~Take(p) /\ ~WorkerStops(p)
  <2>0. PICK j \in Jobs : j = worker[p].job
    BY <1>3, WorkerGoesOn
  <2>1. /\ UNCHANGED <<waiting, op>> /\ worker[p].at \notin {"idle", "stopped"}
        /\ worker[p].job = j
        /\ \A q \in Printers \ {p} : worker'[q] = worker[q]
        /\ \/ worker'[p] = Idle
           \/ worker'[p].job = j /\ worker'[p].at \notin {"idle", "stopped"}
        /\ \A k \in Jobs \ {j} : status'[k] = status[k]
        /\ status'[j] = "parked" => status[j] = "parked" \/ worker'[p] = Idle
    BY <1>3, <2>0, WorkerGoesOn
  <2>2. InHand(j) /\ ~Queued(j) /\ ~BeingPutIn(j) /\ status[j] # "parked" /\ PrinterOf[j] = p
    BY <2>1, QueueOfJobs DEF InHand, OnePlace, AtItsPrinter
  <2>3. \A k \in Jobs : InHand(k)' => InHand(k)
    BY <2>1, <2>2, IdleType DEF InHand
  <2>4. ASSUME worker'[p] = Idle PROVE ~InHand(j)'
    <3>1. worker'[p].job # j
      BY <2>1, <2>4, IdleType, QueueOfJobs
    <3>2. \A q \in Printers \ {p} : worker'[q].job # j
      BY <2>1, <2>2, QueueOfJobs DEF AtItsPrinter
    <3>. QED  BY <3>1, <3>2 DEF InHand
  <2>5. AtItsPrinter' /\ QueuedOnce'
    BY <2>1, <2>2, IdleType DEF AtItsPrinter, QueuedOnce
  <2>6. \A k \in Jobs : (Queued(k)' <=> Queued(k)) /\ (BeingPutIn(k)' <=> BeingPutIn(k))
    BY <2>1 DEF Queued, BeingPutIn
  <2>7. \A k \in Jobs : Queued(k)' => ~InHand(k)'
    BY <2>3, <2>6 DEF OnePlace
  <2>8. ASSUME NEW k \in Jobs, BeingPutIn(k)' \/ status'[k] = "parked"
        PROVE  ~Queued(k)' /\ ~InHand(k)'
    <3>1. CASE k = j
      <4>1. status'[j] = "parked"
        BY <2>2, <2>6, <2>8, <3>1
      <4>2. worker'[p] = Idle
        BY <2>1, <2>2, <4>1
      <4>. QED  BY <2>2, <2>4, <2>6, <3>1, <4>2
    <3>2. CASE k # j
      <4>1. BeingPutIn(k) \/ status[k] = "parked"
        BY <2>1, <2>6, <2>8, <3>2
      <4>. QED  BY <2>3, <2>6, <4>1 DEF OnePlace
    <3>. QED  BY <3>1, <3>2
  <2>9. op'.call = "retry" => \A k \in op'.todo : status'[k] = "parked"
    <3>1. op.call = "retry" => \A k \in op.todo : k # j /\ k \in Jobs
      BY <2>2, OpType DEF OnePlace
    <3>. QED  BY <2>1, <3>1 DEF OnePlace
  <2>. QED  BY <2>5, <2>7, <2>8, <2>9 DEF OnePlace
<1>. QED  BY <1>1, <1>2, <1>3

\* Every step leaves a job in one place.
LEMMA PlacesHold ==
  ASSUME TypeOK, StaysOutInv, Places, [Next]_vars
  PROVE  Places'
<1>1. AsleepIsEmpty'
  BY AsleepHolds DEF Places
<1>2. CASE Calls
  BY <1>1, <1>2, CallsPlace DEF Places
<1>3. CASE \E p \in Printers : Worker(p)
  BY <1>1, <1>3, WorkerPlaces DEF Places
<1>4. ASSUME UNCHANGED <<status, waiting, op>>,
             \A p \in Printers : worker'[p].job = worker[p].job
                                 /\ (worker'[p].at \in {"idle", "stopped"}
                                       <=> worker[p].at \in {"idle", "stopped"})
      PROVE  Places'
  BY <1>1, <1>4, NothingMoves DEF Places, OnePlace, BeingPutIn
<1>5. CASE SendThread
  BY <1>4, <1>5, SendGoesOn
<1>6. CASE Shutdown \/ UNCHANGED vars
  BY <1>4, <1>6 DEF Shutdown, vars, queueVars
<1>7. CASE Exit \/ Crash
  <2>1. PowerOff
    BY <1>7 DEF Exit, Crash
  <2>2. /\ op'.call = "none"
        /\ \A p \in Printers : waiting'[p] = <<>> /\ worker'[p] = Idle
        /\ \A j \in Jobs : status'[j] = "none"
    BY <2>1 DEF PowerOff, NoOp
  <2>3. Range(<<>>) = {} /\ DOMAIN <<>> = {}
    BY DEF Range
  <2>4. AtItsPrinter' /\ QueuedOnce'
    BY <2>2, <2>3, IdleType DEF AtItsPrinter, QueuedOnce
  <2>5. \A j \in Jobs : ~Queued(j)' /\ ~InHand(j)'
    BY <2>2, <2>3, IdleType DEF Queued, InHand
  <2>. QED  BY <1>1, <2>2, <2>4, <2>5 DEF Places, OnePlace
<1>8. CASE Start
  <2>1. /\ UNCHANGED <<status, waiting, worker>> /\ phase = "down" /\ op'.call # "retry"
    BY <1>8 DEF Start, Goes, NoOp
  <2>2. AsleepIsEmpty /\ AtItsPrinter' /\ QueuedOnce'
    BY <2>1, NothingMoves DEF Places
  <2>3. Range(<<>>) = {}
    BY DEF Range
  <2>4. \A j \in Jobs : ~Queued(j)' /\ ~InHand(j)'
    BY <2>1, <2>2, <2>3, IdleType DEF AsleepIsEmpty, Queued, InHand
  <2>. QED  BY <1>1, <2>1, <2>2, <2>4 DEF Places, OnePlace
<1>. QED  BY <1>2, <1>3, <1>5, <1>6, <1>7, <1>8 DEF Next

\* A job is in one place.
LEMMA InOnePlace == Spec => []Places
<1>1. Init => Places
  <2>1. Range(<<>>) = {} /\ DOMAIN <<>> = {}
    BY DEF Range
  <2>. QED  BY <2>1, IdleType DEF Init, Places, AtItsPrinter, AsleepIsEmpty, QueuedOnce,
                                   OnePlace, Queued, BeingPutIn, NoOp
<1>2. TypeOK /\ StaysOutInv /\ Places /\ [Next]_vars => Places'
  BY PlacesHold
<1>. QED  BY <1>1, <1>2, TypeCorrect, OnlyTheKnown, PTL DEF Spec

-----------------------------------------------------------------------------
(* An unfinished job is on its way.  A worker lets go of one only when its  *)
(* row is settled, or a dismissal is removing it, or its row could not be   *)
(* written; and whatever the spool has as unfinished is on the screen, or   *)
(* about to be, or was printed.                                             *)

\* The dismissal under way is at the row of j.
BeingRemoved(j) == op.call = "remove" /\ NextOf(j, op.todo)

OnItsWay(j) == \/ InHand(j) \/ Queued(j) \/ BeingPutIn(j) \/ BeingRemoved(j)
               \/ j \in unwritten

StillHeld == Running => \A j \in Jobs : row[j] \in Unfinished => OnItsWay(j)

\* A cancelled job's row is gone, or being removed, or could not be.
CancelledGoes ==
  \A j \in cancelled :
    j \in Known /\ (row[j] = "none" \/ BeingRemoved(j) \/ j \in unwritten)

\* What is unfinished is shown, unless it was printed or is not put in yet.
Shown ==
  Running => \A j \in Jobs :
    row[j] \in Unfinished => status[j] # "none" \/ papers[j] > 0 \/ BeingPutIn(j)

\* An enqueue is about one job.
EnqueuesOne == op.call = "enqueue" => \E j \in Jobs : op.todo = {j}

\* No job is created twice.
CreatedOnce == \A m, n \in DOMAIN created : created[m] = created[n] => m = n

HeldInv == EnqueuesOne /\ CreatedOnce /\ StillHeld /\ CancelledGoes /\ Shown

\* A call of enqueue is about one job.
LEMMA EnqueuesOneHolds ==
  ASSUME EnqueuesOne, [Next]_vars PROVE EnqueuesOne'
<1>1. ASSUME op' = op PROVE EnqueuesOne'
  BY <1>1 DEF EnqueuesOne
<1>2. ASSUME NEW p \in Printers, Worker(p) PROVE op' = op
  BY <1>2 DEF Worker, Take, WorkerStops, CheckBefore, Begin, Deadline, CheckAfter,
              SettlePrinted, SettleParked, SettleFailed, Wake
<1>3. ASSUME SendThread \/ Shutdown \/ UNCHANGED vars PROVE op' = op
  BY <1>3 DEF SendThread, Opened, OpenFailed, Written, Shutdown, vars, queueVars
<1>4. ASSUME NEW j \in Jobs, EnqueueSave(j) PROVE EnqueuesOne'
  BY <1>4 DEF EnqueueSave, Begins, EnqueuesOne
<1>5. ASSUME Exit \/ Crash \/ Start \/ RetryOne \/ RetryParked
             \/ DismissOne \/ DismissAll
      PROVE  op'.call # "enqueue"
  BY <1>5
  DEF Exit, Crash, PowerOff, Start, Goes, NoOp, Begins, RetryOne, RetryParked, AskRetry,
      DismissOne, DismissAll, AskDismiss
<1>6. ASSUME CallGoesOn PROVE op'.call # "enqueue"
  BY <1>6
  DEF Goes, NoOp, Begins, CallGoesOn, EnqueueDispatch, RetryNext, RetryRefused,
      DismissMark, DismissRemove, DismissFails, ResumeCut, ResumeRest
<1>. QED  BY <1>1, <1>2, <1>3, <1>4, <1>5, <1>6 DEF Next, Calls, EnqueuesOne

\* Only a save creates a job, and it creates one that was not there.
LEMMA CreatedOnceHolds ==
  ASSUME TypeOK, CreatedOnce, [Next]_vars PROVE CreatedOnce'
<1>1. ASSUME NEW j \in Jobs, EnqueueSave(j) PROVE CreatedOnce'
  <2>1. created' = Append(created, j) /\ j \notin Range(created) /\ created \in Seq(Jobs)
    BY <1>1 DEF EnqueueSave, TypeOK
  <2>2. /\ DOMAIN created' = 1..Len(created) + 1 /\ DOMAIN created = 1..Len(created)
        /\ Len(created) \in Nat
        /\ \A i \in 1..Len(created) : created'[i] = created[i]
        /\ created'[Len(created) + 1] = j
    BY <2>1, AppendProperties, LenProperties
  <2>3. \A i \in DOMAIN created : created[i] # j
    BY <2>1 DEF Range
  <2>4. \A i \in DOMAIN created' : i \in DOMAIN created \/ i = Len(created) + 1
    BY <2>2
  <2>. QED  BY <2>2, <2>3, <2>4 DEF CreatedOnce
<1>2. ASSUME ~\E j \in Jobs : EnqueueSave(j) PROVE created' = created
  BY <1>2 DEF Next, Calls, CallGoesOn, EnqueueDispatch, RetryOne, RetryParked,
           AskRetry, RetryNext, RetryRefused, DismissOne, DismissAll, AskDismiss,
           DismissMark, DismissRemove, DismissFails, ResumeCut, ResumeRest, Worker, Take,
           WorkerStops, CheckBefore, Begin, Deadline, CheckAfter, SettlePrinted,
           SettleParked, SettleFailed, Wake, SendThread, Opened, OpenFailed, Written,
           Shutdown, Exit, Crash, PowerOff, Start, historyVars, vars
<1>. QED  BY <1>1, <1>2 DEF CreatedOnce

\* A call removes one row at a time.
LEMMA NextIsOne ==
  ASSUME TypeOK, CreatedOnce, NEW S, NEW j, NEW k, NextOf(j, S), NextOf(k, S)
  PROVE  j = k
<1>. SUFFICES ASSUME j # k PROVE FALSE
  OBVIOUS
<1>1. Before(j, k) /\ Before(k, j)
  BY DEF NextOf
<1>2. PICK m \in DOMAIN created, n \in DOMAIN created :
        created[m] = j /\ created[n] = k /\ m < n
  BY <1>1 DEF Before
<1>3. PICK i \in DOMAIN created, l \in DOMAIN created :
        created[i] = k /\ created[l] = j /\ i < l
  BY <1>1 DEF Before
<1>4. i = n /\ l = m
  BY <1>2, <1>3 DEF CreatedOnce
<1>5. m \in Nat /\ n \in Nat
  <2>1. created \in Seq(Jobs)
    BY DEF TypeOK
  <2>2. DOMAIN created = 1..Len(created) /\ Len(created) \in Nat
    BY <2>1, LenProperties
  <2>. QED  BY <1>2, <2>2
<1>. QED  BY <1>2, <1>3, <1>4, <1>5

\* A tried write of a job's row: what may have become of the rows.
LEMMA TriedRow ==
  ASSUME TypeOK, NEW j \in Jobs, NEW r \in [Jobs -> RowState], Tried(j, r),
         \A k \in Jobs \ {j} : r[k] = row[k]
  PROVE  /\ \A k \in Jobs \ {j} : row'[k] = row[k]
         /\ (row'[j] = r[j] \/ (row'[j] = row[j] /\ j \in unwritten'))
         /\ unwritten \subseteq unwritten'
BY TriedType

\* What parking does to the rows.
LEMMA ParkRow ==
  ASSUME TypeOK, NEW j \in Jobs, Park(j)
  PROVE  /\ \A k \in Jobs \ {j} : row'[k] = row[k]
         /\ \/ row'[j] \in {"none", "parked"}
            \/ row'[j] = row[j] /\ j \in unwritten'
         /\ row[j] = "none" => row'[j] = "none"
         /\ unwritten \subseteq unwritten'
BY ParkType, UpdatedType DEF RowState

\* The calls lose sight of no unfinished job but one they could not write.
LEMMA CallsHold ==
  ASSUME TypeOK, StaysOutInv, Places, HeldInv, Calls
  PROVE  StillHeld' /\ CancelledGoes'
<1>. USE DEF HeldInv
<1>1. \A j \in Jobs : InHand(j)' <=> InHand(j)
  BY DEF Calls, CallGoesOn, EnqueueSave, EnqueueDispatch, RetryOne, RetryParked, AskRetry,
         RetryNext, RetryRefused, DismissOne, DismissAll, AskDismiss, DismissMark,
         DismissRemove, DismissFails, ResumeCut, ResumeRest, InHand, historyVars
<1>2. cancelled \subseteq Jobs /\ op.todo \subseteq Jobs /\ op.todo \subseteq Known
  BY OpType DEF TypeOK, StaysOutInv, OnlyKnown
<1>3. ASSUME NEW j \in Jobs, EnqueueSave(j) PROVE StillHeld' /\ CancelledGoes'
  <2>1. /\ op = NoOp /\ j \notin Known /\ UNCHANGED <<phase, waiting, cancelled, unwritten>>
        /\ \A k \in Jobs : row'[k] = IF k = j THEN "pending" ELSE row[k]
        /\ op' = [call |-> "enqueue", todo |-> {j}]
    BY <1>3 DEF EnqueueSave, Begins, Known, TypeOK
  <2>2. \A k \in Jobs : ~BeingPutIn(k) /\ ~BeingRemoved(k)
    BY <2>1 DEF BeingPutIn, BeingRemoved, NoOp
  <2>3. BeingPutIn(j)' /\ \A k \in Jobs : Queued(k)' <=> Queued(k)
    BY <2>1 DEF BeingPutIn, Queued
  <2>4. StillHeld'
    BY <1>1, <2>1, <2>2, <2>3 DEF StillHeld, Running, OnItsWay
  <2>5. Known \subseteq Known'
    BY <1>3, AppendRange DEF EnqueueSave, TypeOK, Known
  <2>6. ASSUME NEW k \in cancelled'
        PROVE  k \in Known' /\ (row'[k] = "none" \/ k \in unwritten')
    BY <1>2, <2>1, <2>2, <2>5 DEF CancelledGoes
  <2>. QED  BY <2>4, <2>6 DEF CancelledGoes
<1>4. ASSUME UNCHANGED <<phase, created>>, unwritten \subseteq unwritten',
             \A k \in Jobs : row'[k] \in Unfinished =>
               \/ row[k] \in Unfinished /\ (OnItsWay(k) => OnItsWay(k)')
               \/ OnItsWay(k)',
             \A k \in cancelled' : \/ k \in Known /\ (BeingRemoved(k)' \/ k \in unwritten')
                                   \/ k \in cancelled /\ row'[k] = "none"
                                   \/ k \in cancelled /\ row'[k] = row[k]
                                      /\ (BeingRemoved(k) => BeingRemoved(k)')
      PROVE  StillHeld' /\ CancelledGoes'
  <2>1. Known' = Known
    BY <1>4 DEF Known
  <2>2. StillHeld'
    BY <1>4 DEF StillHeld, Running
  <2>3. CancelledGoes'
    BY <1>4, <2>1 DEF CancelledGoes
  <2>. QED  BY <2>2, <2>3
<1>5. ASSUME NEW j \in Jobs, EnqueueDispatch(j) \/ ResumeRest(j) \/ RetryNext(j)
      PROVE  StillHeld' /\ CancelledGoes'
  <2>1. /\ UNCHANGED <<phase, cancelled, created>> /\ j \in op.todo
        /\ op.call \in {"enqueue", "resume", "retry"} /\ Dispatch(j)
    BY <1>5 DEF EnqueueDispatch, ResumeRest, RetryNext, Goes, NextOf, NextUrgent, historyVars
  <2>2. /\ op.call = "enqueue" => op.todo = {j}
        /\ op.call = "resume" => \/ op' = NoOp /\ op.todo \subseteq {j}
                                 \/ op' = [call |-> "resume", todo |-> op.todo \ {j}]
    BY <1>5 DEF EnqueueDispatch, ResumeRest, RetryNext, Goes, EnqueuesOne
  <2>3. \A k \in Jobs : Queued(k)' <=> Queued(k) \/ k = j
    BY <2>1, Dispatched
  <2>4. \A k \in Jobs : ~BeingRemoved(k)
    BY <2>1 DEF BeingRemoved
  <2>5. \A k \in Jobs : BeingPutIn(k) => BeingPutIn(k)' \/ k = j
    BY <2>1, <2>2 DEF BeingPutIn
  <2>6. \A k \in cancelled : k \in Known /\ (row[k] = "none" \/ k \in unwritten)
    BY <1>2, <2>4 DEF CancelledGoes
  <2>7. /\ unwritten \subseteq unwritten'
        /\ \A k \in Jobs : row'[k] = row[k] \/ (k = j /\ row[j] # "none")
    <3>1. CASE RetryNext(j)
      <4>1. /\ row[j] # "none" /\ unwritten \subseteq unwritten'
            /\ row' = [row EXCEPT ![j] = "pending"] \/ row' = row
        BY <3>1 DEF RetryNext, Tried, Refused
      <4>. QED  BY <4>1 DEF TypeOK
    <3>2. CASE EnqueueDispatch(j) \/ ResumeRest(j)
      BY <3>2 DEF EnqueueDispatch, ResumeRest, historyVars
    <3>. QED  BY <1>5, <3>1, <3>2
  <2>8. \A k \in Jobs : OnItsWay(k) => OnItsWay(k)'
    BY <1>1, <2>3, <2>4, <2>5, <2>7 DEF OnItsWay
  <2>9. OnItsWay(j)'
    BY <2>3 DEF OnItsWay
  <2>10. \A k \in Jobs : row'[k] \in Unfinished =>
           \/ row[k] \in Unfinished /\ (OnItsWay(k) => OnItsWay(k)')
           \/ OnItsWay(k)'
    BY <2>7, <2>8, <2>9
  <2>11. \A k \in cancelled' : \/ k \in Known /\ k \in unwritten'
                               \/ k \in cancelled /\ row'[k] = "none"
    BY <1>2, <2>1, <2>6, <2>7
  <2>. QED  BY <1>4, <2>1, <2>7, <2>10, <2>11
<1>6. ASSUME NEW todo \in SUBSET Jobs, AskRetry(todo) \/ AskDismiss(todo)
      PROVE  StillHeld' /\ CancelledGoes'
  <2>1. UNCHANGED <<phase, created, row, waiting, cancelled, unwritten>> /\ op = NoOp
    BY <1>6 DEF AskRetry, AskDismiss, historyVars
  <2>2. \A k : ~BeingPutIn(k) /\ ~BeingRemoved(k)
    BY <2>1 DEF BeingPutIn, BeingRemoved, NoOp
  <2>3. \A k : Queued(k)' <=> Queued(k)
    BY <2>1 DEF Queued
  <2>. QED  BY <1>1, <1>4, <2>1, <2>2, <2>3 DEF OnItsWay
<1>7. ASSUME NEW j \in Jobs, RetryRefused(j) PROVE StillHeld' /\ CancelledGoes'
  <2>1. UNCHANGED <<phase, created, row, waiting, cancelled, unwritten>> /\ op.call = "retry"
    BY <1>7 DEF RetryRefused, historyVars
  <2>2. \A k : ~BeingPutIn(k) /\ ~BeingRemoved(k)
    BY <2>1 DEF BeingPutIn, BeingRemoved
  <2>3. \A k : Queued(k)' <=> Queued(k)
    BY <2>1 DEF Queued
  <2>. QED  BY <1>1, <1>4, <2>1, <2>2, <2>3 DEF OnItsWay
<1>8. ASSUME NEW j \in Jobs, DismissMark(j) PROVE StillHeld' /\ CancelledGoes'
  <2>1. /\ UNCHANGED <<phase, created, row, waiting, unwritten>>
        /\ cancelled' = cancelled \cup {j}
        /\ op.call = "dismiss" /\ j \in op.todo /\ NextOf(j, op.todo)
        /\ op' = [call |-> "remove", todo |-> op.todo]
    BY <1>8 DEF DismissMark, Begins, NextOf, historyVars
  <2>2. \A k : ~BeingPutIn(k) /\ ~BeingRemoved(k)
    BY <2>1 DEF BeingPutIn, BeingRemoved
  <2>3. j \in Known /\ BeingRemoved(j)'
    BY <1>2, <2>1 DEF BeingRemoved, NextOf, Before
  <2>4. \A k : Queued(k)' <=> Queued(k)
    BY <2>1 DEF Queued
  <2>. QED  BY <1>1, <1>4, <2>1, <2>2, <2>3, <2>4 DEF OnItsWay
<1>9. ASSUME NEW j \in Jobs, DismissRemove(j) \/ DismissFails(j)
      PROVE  StillHeld' /\ CancelledGoes'
  <2>1. /\ UNCHANGED <<phase, created, waiting, cancelled>> /\ op.call = "remove"
        /\ unwritten \subseteq unwritten' /\ NextOf(j, op.todo)
        /\ \A k \in Jobs \ {j} : row'[k] = row[k]
        /\ row'[j] = "none" \/ (j \in unwritten' /\ row'[j] = row[j])
    BY <1>9 DEF DismissRemove, DismissFails, Refused, TypeOK
  <2>2. \A k : ~BeingPutIn(k) /\ (BeingRemoved(k) => k = j)
    BY <2>1, NextIsOne DEF BeingPutIn, BeingRemoved
  <2>3. \A k : Queued(k)' <=> Queued(k)
    BY <2>1 DEF Queued
  <2>4. \A k \in Jobs \ {j} : OnItsWay(k) => OnItsWay(k)'
    BY <1>1, <2>1, <2>2, <2>3 DEF OnItsWay
  <2>5. row'[j] \in Unfinished => OnItsWay(j)'
    BY <2>1 DEF Unfinished, OnItsWay
  <2>6. j \in Known
    BY <1>2, <2>1 DEF NextOf
  <2>. QED  BY <1>2, <1>4, <2>1, <2>2, <2>4, <2>5, <2>6
<1>10. ASSUME NEW j \in Jobs, ResumeCut(j) PROVE StillHeld' /\ CancelledGoes'
  <2>1. /\ UNCHANGED <<phase, created, waiting, cancelled>> /\ op.call = "resume"
        /\ row[j] = "printing"
        /\ \/ op' = NoOp /\ op.todo \subseteq {j}
           \/ op' = [call |-> "resume", todo |-> op.todo \ {j}]
    BY <1>10 DEF ResumeCut, Goes
  <2>2. /\ \A k \in Jobs \ {j} : row'[k] = row[k]
        /\ row'[j] \in {"none", "parked"} \/ (row'[j] = row[j] /\ j \in unwritten')
        /\ unwritten \subseteq unwritten'
    BY <1>10, ParkRow DEF ResumeCut
  <2>3. \A k : ~BeingRemoved(k) /\ (BeingPutIn(k) => BeingPutIn(k)' \/ k = j)
    BY <2>1 DEF BeingPutIn, BeingRemoved
  <2>4. \A k : Queued(k)' <=> Queued(k)
    BY <2>1 DEF Queued
  <2>5. \A k \in cancelled : k \in Known /\ (row[k] = "none" \/ k \in unwritten)
    BY <2>3 DEF CancelledGoes
  <2>6. \A k \in Jobs \ {j} : OnItsWay(k) => OnItsWay(k)'
    BY <1>1, <2>2, <2>3, <2>4 DEF OnItsWay
  <2>7. row'[j] \in Unfinished => OnItsWay(j)'
    BY <2>2 DEF Unfinished, OnItsWay
  <2>8. \A k \in cancelled' : \/ k \in Known /\ k \in unwritten'
                              \/ k \in cancelled /\ row'[k] = "none"
    BY <1>2, <2>1, <2>2, <2>5
  <2>9. \A k \in Jobs : row'[k] \in Unfinished =>
          \/ row[k] \in Unfinished /\ (OnItsWay(k) => OnItsWay(k)')
          \/ OnItsWay(k)'
    BY <2>2, <2>6, <2>7
  <2>. QED  BY <1>4, <2>1, <2>2, <2>8, <2>9
<1>11. \A j \in Jobs : {j} \in SUBSET Jobs
  OBVIOUS
<1>12. ASSUME RetryOne \/ RetryParked \/ DismissOne \/ DismissAll
       PROVE  \E todo \in SUBSET Jobs : AskRetry(todo) \/ AskDismiss(todo)
  BY <1>11, <1>12 DEF RetryOne, RetryParked, DismissOne, DismissAll
<1>. QED
  BY <1>3, <1>5, <1>6, <1>7, <1>8, <1>9, <1>10, <1>12 DEF Calls, CallGoesOn

\* A job taken is in hand or parked, and the others stay in the queue.
LEMMA TakeHolds ==
  ASSUME TypeOK, StillHeld, CancelledGoes, NEW p \in Printers, Take(p)
  PROVE  StillHeld' /\ CancelledGoes'
<1>1. PICK i \in DOMAIN waiting[p] :
        /\ waiting[p][i] \in Jobs
        /\ waiting' = [waiting EXCEPT ![p] = RemoveAt(waiting[p], i)]
        /\ \A q \in Printers \ {p} : worker'[q] = worker[q]
        /\ \/ /\ waiting[p][i] \in Unreadable
              /\ Park(waiting[p][i]) /\ UNCHANGED worker
           \/ /\ waiting[p][i] \notin Unreadable
              /\ worker'[p].job = waiting[p][i] /\ worker'[p].at = "ready"
              /\ UNCHANGED <<row, status, faultVars>>
  BY TakenTicket
<1>2. PICK j \in Jobs : j = waiting[p][i]
  BY <1>1
<1>. DEFINE t == RemoveAt(waiting[p], i)
<1>3. waiting[p] \in Seq(Jobs) /\ DOMAIN waiting = Printers
  BY DEF TypeOK
<1>4. \A q \in Printers : waiting'[q] = IF q = p THEN t ELSE waiting[q]
  BY <1>1, <1>3
<1>5. \A k \in DOMAIN waiting[p] \ {i} : waiting[p][k] \in Range(t)
  BY <1>3, RemoveAtOrder
<1>. HIDE DEF t
<1>6. /\ UNCHANGED <<phase, op, cancelled, created>> /\ worker[p].at = "idle"
      /\ phase = "up"
  BY DEF Take
<1>7. \A k \in Jobs : Queued(k) => Queued(k)' \/ k = j
  <2>1. \A k \in Range(waiting[p]) : k \in Range(t) \/ k = j
    BY <1>2, <1>5 DEF Range
  <2>. QED  BY <1>4, <2>1 DEF Queued
<1>8. \A k \in Jobs : InHand(k) => InHand(k)'
  BY <1>1, <1>6 DEF InHand
<1>9. \A k \in Jobs : /\ BeingPutIn(k)' <=> BeingPutIn(k)
                      /\ BeingRemoved(k)' <=> BeingRemoved(k)
  BY <1>6 DEF BeingPutIn, BeingRemoved, NextOf, Before
<1>10. /\ \A k \in Jobs \ {j} : row'[k] = row[k]
       /\ row[j] = "none" => row'[j] = "none"
       /\ \/ InHand(j)' /\ row'[j] = row[j]
          \/ row'[j] \in {"none", "parked"}
          \/ row'[j] = row[j] /\ j \in unwritten'
       /\ unwritten \subseteq unwritten'
  <2>1. CASE j \in Unreadable
    BY <1>1, <1>2, <2>1, ParkRow
  <2>2. CASE j \notin Unreadable
    BY <1>1, <1>2, <2>2 DEF InHand
  <2>. QED  BY <2>1, <2>2
<1>11. StillHeld'
  <2>1. \A k \in Jobs \ {j} : OnItsWay(k) => OnItsWay(k)'
    BY <1>7, <1>8, <1>9, <1>10 DEF OnItsWay
  <2>2. row'[j] \in Unfinished => OnItsWay(j)'
    BY <1>10 DEF Unfinished, OnItsWay
  <2>. QED  BY <1>6, <1>10, <2>1, <2>2 DEF StillHeld, Running
<1>12. CancelledGoes'
  <2>1. cancelled \subseteq Jobs /\ Known' = Known
    BY <1>6 DEF TypeOK, Known
  <2>2. ASSUME NEW k \in cancelled
        PROVE  k \in Known /\ (row'[k] = "none" \/ BeingRemoved(k)' \/ k \in unwritten')
    BY <1>9, <1>10, <2>1, <2>2 DEF CancelledGoes
  <2>. QED  BY <1>6, <2>1, <2>2 DEF CancelledGoes
<1>. QED  BY <1>11, <1>12

\* What a worker that goes on writes of its job, and what it lets go of.
LEMMA WorkerWrites ==
  ASSUME TypeOK, NEW p \in Printers, Worker(p), ~Take(p), ~WorkerStops(p),
         NEW j \in Jobs, j = worker[p].job
  PROVE  /\ cancelled' \subseteq cancelled /\ unwritten \subseteq unwritten'
         /\ row[j] = "none" => row'[j] = "none"
         /\ \/ InHand(j)'
            \/ j \in cancelled /\ row'[j] = row[j]
            \/ row'[j] \in {"none", "parked"}
            \/ j \in unwritten'
         /\ \/ status'[j] # "none"
            \/ row'[j] = row[j] /\ status'[j] = status[j]
            \/ SettlePrinted(p)
<1>1. j = worker[p].job
  OBVIOUS
<1>2. /\ worker'[p] = Idle \/ (worker'[p].job = j /\ worker'[p].at \notin {"idle", "stopped"})
  BY <1>1, WorkerGoesOn
<1>3. worker[p] \in InHandType /\ DOMAIN worker = Printers
  BY DEF TypeOK
<1>4. CASE CheckBefore(p) \/ CheckAfter(p)
  <2>1. row' = row /\ status' = status /\ cancelled' \subseteq cancelled /\ unwritten' = unwritten
    BY <1>4 DEF CheckBefore, CheckAfter, historyVars
  <2>2. j \in cancelled \/ (worker'[p].job = j /\ worker'[p].at # "idle")
    BY <1>1, <1>3, <1>4 DEF CheckBefore, CheckAfter, InHandType
  <2>. QED  BY <1>1, <2>1, <2>2 DEF InHand
<1>5. CASE Deadline(p) \/ Wake(p)
  <2>1. row' = row /\ status' = status /\ cancelled' = cancelled /\ unwritten' = unwritten
    BY <1>5 DEF Deadline, Wake, historyVars
  <2>2. worker'[p].at # "idle"
    BY <1>3, <1>5 DEF Deadline, Wake, InHandType
  <2>. QED  BY <1>1, <1>2, <2>1, <2>2, IdleType DEF InHand
<1>6. CASE Begin(p)
  <2>1. /\ cancelled' = cancelled /\ Tried(j, Updated(row, j, "printing"))
        /\ status'[j] # "none"
    BY <1>1, <1>6 DEF Begin, TypeOK
  <2>2. unwritten \subseteq unwritten' /\ (row[j] = "none" => row'[j] = "none")
    BY <2>1, UpdatedType, TriedType DEF RowState
  <2>3. \/ worker' = [worker EXCEPT ![p].at = "send", ![p].send = started[worker[p].job] + 1,
                                    ![p].answer = "none"]
        \/ worker' = [worker EXCEPT ![p].at = "answered", ![p].answer = "transient"]
    BY <1>6 DEF Begin
  <2>4. worker'[p].at # "idle"
    BY <1>3, <2>3 DEF InHandType
  <2>. QED  BY <1>1, <1>2, <2>1, <2>2, <2>4, IdleType DEF InHand
<1>7. CASE SettleFailed(p)
  <2>1. /\ cancelled' = cancelled /\ Tried(j, Updated(row, j, "failed"))
        /\ status'[j] # "none"
    BY <1>1, <1>7 DEF SettleFailed, TypeOK
  <2>2. unwritten \subseteq unwritten' /\ (row[j] = "none" => row'[j] = "none")
    BY <2>1, UpdatedType, TriedType DEF RowState
  <2>3. worker'[p].at # "idle"
    BY <1>3, <1>7 DEF SettleFailed, InHandType
  <2>. QED  BY <1>1, <1>2, <2>1, <2>2, <2>3, IdleType DEF InHand
<1>8. CASE SettleParked(p)
  <2>1. cancelled' = cancelled /\ Park(j) /\ status'[j] # "none"
    BY <1>1, <1>8 DEF SettleParked, Park, TypeOK
  <2>. QED  BY <1>1, <1>8, <2>1, ParkRow
<1>9. CASE SettlePrinted(p)
  <2>1. cancelled' = cancelled /\ Tried(j, [row EXCEPT ![j] = "none"])
    BY <1>1, <1>9 DEF SettlePrinted
  <2>2. /\ unwritten \subseteq unwritten'
        /\ row'[j] = "none" \/ (row'[j] = row[j] /\ j \in unwritten')
    BY <2>1 DEF Tried, Refused, TypeOK
  <2>. QED  BY <1>1, <1>9, <2>1, <2>2
<1>. QED  BY <1>4, <1>5, <1>6, <1>7, <1>8, <1>9 DEF Worker

\* A worker lets go of a job only when it is settled, could not be, or is being
\* dismissed.
LEMMA WorkerHolds ==
  ASSUME TypeOK, StillHeld, CancelledGoes, NEW p \in Printers, Worker(p)
  PROVE  StillHeld' /\ CancelledGoes'
<1>1. CASE Take(p)
  BY <1>1, TakeHolds
<1>2. CASE WorkerStops(p)
  <2>1. phase' # "up" /\ UNCHANGED <<cancelled, created, row, op, unwritten>>
    BY <1>2 DEF WorkerStops, historyVars
  <2>. QED  BY <2>1 DEF StillHeld, CancelledGoes, Running, BeingRemoved, NextOf, Before, Known
<1>3. CASE ~Take(p) /\ ~WorkerStops(p)
  <2>1. PICK j \in Jobs : j = worker[p].job
    BY <1>3, WorkerGoesOn
  <2>2. /\ UNCHANGED <<phase, waiting, op, created>>
        /\ \A q \in Printers \ {p} : worker'[q] = worker[q]
        /\ \A k \in Jobs \ {j} : row'[k] = row[k]
    BY <1>3, <2>1, WorkerGoesOn
  <2>3. \A k \in Jobs : /\ Queued(k)' <=> Queued(k)
                        /\ BeingPutIn(k)' <=> BeingPutIn(k)
                        /\ BeingRemoved(k)' <=> BeingRemoved(k)
                        /\ k # j => (InHand(k) => InHand(k)')
    BY <2>1, <2>2 DEF Queued, BeingPutIn, BeingRemoved, NextOf, Before, InHand
  <2>4. /\ cancelled' \subseteq cancelled /\ unwritten \subseteq unwritten'
        /\ row[j] = "none" => row'[j] = "none"
        /\ \/ InHand(j)'
           \/ j \in cancelled /\ row'[j] = row[j]
           \/ row'[j] \in {"none", "parked"}
           \/ j \in unwritten'
    BY <1>3, <2>1, WorkerWrites
  <2>5. StillHeld'
    <3>1. \A k \in Jobs \ {j} : OnItsWay(k) => OnItsWay(k)'
      BY <2>3, <2>4 DEF OnItsWay
    <3>2. row'[j] \in Unfinished => OnItsWay(j)'
      BY <2>3, <2>4 DEF CancelledGoes, OnItsWay, Unfinished
    <3>. QED  BY <2>2, <3>1, <3>2 DEF StillHeld, Running
  <2>6. CancelledGoes'
    <3>1. cancelled \subseteq Jobs /\ Known' = Known
      BY <2>2 DEF TypeOK, Known
    <3>2. ASSUME NEW k \in cancelled
          PROVE  k \in Known /\ (row'[k] = "none" \/ BeingRemoved(k)' \/ k \in unwritten')
      BY <2>2, <2>3, <2>4, <3>1 DEF CancelledGoes
    <3>. QED  BY <2>4, <3>1, <3>2 DEF CancelledGoes
  <2>. QED  BY <2>5, <2>6
<1>. QED  BY <1>1, <1>2, <1>3

\* Every step shows what it makes unfinished, and takes off the screen only what
\* is gone or was printed.
LEMMA ShownHolds ==
  ASSUME TypeOK, NeverLostInv, Places, EnqueuesOne, Shown, [Next]_vars
  PROVE  Shown'
<1>0. op.todo \subseteq Jobs
  BY OpType
<1>1. ASSUME phase' = phase,
             \A k \in Jobs : row'[k] \in Unfinished =>
               \/ status'[k] # "none" \/ papers'[k] > 0 \/ BeingPutIn(k)'
               \/ /\ row[k] \in Unfinished /\ status'[k] = status[k]
                  /\ papers'[k] = papers[k] /\ (BeingPutIn(k) => BeingPutIn(k)')
      PROVE  Shown'
  BY <1>1 DEF Shown, Running
<1>2. ASSUME NEW j \in Jobs, EnqueueSave(j) PROVE Shown'
  <2>1. /\ UNCHANGED <<phase, status, papers>> /\ op = NoOp
        /\ \A k \in Jobs \ {j} : row'[k] = row[k]
        /\ op' = [call |-> "enqueue", todo |-> {j}]
    BY <1>2 DEF EnqueueSave, Begins, TypeOK
  <2>2. BeingPutIn(j)' /\ \A k : ~BeingPutIn(k)
    BY <2>1 DEF BeingPutIn, NoOp
  <2>. QED  BY <1>1, <2>1, <2>2
<1>3. ASSUME NEW j \in Jobs,
             EnqueueDispatch(j) \/ RetryNext(j) \/ ResumeCut(j) \/ ResumeRest(j)
      PROVE  Shown'
  <2>1. /\ UNCHANGED <<phase, papers>> /\ j \in op.todo
        /\ op.call \in {"enqueue", "retry", "resume"}
        /\ op.call = "enqueue" => op.todo = {j}
        /\ op.call = "resume" => \/ op' = NoOp /\ op.todo \subseteq {j}
                                 \/ op' = [call |-> "resume", todo |-> op.todo \ {j}]
    BY <1>3 DEF EnqueueDispatch, RetryNext, ResumeCut, ResumeRest, Goes, NextOf, NextUrgent,
                EnqueuesOne, historyVars
  <2>2. /\ status'[j] # "none"
        /\ \A k \in Jobs \ {j} : status'[k] = status[k]
    BY <1>3 DEF EnqueueDispatch, RetryNext, ResumeCut, ResumeRest, Park, TypeOK
  <2>3. \A k \in Jobs \ {j} : row'[k] = row[k]
    <3>1. CASE RetryNext(j)
      <4>1. row' = row \/ row' = [row EXCEPT ![j] = "pending"]
        BY <3>1 DEF RetryNext, Tried, Refused
      <4>. QED  BY <4>1 DEF TypeOK
    <3>2. CASE ResumeCut(j)
      BY <3>2, ParkRow DEF ResumeCut
    <3>3. CASE EnqueueDispatch(j) \/ ResumeRest(j)
      BY <3>3 DEF EnqueueDispatch, ResumeRest
    <3>. QED  BY <1>3, <3>1, <3>2, <3>3
  <2>4. \A k : BeingPutIn(k) => BeingPutIn(k)' \/ k = j
    BY <2>1 DEF BeingPutIn
  <2>. QED  BY <1>1, <2>1, <2>2, <2>3, <2>4
<1>4. ASSUME UNCHANGED <<phase, row, status, papers>>, op' = op \/ \A k : ~BeingPutIn(k)
      PROVE  Shown'
  <2>1. \A k : BeingPutIn(k) => BeingPutIn(k)'
    BY <1>4 DEF BeingPutIn
  <2>. QED  BY <1>1, <1>4, <2>1
<1>5. ASSUME RetryOne \/ RetryParked \/ DismissOne \/ DismissAll PROVE Shown'
  <2>1. UNCHANGED <<phase, row, status, papers>> /\ op = NoOp
    BY <1>5 DEF RetryOne, RetryParked, AskRetry, DismissOne, DismissAll, AskDismiss, historyVars
  <2>. QED  BY <1>4, <2>1 DEF BeingPutIn, NoOp
<1>6. ASSUME NEW j \in Jobs, RetryRefused(j) \/ DismissMark(j) \/ DismissFails(j)
      PROVE  Shown'
  <2>1. /\ UNCHANGED <<phase, row, status, papers>>
        /\ op.call \in {"retry", "dismiss", "remove"}
    BY <1>6 DEF RetryRefused, DismissMark, DismissFails, Refused, historyVars
  <2>. QED  BY <1>4, <2>1 DEF BeingPutIn
<1>7. ASSUME NEW j \in Jobs, DismissRemove(j) PROVE Shown'
  <2>1. /\ UNCHANGED <<phase, papers>> /\ op.call = "remove" /\ row'[j] = "none"
        /\ \A k \in Jobs \ {j} : row'[k] = row[k] /\ status'[k] = status[k]
    BY <1>7 DEF DismissRemove, TypeOK
  <2>2. \A k : ~BeingPutIn(k)
    BY <2>1 DEF BeingPutIn
  <2>. QED  BY <1>1, <2>1, <2>2 DEF Unfinished
<1>8. ASSUME NEW p \in Printers, Worker(p) PROVE Shown'
  <2>1. CASE Take(p)
    <3>1. PICK i \in DOMAIN waiting[p] :
            /\ waiting[p][i] \in Jobs
            /\ Park(waiting[p][i]) \/ UNCHANGED <<row, status>>
      BY <2>1, TakenTicket
    <3>2. UNCHANGED <<phase, papers, op>>
      BY <2>1 DEF Take
    <3>3. CASE UNCHANGED <<row, status>>
      BY <1>4, <3>2, <3>3
    <3>4. CASE Park(waiting[p][i])
      <4>1. PICK j \in Jobs : j = waiting[p][i]
        BY <3>1
      <4>2. /\ \A k \in Jobs \ {j} : row'[k] = row[k] /\ status'[k] = status[k]
            /\ status'[j] # "none"
        BY <3>4, <4>1, ParkRow DEF Park, TypeOK
      <4>3. \A k : BeingPutIn(k) => BeingPutIn(k)'
        BY <3>2 DEF BeingPutIn
      <4>. QED  BY <1>1, <3>2, <4>2, <4>3
    <3>. QED  BY <3>1, <3>3, <3>4
  <2>2. CASE WorkerStops(p)
    BY <1>4, <2>2 DEF WorkerStops, historyVars
  <2>3. CASE ~Take(p) /\ ~WorkerStops(p)
    <3>1. PICK j \in Jobs : j = worker[p].job
      BY <1>8, <2>3, WorkerGoesOn
    <3>2. /\ UNCHANGED <<phase, op, papers>>
          /\ \A k \in Jobs \ {j} : row'[k] = row[k] /\ status'[k] = status[k]
      BY <1>8, <2>3, <3>1, WorkerGoesOn
    <3>3. \/ status'[j] # "none"
          \/ row'[j] = row[j] /\ status'[j] = status[j]
          \/ SettlePrinted(p)
      BY <1>8, <2>3, <3>1, WorkerWrites
    <3>4. SettlePrinted(p) => papers[j] > 0
      BY <3>1 DEF SettlePrinted, NeverLostInv, OkMeansPaper
    <3>5. \A k : BeingPutIn(k) => BeingPutIn(k)'
      BY <3>2 DEF BeingPutIn
    <3>. QED  BY <1>1, <3>2, <3>3, <3>4, <3>5
  <2>. QED  BY <2>1, <2>2, <2>3
<1>9. CASE SendThread
  <2>1. UNCHANGED <<phase, row, status, op>>
    BY <1>9, SendGoesOn
  <2>2. ASSUME NEW k \in Jobs
        PROVE  papers[k] \in Nat /\ papers'[k] \in Nat /\ papers'[k] >= papers[k]
    <3>1. \/ papers' = papers
          \/ \E s \in sends : papers' = [papers EXCEPT ![s.job] = @ + 1]
      BY <1>9 DEF SendThread, Opened, OpenFailed, Written, historyVars
    <3>2. papers[k] \in Nat /\ (papers'[k] = papers[k] \/ papers'[k] = papers[k] + 1)
      BY <3>1 DEF TypeOK
    <3>. QED  BY <3>2
  <2>3. ASSUME NEW k \in Jobs, papers[k] > 0 PROVE papers'[k] > 0
    <3>1. papers[k] \in Nat /\ papers'[k] \in Nat /\ papers'[k] >= papers[k]
      BY <2>2
    <3>. QED  BY <2>3, <3>1
  <2>4. \A k : BeingPutIn(k)' <=> BeingPutIn(k)
    BY <2>1 DEF BeingPutIn
  <2>. QED  BY <2>1, <2>3, <2>4 DEF Shown, Running
<1>10. CASE UNCHANGED vars
  BY <1>4, <1>10 DEF vars, queueVars, historyVars
<1>11. CASE Shutdown \/ Exit \/ Crash
  <2>1. phase' # "up"
    BY <1>11 DEF Shutdown, Exit, Crash, PowerOff
  <2>. QED  BY <2>1 DEF Shown, Running
<1>12. CASE Start
  <2>1. /\ row' = row
        /\ LET todo == {j \in Jobs : row[j] # "none"}
           IN op' = IF todo = {} THEN NoOp ELSE [call |-> "resume", todo |-> todo]
    BY <1>12 DEF Start, Goes
  <2>2. \A k \in Jobs : row[k] # "none" => BeingPutIn(k)'
    BY <2>1 DEF BeingPutIn
  <2>. QED  BY <2>1, <2>2 DEF Shown, Unfinished
<1>. QED
  BY <1>2, <1>3, <1>5, <1>6, <1>7, <1>8, <1>9, <1>10, <1>11, <1>12
  DEF Next, Calls, CallGoesOn

\* Every step keeps an unfinished job on its way.
LEMMA HeldHolds ==
  ASSUME TypeOK, NeverLostInv, StaysOutInv, Places, HeldInv, [Next]_vars
  PROVE  HeldInv'
<1>1. EnqueuesOne' /\ CreatedOnce' /\ Shown'
  BY EnqueuesOneHolds, CreatedOnceHolds, ShownHolds DEF HeldInv
<1>. SUFFICES ASSUME StillHeld, CancelledGoes
              PROVE  StillHeld' /\ CancelledGoes'
  BY <1>1 DEF HeldInv
<1>3. CASE Calls
  BY <1>3, CallsHold
<1>4. CASE \E p \in Printers : Worker(p)
  BY <1>4, WorkerHolds
<1>5. ASSUME UNCHANGED <<phase, row, cancelled, created, op, waiting, unwritten>>,
             \A p \in Printers : worker'[p].job = worker[p].job
                                 /\ (worker'[p].at = "idle" <=> worker[p].at = "idle")
      PROVE  StillHeld' /\ CancelledGoes'
  <2>1. \A k \in Jobs : /\ Queued(k)' <=> Queued(k)
                        /\ BeingPutIn(k)' <=> BeingPutIn(k)
                        /\ BeingRemoved(k)' <=> BeingRemoved(k)
                        /\ InHand(k)' <=> InHand(k)
    BY <1>5 DEF Queued, BeingPutIn, BeingRemoved, NextOf, Before, InHand
  <2>2. cancelled \subseteq Jobs /\ Known' = Known
    BY <1>5 DEF TypeOK, Known
  <2>. QED  BY <1>5, <2>1, <2>2 DEF StillHeld, OnItsWay, Running, CancelledGoes
<1>6. CASE SendThread
  BY <1>5, <1>6, SendGoesOn
<1>7. CASE UNCHANGED vars
  BY <1>5, <1>7 DEF vars, queueVars, historyVars
<1>8. CASE Shutdown \/ Exit \/ Crash
  <2>1. phase' # "up"
    BY <1>8 DEF Shutdown, Exit, Crash, PowerOff
  <2>2. \/ cancelled' = {}
        \/ UNCHANGED <<cancelled, row, op, created, unwritten>>
    BY <1>8 DEF Shutdown, Exit, Crash, PowerOff, historyVars
  <2>. QED  BY <2>1, <2>2 DEF StillHeld, Running, CancelledGoes, BeingRemoved, NextOf, Before,
                               Known
<1>9. CASE Start
  <2>1. /\ phase = "down" /\ UNCHANGED <<row, cancelled, created, unwritten>>
        /\ LET todo == {j \in Jobs : row[j] # "none"}
           IN op' = IF todo = {} THEN NoOp ELSE [call |-> "resume", todo |-> todo]
    BY <1>9 DEF Start, Goes
  <2>2. op = NoOp
    BY <2>1 DEF Places, AsleepIsEmpty
  <2>3. \A k \in Jobs : /\ row[k] # "none" => BeingPutIn(k)'
                        /\ ~BeingRemoved(k)
    BY <2>1, <2>2 DEF BeingPutIn, BeingRemoved, NoOp
  <2>4. cancelled \subseteq Jobs /\ Known' = Known
    BY <2>1 DEF TypeOK, Known
  <2>5. StillHeld'
    BY <2>1, <2>3 DEF StillHeld, OnItsWay, Unfinished
  <2>6. CancelledGoes'
    BY <2>1, <2>3, <2>4 DEF CancelledGoes
  <2>. QED  BY <2>5, <2>6
<1>. QED  BY <1>3, <1>4, <1>6, <1>7, <1>8, <1>9 DEF Next

\* What no worker is about is settled, or about to be, or could not be written.
LEMMA NothingForgotten == Spec => []HeldInv
<1>1. Init => HeldInv
  <2>1. DOMAIN <<>> = {}
    OBVIOUS
  <2>. QED  BY <2>1 DEF Init, HeldInv, EnqueuesOne, CreatedOnce, StillHeld, Shown, Running,
                        CancelledGoes, NoOp
<1>2. TypeOK /\ NeverLostInv /\ StaysOutInv /\ Places /\ HeldInv /\ [Next]_vars => HeldInv'
  BY HeldHolds
<1>. QED  BY <1>1, <1>2, TypeCorrect, ToldTruly, OnlyTheKnown, InOnePlace, PTL DEF Spec

\* Whatever crashes, hangs or cannot be written, a job the spool has as
\* unfinished is with a worker, in its queue or in the hands of a call; only one
\* whose row could not be written may be with nobody, and it is on the screen or
\* was printed.
THEOREM UnfinishedHeld == Spec => []UnfinishedIsHeld
<1>1. HeldInv => UnfinishedIsHeld
  <2>. SUFFICES ASSUME HeldInv, Running, NEW j \in Jobs, row[j] \in Unfinished
                PROVE  \/ InHand(j) \/ Queued(j) \/ BeingPutIn(j) \/ BeingDismissed(j)
                       \/ j \in unwritten /\ (status[j] # "none" \/ papers[j] > 0)
    BY DEF UnfinishedIsHeld
  <2>1. OnItsWay(j) /\ (status[j] # "none" \/ papers[j] > 0 \/ BeingPutIn(j))
    BY DEF HeldInv, StillHeld, Shown
  <2>2. BeingRemoved(j) => BeingDismissed(j)
    BY DEF BeingRemoved, BeingDismissed, NextOf
  <2>. QED  BY <2>1, <2>2 DEF OnItsWay
<1>. QED  BY <1>1, NothingForgotten, PTL

-----------------------------------------------------------------------------
(* The order of the papers.  A queue holds the jobs of one urgency in the   *)
(* order they were created, but for the ones a person put back, because an  *)
(* enqueue is about the newest job and a start goes through the spool in    *)
(* that order.                                                              *)

\* Of one urgency, only a job a person put back comes after a later one.
InOrder(s) ==
  \A i, n \in DOMAIN s :
    (i < n /\ Priority[s[i]] = Priority[s[n]] /\ retries[s[n]] = 0) => Before(s[i], s[n])

\* What a call is about to put in was created after what it will stand behind.
ComesLast ==
  /\ op.call = "enqueue" => \A j \in op.todo : \A k \in Known \ {j} : Before(k, j)
  /\ op.call = "resume" =>
       \A j \in op.todo : \A k \in Jobs :
         Queued(k) /\ Priority[k] = Priority[j] => Before(k, j)

OrderInv == CreatedOnce /\ (\A p \in Printers : InOrder(waiting[p])) /\ ComesLast

\* The order of creation stays, whatever is created later.
LEMMA BeforeStays ==
  ASSUME TypeOK, NEW j \in Jobs, NEW k \in Jobs,
         created' = created \/ \E e \in Jobs : created' = Append(created, e),
         Before(j, k)
  PROVE  Before(j, k)'
<1>1. PICK m \in DOMAIN created, n \in DOMAIN created :
        created[m] = j /\ created[n] = k /\ m < n
  BY DEF Before
<1>2. m \in DOMAIN created' /\ n \in DOMAIN created' /\ created'[m] = j /\ created'[n] = k
  <2>1. CASE created' = created
    BY <1>1, <2>1
  <2>2. ASSUME NEW e \in Jobs, created' = Append(created, e)
        PROVE  m \in DOMAIN created' /\ n \in DOMAIN created' /\ created'[m] = j /\ created'[n] = k
    <3>1. created \in Seq(Jobs)
      BY DEF TypeOK
    <3>2. /\ DOMAIN created = 1..Len(created) /\ Len(created) \in Nat
          /\ DOMAIN created' = 1..Len(created) + 1
          /\ \A i \in 1..Len(created) : created'[i] = created[i]
      BY <2>2, <3>1, AppendProperties, LenProperties
    <3>. QED  BY <1>1, <3>2
  <2>. QED  BY <2>1, <2>2
<1>. QED  BY <1>1, <1>2 DEF Before

\* A job put at the end of its queue leaves the queue in order, if it was
\* created after those of its urgency or a person put it back.
LEMMA PutInOrder ==
  ASSUME TypeOK, Places, OrderInv, NEW j \in Jobs, ~Queued(j), Dispatch(j),
         UNCHANGED created,
         \A k \in Jobs \ {j} : retries'[k] = retries[k],
         retries'[j] # 0 \/ \A k \in Jobs : Queued(k) /\ Priority[k] = Priority[j] => Before(k, j)
  PROVE  \A p \in Printers : InOrder(waiting[p])'
<1>. DEFINE r == PrinterOf[j]
            s == waiting[r]
            t == Append(s, j)
<1>1. r \in Printers /\ s \in Seq(Jobs) /\ DOMAIN waiting = Printers
  BY PrintersAssumption DEF TypeOK
<1>2. \A p \in Printers : waiting'[p] = IF p = r THEN t ELSE waiting[p]
  BY <1>1, Dispatched
<1>3. /\ DOMAIN t = 1..Len(s) + 1 /\ DOMAIN s = 1..Len(s) /\ Len(s) \in Nat
      /\ \A i \in 1..Len(s) : t[i] = s[i]
      /\ t[Len(s) + 1] = j
  BY <1>1, AppendProperties, LenProperties
<1>4. ASSUME NEW p \in Printers
      PROVE  \A i \in DOMAIN waiting[p] : waiting[p][i] \in Jobs \ {j} /\ Queued(waiting[p][i])
  BY QueueOfJobs DEF Queued, Range
<1>5. \A a, b : Before(a, b)' <=> Before(a, b)
  BY DEF Before
<1>6. ASSUME NEW p \in Printers, NEW i \in DOMAIN waiting[p], NEW n \in DOMAIN waiting[p],
             i < n, Priority[waiting[p][i]] = Priority[waiting[p][n]],
             retries'[waiting[p][n]] = 0
      PROVE  Before(waiting[p][i], waiting[p][n])
  BY <1>4, <1>6 DEF OrderInv, InOrder
<1>7. ASSUME NEW i \in DOMAIN t, NEW n \in DOMAIN t, i < n, Priority[t[i]] = Priority[t[n]],
             retries'[t[n]] = 0
      PROVE  Before(t[i], t[n])
  <2>1. i \in DOMAIN s /\ t[i] = s[i]
    <3>. HIDE DEF t, s, r
    <3>. QED  BY <1>3, <1>7
  <2>2. CASE n \in DOMAIN s
    <3>1. t[n] = s[n]
      <4>. HIDE DEF t, s, r
      <4>. QED  BY <1>3, <2>2
    <3>. QED  BY <1>1, <1>6, <1>7, <2>1, <2>2, <3>1
  <2>3. CASE n \notin DOMAIN s
    <3>1. t[n] = j
      <4>. HIDE DEF t, s, r
      <4>1. n = Len(s) + 1
        BY <1>3, <2>3
      <4>. QED  BY <1>3, <4>1
    <3>. QED  BY <1>1, <1>4, <1>7, <2>1, <3>1
  <2>. QED  BY <2>2, <2>3
<1>. HIDE DEF t, s, r
<1>8. ASSUME NEW p \in Printers, NEW i \in DOMAIN waiting'[p], NEW n \in DOMAIN waiting'[p],
             i < n, Priority[waiting'[p][i]] = Priority[waiting'[p][n]],
             retries'[waiting'[p][n]] = 0
      PROVE  Before(waiting'[p][i], waiting'[p][n])
  BY <1>2, <1>6, <1>7, <1>8
<1>. QED  BY <1>5, <1>8 DEF InOrder

\* The calls keep the order.
LEMMA CallsOrder ==
  ASSUME TypeOK, StaysOutInv, Places, EnqueuesOne, OrderInv, Calls
  PROVE  OrderInv'
<1>. USE DEF OrderInv
<1>1. ASSUME UNCHANGED <<created, waiting, retries>>,
             op'.call = "enqueue" => FALSE,
             op'.call = "resume" => op.call = "resume" /\ op'.todo \subseteq op.todo
      PROVE  OrderInv'
  <2>1. \A a, b : Before(a, b)' <=> Before(a, b)
    BY <1>1 DEF Before
  <2>2. \A k : Queued(k)' <=> Queued(k)
    BY <1>1 DEF Queued
  <2>3. CreatedOnce' /\ \A p \in Printers : InOrder(waiting[p])'
    BY <1>1, <2>1 DEF CreatedOnce, InOrder
  <2>. QED  BY <1>1, <2>1, <2>2, <2>3 DEF ComesLast
<1>2. ASSUME NEW j \in Jobs, EnqueueSave(j) PROVE OrderInv'
  <2>1. /\ UNCHANGED <<waiting, retries>> /\ created' = Append(created, j)
        /\ op' = [call |-> "enqueue", todo |-> {j}] /\ j \notin Known
        /\ created \in Seq(Jobs)
    BY <1>2 DEF EnqueueSave, Begins, Known, TypeOK
  <2>2. /\ DOMAIN created' = 1..Len(created) + 1 /\ DOMAIN created = 1..Len(created)
        /\ Len(created) \in Nat
        /\ \A i \in 1..Len(created) : created'[i] = created[i]
        /\ created'[Len(created) + 1] = j
    BY <2>1, AppendProperties, LenProperties
  <2>3. \A i \in DOMAIN created : created[i] \in Known
    BY DEF Known, Range
  <2>4. CreatedOnce'
    <3>1. \A i \in DOMAIN created' : i \in DOMAIN created \/ i = Len(created) + 1
      BY <2>2
    <3>. QED  BY <2>1, <2>2, <2>3, <3>1 DEF CreatedOnce
  <2>5. ASSUME NEW k \in Known' \ {j} PROVE Before(k, j)'
    <3>1. PICK m \in DOMAIN created' : created'[m] = k
      BY DEF Known, Range
    <3>2. m < Len(created) + 1 /\ Len(created) + 1 \in DOMAIN created'
      BY <2>2, <2>5, <3>1
    <3>. QED  BY <2>2, <3>1, <3>2 DEF Before
  <2>6. \A a, b \in Jobs : Before(a, b) => Before(a, b)'
    BY <2>1, BeforeStays
  <2>7. ASSUME NEW p \in Printers PROVE InOrder(waiting[p])'
    <3>1. \A i \in DOMAIN waiting[p] : waiting[p][i] \in Jobs
      BY QueueOfJobs DEF Range
    <3>. QED  BY <2>1, <2>6, <3>1 DEF InOrder
  <2>. QED  BY <2>1, <2>4, <2>5, <2>7 DEF ComesLast
<1>3. ASSUME NEW j \in Jobs, EnqueueDispatch(j) \/ ResumeRest(j) \/ RetryNext(j)
      PROVE  OrderInv'
  <2>1. /\ UNCHANGED created /\ Dispatch(j) /\ j \in op.todo
        /\ op.call \in {"enqueue", "resume", "retry"}
        /\ \A k \in Jobs \ {j} : retries'[k] = retries[k]
        /\ op.call # "retry" \/ retries'[j] # 0
    BY <1>3 DEF EnqueueDispatch, ResumeRest, RetryNext, NextOf, NextUrgent, historyVars, TypeOK
  <2>2. ~Queued(j)
    <3>1. BeingPutIn(j) \/ status[j] = "parked"
      BY <2>1 DEF BeingPutIn, Places, OnePlace
    <3>. QED  BY <3>1 DEF Places, OnePlace
  <2>3. \A k : Queued(k)' <=> Queued(k) \/ k = j
    BY <2>1, Dispatched
  <2>4. \A k \in Jobs : Queued(k) => k \in Known \ {j}
    BY <2>2 DEF Queued, StaysOutInv, OnlyKnown
  <2>5. retries'[j] # 0 \/ \A k \in Jobs : Queued(k) /\ Priority[k] = Priority[j] => Before(k, j)
    BY <2>1, <2>4 DEF ComesLast
  <2>6. \A p \in Printers : InOrder(waiting[p])'
    BY <2>1, <2>2, <2>5, PutInOrder
  <2>7. \A a, b : Before(a, b)' <=> Before(a, b)
    BY <2>1 DEF Before
  <2>8. ASSUME op'.call = "resume"
        PROVE  /\ op.call = "resume" /\ op'.todo = op.todo \ {j}
               /\ \A k \in op.todo \ {j} : Priority[j] = Priority[k] => Before(j, k)
    <3>1. ResumeRest(j)
      BY <1>3, <2>8 DEF EnqueueDispatch, RetryNext, Goes, NoOp
    <3>2. Priority \in [Jobs -> Nat] /\ op.todo \subseteq Jobs
      BY PrintersAssumption, OpType
    <3>. QED  BY <2>8, <3>1, <3>2 DEF ResumeRest, Goes, NoOp, NextUrgent
  <2>9. op'.call # "enqueue"
    BY <1>3 DEF EnqueueDispatch, ResumeRest, RetryNext, Goes, NoOp
  <2>10. CreatedOnce'
    BY <2>1 DEF CreatedOnce
  <2>. QED  BY <2>3, <2>6, <2>7, <2>8, <2>9, <2>10 DEF ComesLast
<1>4. ASSUME RetryOne \/ RetryParked \/ DismissOne \/ DismissAll
             \/ \E j \in Jobs : \/ RetryRefused(j) \/ DismissMark(j)
                               \/ DismissRemove(j) \/ DismissFails(j)
      PROVE  OrderInv'
  <2>1. UNCHANGED <<created, waiting, retries>> /\ op'.call \notin {"enqueue", "resume"}
    BY <1>4
    DEF RetryOne, RetryParked, AskRetry, DismissOne, DismissAll, AskDismiss, DismissFails,
        RetryRefused, DismissMark, DismissRemove, Begins, Goes, NoOp, historyVars
  <2>. QED  BY <1>1, <2>1
<1>5. ASSUME NEW j \in Jobs, ResumeCut(j) PROVE OrderInv'
  BY <1>1, <1>5 DEF ResumeCut, Goes, NoOp, historyVars
<1>. QED  BY <1>2, <1>3, <1>4, <1>5 DEF Calls, CallGoesOn

\* Taking a job leaves the others in their order.
LEMMA TakeOrder ==
  ASSUME TypeOK, OrderInv, NEW p \in Printers, Take(p)
  PROVE  OrderInv'
<1>. USE DEF OrderInv
<1>1. PICK i \in DOMAIN waiting[p] :
        waiting' = [waiting EXCEPT ![p] = RemoveAt(waiting[p], i)]
  BY TakenTicket
<1>. DEFINE t == RemoveAt(waiting[p], i)
<1>2. waiting[p] \in Seq(Jobs) /\ DOMAIN waiting = Printers
  BY DEF TypeOK
<1>3. \A q \in Printers : waiting'[q] = IF q = p THEN t ELSE waiting[q]
  BY <1>1, <1>2
<1>4. /\ \A m, n \in DOMAIN t : m < n =>
           \E k, l \in DOMAIN waiting[p] \ {i} :
              k < l /\ t[m] = waiting[p][k] /\ t[n] = waiting[p][l]
      /\ Range(t) \subseteq Range(waiting[p])
  BY <1>2, RemoveAtOrder, RemoveAtType
<1>. HIDE DEF t
<1>5. UNCHANGED <<created, retries, op>>
  BY DEF Take, historyVars
<1>6. \A a, b : Before(a, b)' <=> Before(a, b)
  BY <1>5 DEF Before
<1>7. ASSUME NEW m \in DOMAIN t, NEW n \in DOMAIN t, m < n,
             Priority[t[m]] = Priority[t[n]], retries[t[n]] = 0
      PROVE  Before(t[m], t[n])
  <2>1. PICK k \in DOMAIN waiting[p] \ {i}, l \in DOMAIN waiting[p] \ {i} :
          k < l /\ t[m] = waiting[p][k] /\ t[n] = waiting[p][l]
    BY <1>4, <1>7
  <2>. QED  BY <1>7, <2>1 DEF InOrder
<1>8. \A q \in Printers : InOrder(waiting[q])'
  <2>1. ASSUME NEW q \in Printers, NEW m \in DOMAIN waiting'[q], NEW n \in DOMAIN waiting'[q],
               m < n, Priority[waiting'[q][m]] = Priority[waiting'[q][n]],
               retries[waiting'[q][n]] = 0
        PROVE  Before(waiting'[q][m], waiting'[q][n])
    <3>1. CASE q = p
      BY <1>3, <1>7, <2>1, <3>1
    <3>2. CASE q # p
      BY <1>3, <2>1, <3>2 DEF InOrder
    <3>. QED  BY <3>1, <3>2
  <2>. QED  BY <1>5, <1>6, <2>1 DEF InOrder
<1>9. \A k : Queued(k)' => Queued(k)
  BY <1>3, <1>4 DEF Queued
<1>10. CreatedOnce' /\ Known' = Known
  BY <1>5 DEF CreatedOnce, Known
<1>. QED  BY <1>5, <1>6, <1>8, <1>9, <1>10 DEF ComesLast

\* Every step leaves the queues in order.
LEMMA OrderHolds ==
  ASSUME TypeOK, StaysOutInv, Places, EnqueuesOne, OrderInv, [Next]_vars
  PROVE  OrderInv'
<1>1. CASE Calls
  BY <1>1, CallsOrder
<1>2. ASSUME UNCHANGED <<created, retries>>,
             op'.call = "enqueue" => op' = op,
             op'.call = "resume" => op' = op \/ \A k : ~Queued(k)',
             \A p \in Printers : waiting'[p] = waiting[p] \/ waiting'[p] = <<>>
      PROVE  OrderInv'
  <2>1. \A a, b : Before(a, b)' <=> Before(a, b)
    BY <1>2 DEF Before
  <2>2. CreatedOnce' /\ Known' = Known
    BY <1>2 DEF CreatedOnce, Known, OrderInv
  <2>3. \A p \in Printers : InOrder(waiting[p])'
    BY <1>2, <2>1 DEF InOrder, OrderInv
  <2>4. \A k : Queued(k)' => Queued(k)
    BY <1>2 DEF Queued, Range
  <2>. QED  BY <1>2, <2>1, <2>2, <2>3, <2>4 DEF ComesLast, OrderInv
<1>3. ASSUME NEW p \in Printers, Worker(p) PROVE OrderInv'
  <2>1. CASE Take(p)
    BY <2>1, TakeOrder
  <2>2. CASE WorkerStops(p)
    BY <1>2, <2>2 DEF WorkerStops, historyVars, TypeOK
  <2>3. CASE ~Take(p) /\ ~WorkerStops(p)
    BY <1>2, <1>3, <2>3, WorkerGoesOn
  <2>. QED  BY <2>1, <2>2, <2>3
<1>4. CASE SendThread
  BY <1>2, <1>4, SendGoesOn
<1>5. CASE Shutdown \/ UNCHANGED vars
  BY <1>2, <1>5 DEF Shutdown, vars, queueVars, historyVars
<1>6. CASE Exit \/ Crash
  BY <1>2, <1>6 DEF Exit, Crash, PowerOff, NoOp, historyVars
<1>7. CASE Start
  <2>1. UNCHANGED <<created, retries, waiting>> /\ phase = "down"
        /\ op'.call # "enqueue"
    BY <1>7 DEF Start, Goes, NoOp
  <2>2. \A p \in Printers : waiting[p] = <<>>
    BY <2>1 DEF Places, AsleepIsEmpty
  <2>3. \A k : ~Queued(k)'
    BY <2>1, <2>2 DEF Queued, Range
  <2>. QED  BY <1>2, <2>1, <2>3
<1>. QED  BY <1>1, <1>3, <1>4, <1>5, <1>6, <1>7 DEF Next

\* Only Take gives an idle worker a job.
LEMMA OnlyTakeGives ==
  ASSUME TypeOK, [Next]_vars, NEW p \in Printers,
         worker[p].at = "idle", worker'[p].at = "ready"
  PROVE  Take(p)
<1>1. ~UNCHANGED vars /\ ~Shutdown /\ ~Start
  BY DEF vars, queueVars, Shutdown, Start
<1>2. ~Exit /\ ~Crash
  BY IdleType DEF Exit, Crash, PowerOff
<1>3. ~SendThread
  BY SendGoesOn
<1>4. ~Calls
  BY DEF Calls, CallGoesOn, EnqueueSave, EnqueueDispatch, RetryOne, RetryParked, AskRetry,
         RetryNext, RetryRefused, DismissOne, DismissAll, AskDismiss, DismissMark,
         DismissRemove, DismissFails, ResumeCut, ResumeRest, historyVars
<1>5. ASSUME NEW q \in Printers, Worker(q) PROVE q = p
  <2>1. CASE Take(q)
    BY <2>1, TakenTicket
  <2>2. CASE WorkerStops(q)
    BY <2>2 DEF WorkerStops, TypeOK
  <2>3. CASE ~Take(q) /\ ~WorkerStops(q)
    BY <1>5, <2>3, WorkerGoesOn
  <2>. QED  BY <2>1, <2>2, <2>3
<1>6. Worker(p)
  BY <1>1, <1>2, <1>3, <1>4, <1>5 DEF Next
<1>7. ~WorkerStops(p)
  BY DEF WorkerStops, TypeOK, InHandType
<1>. QED  BY <1>6, <1>7, WorkerGoesOn

\* What the queues' order makes of the most urgent ticket.
LEMMA TakenInOrder ==
  ASSUME TypeOK, OrderInv, [Next]_vars, NEW p \in Printers, NEW k \in Range(created),
         worker[p].at = "idle", worker'[p].at = "ready", worker'[p].job = k,
         NEW n \in DOMAIN created, created[n] # k, created[n] \in Range(waiting[p]),
         retries[created[n]] = 0
  PROVE  \/ Priority[k] < Priority[created[n]]
         \/ /\ Priority[k] = Priority[created[n]]
            /\ \E m \in DOMAIN created : created[m] = k /\ m < n
<1>1. PICK i \in DOMAIN waiting[p] :
        /\ Pops(waiting[p], i)
        /\ \/ UNCHANGED worker
           \/ worker'[p].job = waiting[p][i]
  BY OnlyTakeGives, TakenTicket
<1>2. waiting[p][i] = k
  BY <1>1
<1>3. PICK l \in DOMAIN waiting[p] : waiting[p][l] = created[n]
  BY DEF Range
<1>4. \/ Priority[k] < Priority[created[n]]
      \/ Priority[k] = Priority[created[n]] /\ i < l
  BY <1>1, <1>2, <1>3 DEF Pops
<1>5. ASSUME Priority[k] = Priority[created[n]], i < l
      PROVE  \E m \in DOMAIN created : created[m] = k /\ m < n
  <2>1. Before(k, created[n])
    BY <1>2, <1>3, <1>5 DEF OrderInv, InOrder
  <2>. QED  BY <2>1 DEF Before, OrderInv, CreatedOnce
<1>. QED  BY <1>4, <1>5

\* The queues are in order.
LEMMA QueuesInOrder == Spec => []OrderInv
<1>1. Init => OrderInv
  <2>1. DOMAIN <<>> = {}
    OBVIOUS
  <2>. QED  BY <2>1 DEF Init, OrderInv, CreatedOnce, InOrder, ComesLast, NoOp
<1>2. TypeOK /\ StaysOutInv /\ Places /\ HeldInv /\ OrderInv /\ [Next]_vars => OrderInv'
  BY OrderHolds DEF HeldInv
<1>. QED  BY <1>1, <1>2, TypeCorrect, OnlyTheKnown, InOnePlace, NothingForgotten, PTL DEF Spec

\* A worker that takes a job leaves behind only less urgent ones, later ones,
\* and ones a person put back.
THEOREM PapersInOrder == Spec => PrintedInOrder
<1>. DEFINE Taken ==
       \A p \in Printers : \A k \in Range(created) :
         (worker[p].at = "idle" /\ worker'[p].at = "ready" /\ worker'[p].job = k) =>
           \A n \in DOMAIN created :
             LET j == created[n]
             IN (/\ j # k /\ j \in Range(waiting[p]) /\ retries[j] = 0) =>
                  \/ Priority[k] < Priority[j]
                  \/ /\ Priority[k] = Priority[j]
                     /\ \E m \in DOMAIN created : created[m] = k /\ m < n
<1>1. TypeOK /\ OrderInv /\ [Next]_vars => Taken
  BY TakenInOrder
<1>2. TypeOK /\ OrderInv /\ [Next]_vars => [Taken]_vars
  BY <1>1
<1>. HIDE DEF Taken
<1>3. Spec => [][Taken]_vars
  BY <1>2, TypeCorrect, QueuesInOrder, PTL DEF Spec
<1>. QED  BY <1>3 DEF PrintedInOrder, Taken

-----------------------------------------------------------------------------
(* No paper without a pass.  Each time a job was put in pays for one paper: *)
(* the ones that came out, the sends still running, and the next one if the *)
(* job may be sent again.                                                   *)

\* The sends of a job that still run.
Sending(j) == Cardinality({s \in sends : s.job = j})

\* A worker may yet send the job it has.
MaySend(j) ==
  \E p \in Printers :
    /\ worker[p].job = j
    /\ \/ worker[p].at \in {"ready", "begin", "backoff"}
       \/ worker[p].at \in {"answered", "settle"} /\ worker[p].answer \notin {"ok", "permanent"}

\* The job may be sent once more without being put in again.
Due(j) == \/ row[j] \in {"pending", "failed"} /\ j \notin unwritten
          \/ Queued(j) \/ MaySend(j)
          \/ op.call = "enqueue" /\ j \in op.todo

\* What was once not written stays known as such.
LEMMA UnwrittenGrows ==
  ASSUME TypeOK, [Next]_vars PROVE unwritten \subseteq unwritten'
<1>1. CASE Calls
  BY <1>1
  DEF Calls, CallGoesOn, EnqueueSave, EnqueueDispatch, RetryOne, RetryParked, AskRetry,
      RetryNext, RetryRefused, DismissOne, DismissAll, AskDismiss, DismissMark,
      DismissRemove, DismissFails, ResumeCut, ResumeRest, Park, Tried, Refused, historyVars
<1>2. ASSUME NEW p \in Printers, Worker(p) PROVE unwritten \subseteq unwritten'
  <2>1. CASE Take(p)
    BY <2>1, TakenTicket DEF Park, Tried, Refused
  <2>2. CASE ~Take(p)
    BY <1>2, <2>2
    DEF Worker, WorkerStops, CheckBefore, Begin, Deadline, CheckAfter, SettlePrinted,
        SettleParked, SettleFailed, Wake, Park, Tried, Refused, historyVars
  <2>. QED  BY <2>1, <2>2
<1>3. CASE SendThread \/ Shutdown \/ Exit \/ Crash \/ Start \/ UNCHANGED vars
  BY <1>3
  DEF SendThread, Opened, OpenFailed, Written, Shutdown, Exit, Crash, PowerOff, Start,
      historyVars, vars
<1>. QED  BY <1>1, <1>2, <1>3 DEF Next

\* A job's papers, sends and next try are covered by its passes.
Covered(j) == papers[j] + Sending(j) + (IF Due(j) THEN 1 ELSE 0) <= Passes(j)

\* A start goes through jobs that are in the spool.
Resumes == op.call = "resume" => \A j \in op.todo : row[j] # "none"

\* A job never queued was never put in again.
NewIsNew == \A j \in Jobs \ Known : retries[j] = 0 /\ revived[j] = 0

CoverInv ==
  /\ IsFiniteSet(sends) /\ Resumes /\ NewIsNew
  /\ \A j \in Jobs : Covered(j)

\* The counts are natural numbers.
LEMMA Counts ==
  ASSUME TypeOK, IsFiniteSet(sends), NEW j \in Jobs
  PROVE  Sending(j) \in Nat /\ papers[j] \in Nat /\ Passes(j) \in Nat
<1>1. {s \in sends : s.job = j} \in SUBSET sends
  OBVIOUS
<1>2. Sending(j) \in Nat
  BY <1>1, FS_Subset, FS_CardinalityType DEF Sending
<1>. QED  BY <1>2 DEF TypeOK, Passes

\* Pulling an interrupt adds no send to any job.
LEMMA InterruptCounts ==
  ASSUME TypeOK, IsFiniteSet(sends), NEW j \in Jobs, Interrupt(j)
  PROVE  IsFiniteSet(sends') /\ \A k \in Jobs : Sending(k)' <= Sending(k)
<1>. DEFINE Pulled(s) == IF s.job = j /\ s.no = interrupts[j] THEN [s EXCEPT !.stop = TRUE]
                                                              ELSE s
<1>1. \A s \in sends : Pulled(s).job = s.job
  BY DEF TypeOK, SendType
<1>2. sends' = {Pulled(s) : s \in sends}
  BY DEF Interrupt
<1>. HIDE DEF Pulled
<1>3. ASSUME NEW S \in SUBSET sends
      PROVE  LET T == {Pulled(s) : s \in S}
             IN  IsFiniteSet(T) /\ Cardinality(T) <= Cardinality(S)
  <2>. DEFINE T == {Pulled(s) : s \in S}
              f == [s \in S |-> Pulled(s)]
  <2>1. f \in Surjection(S, T)
    BY DEF Surjection
  <2>2. IsFiniteSet(S)
    BY FS_Subset
  <2>. HIDE DEF f, T
  <2>3. IsFiniteSet(T) /\ Cardinality(T) <= Cardinality(S)
    BY <2>1, <2>2, FS_Surjection
  <2>. QED  BY <2>3 DEF T
<1>4. IsFiniteSet(sends')
  BY <1>2, <1>3
<1>5. ASSUME NEW k \in Jobs PROVE Sending(k)' <= Sending(k)
  <2>. DEFINE S == {s \in sends : s.job = k}
  <2>1. {s \in sends' : s.job = k} = {Pulled(s) : s \in S}
    BY <1>1, <1>2
  <2>2. S \in SUBSET sends
    OBVIOUS
  <2>. HIDE DEF S
  <2>3. Cardinality({Pulled(s) : s \in S}) <= Cardinality(S)
    BY <1>3, <2>2
  <2>. QED  BY <2>1, <2>3 DEF S, Sending
<1>. QED  BY <1>4, <1>5

\* A send more for one job, none for the others.
LEMMA SendAdded ==
  ASSUME TypeOK, IsFiniteSet(sends), NEW x \in SendType, sends' = sends \cup {x}
  PROVE  /\ IsFiniteSet(sends')
         /\ \A k \in Jobs : Sending(k)' <= IF k = x.job THEN Sending(k) + 1 ELSE Sending(k)
<1>1. IsFiniteSet(sends')
  BY FS_AddElement
<1>2. ASSUME NEW k \in Jobs
      PROVE  Sending(k)' <= IF k = x.job THEN Sending(k) + 1 ELSE Sending(k)
  <2>. DEFINE S == {s \in sends : s.job = k}
              T == {s \in sends' : s.job = k}
  <2>1. IsFiniteSet(S) /\ Cardinality(S) \in Nat
    <3>1. S \in SUBSET sends
      OBVIOUS
    <3>. QED  BY <3>1, FS_Subset, FS_CardinalityType
  <2>2. T = IF k = x.job THEN S \cup {x} ELSE S
    OBVIOUS
  <2>3. Cardinality(S \cup {x}) <= Cardinality(S) + 1
    <3>. HIDE DEF S
    <3>1. \/ Cardinality(S \cup {x}) = Cardinality(S)
          \/ Cardinality(S \cup {x}) = Cardinality(S) + 1
      BY <2>1, FS_AddElement
    <3>. QED  BY <2>1, <3>1
  <2>4. Sending(k) = Cardinality(S) /\ Sending(k)' = Cardinality(T)
    BY DEF Sending
  <2>. HIDE DEF S, T
  <2>. QED  BY <2>1, <2>2, <2>3, <2>4
<1>. QED  BY <1>1, <1>2

\* A send less for one job, none for the others.
LEMMA SendRemoved ==
  ASSUME TypeOK, IsFiniteSet(sends), NEW x \in sends, sends' = sends \ {x}
  PROVE  /\ IsFiniteSet(sends')
         /\ \A k \in Jobs : Sending(k)' = IF k = x.job THEN Sending(k) - 1 ELSE Sending(k)
<1>1. IsFiniteSet(sends')
  BY FS_RemoveElement
<1>2. ASSUME NEW k \in Jobs
      PROVE  Sending(k)' = IF k = x.job THEN Sending(k) - 1 ELSE Sending(k)
  <2>. DEFINE S == {s \in sends : s.job = k}
              T == {s \in sends' : s.job = k}
  <2>1. IsFiniteSet(S)
    <3>1. S \in SUBSET sends
      OBVIOUS
    <3>. QED  BY <3>1, FS_Subset
  <2>2. T = S \ {x} /\ (x \in S <=> k = x.job)
    OBVIOUS
  <2>3. Cardinality(S \ {x}) = IF x \in S THEN Cardinality(S) - 1 ELSE Cardinality(S)
    <3>. HIDE DEF S
    <3>. QED  BY <2>1, FS_RemoveElement
  <2>4. Sending(k) = Cardinality(S) /\ Sending(k)' = Cardinality(T)
    BY DEF Sending
  <2>. HIDE DEF S, T
  <2>. QED  BY <2>2, <2>3, <2>4
<1>. QED  BY <1>1, <1>2

\* A send that goes from opening to writing is still one send.
LEMMA SendReplaced ==
  ASSUME TypeOK, IsFiniteSet(sends), NEW x \in sends, NEW y \in SendType, y.job = x.job,
         sends' = (sends \ {x}) \cup {y}
  PROVE  IsFiniteSet(sends') /\ \A k \in Jobs : Sending(k)' <= Sending(k)
<1>1. IsFiniteSet(sends')
  BY FS_AddElement, FS_RemoveElement
<1>2. ASSUME NEW k \in Jobs PROVE Sending(k)' <= Sending(k)
  <2>. DEFINE S == {s \in sends : s.job = k}
              T == {s \in sends' : s.job = k}
  <2>1. IsFiniteSet(S) /\ Cardinality(S) \in Nat
    <3>1. S \in SUBSET sends
      OBVIOUS
    <3>. QED  BY <3>1, FS_Subset, FS_CardinalityType
  <2>2. \/ x \in S /\ T = (S \ {x}) \cup {y}
        \/ T = S
    OBVIOUS
  <2>3. x \in S => Cardinality((S \ {x}) \cup {y}) <= Cardinality(S)
    <3>. HIDE DEF S
    <3>1. /\ IsFiniteSet(S \ {x})
          /\ x \in S => Cardinality(S \ {x}) = Cardinality(S) - 1
      BY <2>1, FS_RemoveElement
    <3>2. \/ Cardinality((S \ {x}) \cup {y}) = Cardinality(S \ {x})
          \/ Cardinality((S \ {x}) \cup {y}) = Cardinality(S \ {x}) + 1
      BY <3>1, FS_AddElement
    <3>. QED  BY <2>1, <3>1, <3>2
  <2>4. Sending(k) = Cardinality(S) /\ Sending(k)' = Cardinality(T)
    BY DEF Sending
  <2>. HIDE DEF S, T
  <2>. QED  BY <2>1, <2>2, <2>3, <2>4
<1>. QED  BY <1>1, <1>2

\* The ways a step may change a job's account and leave it covered.
LEMMA StaysCovered ==
  ASSUME TypeOK, TypeOK', IsFiniteSet(sends), IsFiniteSet(sends'),
         NEW j \in Jobs, Covered(j),
         \/ /\ papers'[j] = papers[j] /\ Sending(j)' <= Sending(j)
            /\ \/ Passes(j)' = Passes(j) /\ (Due(j)' => Due(j))
               \/ Passes(j)' = Passes(j) + 1
         \/ /\ papers'[j] = papers[j] /\ Sending(j)' <= Sending(j) + 1
            /\ Passes(j)' = Passes(j) /\ Due(j) /\ ~Due(j)'
         \/ /\ Sending(j)' = Sending(j) - 1 /\ Passes(j)' = Passes(j)
            /\ \/ papers'[j] = papers[j]
               \/ papers'[j] = papers[j] + 1 /\ (Due(j)' => Due(j))
  PROVE  Covered(j)'
<1>1. Sending(j) \in Nat /\ papers[j] \in Nat /\ Passes(j) \in Nat
  BY Counts
<1>2. Sending(j)' \in Nat /\ papers'[j] \in Nat /\ Passes(j)' \in Nat
  <2>1. {s \in sends' : s.job = j} \in SUBSET sends'
    OBVIOUS
  <2>2. Sending(j)' \in Nat
    BY <2>1, FS_Subset, FS_CardinalityType DEF Sending
  <2>3. papers'[j] \in Nat /\ retries'[j] \in Nat /\ revived'[j] \in Nat
    BY DEF TypeOK
  <2>4. Passes(j)' \in Nat
    BY <2>3 DEF Passes
  <2>. QED  BY <2>2, <2>3, <2>4
<1>. DEFINE d == IF Due(j) THEN 1 ELSE 0
            e == IF Due(j)' THEN 1 ELSE 0
<1>3. /\ d \in {0, 1} /\ e \in {0, 1} /\ (Due(j) => d = 1) /\ (~Due(j)' => e = 0)
      /\ (Due(j)' => Due(j)) => e <= d
      /\ papers[j] + Sending(j) + d <= Passes(j)
  BY DEF Covered
<1>4. papers'[j] + Sending(j)' + e <= Passes(j)'
  <2>. HIDE DEF d, e
  <2>. QED  BY <1>1, <1>2, <1>3
<1>. QED  BY <1>4 DEF Covered

\* The passes of a job are counted by the calls that put it in, no others.
LEMMA SamePasses ==
  ASSUME UNCHANGED <<created, retries, revived>>, NEW j PROVE Passes(j)' = Passes(j)
BY DEF Passes

\* What a job may still be sent for, when its row and the queue stay.
LEMMA SameDue ==
  ASSUME UNCHANGED waiting, \A p \in Printers : worker'[p] = worker[p],
         unwritten \subseteq unwritten', NEW j \in Jobs, row'[j] \in {"pending", "failed"} => Due(j),
         op'.call # "enqueue" \/ op' = op
  PROVE  Due(j)' => Due(j)
BY DEF Due, Queued, MaySend

\* The calls leave every job covered.
LEMMA CallsCover ==
  ASSUME TypeOK, TypeOK', StaysOutInv, Places, EnqueuesOne, CoverInv, Calls
  PROVE  CoverInv'
<1>. USE DEF CoverInv
<1>0. /\ op.todo \subseteq Jobs /\ op.todo \subseteq Known
      /\ unwritten \subseteq unwritten'
  BY OpType, UnwrittenGrows DEF StaysOutInv, OnlyKnown, Next
<1>1. ASSUME UNCHANGED <<row, created, papers, retries, revived, waiting, worker>>,
             op'.call \notin {"enqueue", "resume"},
             IsFiniteSet(sends'), \A k \in Jobs : Sending(k)' <= Sending(k)
      PROVE  CoverInv'
  <2>1. \A k \in Jobs : (Due(k)' => Due(k)) /\ Passes(k)' = Passes(k)
    BY <1>0, <1>1 DEF Due, Queued, MaySend, Passes
  <2>2. ASSUME NEW k \in Jobs PROVE Covered(k)'
    BY <1>1, <2>1, StaysCovered
  <2>3. Resumes' /\ NewIsNew'
    BY <1>1 DEF Resumes, NewIsNew, Known
  <2>. QED  BY <1>1, <2>2, <2>3
<1>2. ASSUME sends' = sends PROVE /\ IsFiniteSet(sends')
                                  /\ \A k \in Jobs : Sending(k)' <= Sending(k)
  BY <1>2, Counts DEF Sending
<1>3. ASSUME NEW j \in Jobs, EnqueueSave(j) PROVE CoverInv'
  <2>1. /\ UNCHANGED <<waiting, worker, sends, papers, retries, revived>>
        /\ \A k \in Jobs : row'[k] = IF k = j THEN "pending" ELSE row[k]
        /\ op = NoOp /\ j \notin Known
        /\ op' = [call |-> "enqueue", todo |-> {j}]
    BY <1>3 DEF EnqueueSave, Begins, Known, TypeOK
  <2>2. Known' = Known \cup {j}
    BY <1>3, AppendRange DEF EnqueueSave, Known, TypeOK
  <2>3. /\ Passes(j)' = Passes(j) + 1
        /\ \A k \in Jobs \ {j} : Passes(k)' = Passes(k)
    BY <2>1, <2>2 DEF Passes, Known, NewIsNew
  <2>4. ASSUME NEW k \in Jobs \ {j} PROVE Due(k)' => Due(k)
    BY <1>0, <2>1 DEF Due, Queued, MaySend
  <2>5. ASSUME NEW k \in Jobs PROVE Covered(k)'
    BY <1>2, <2>1, <2>3, <2>4, StaysCovered
  <2>6. Resumes' /\ NewIsNew'
    BY <2>1, <2>2 DEF Resumes, NewIsNew
  <2>. QED  BY <1>2, <2>1, <2>5, <2>6
<1>4. ASSUME NEW j \in Jobs, EnqueueDispatch(j) \/ ResumeRest(j) \/ RetryNext(j)
      PROVE  CoverInv'
  <2>1. /\ UNCHANGED <<worker, sends, papers, created>> /\ Dispatch(j) /\ j \in op.todo
        /\ \A k \in Jobs \ {j} : retries'[k] = retries[k] /\ revived'[k] = revived[k]
        /\ op' = NoOp \/ (op'.call = op.call /\ op'.todo = op.todo \ {j})
        /\ op.call = "enqueue" => op' = NoOp
    <3>1. CASE EnqueueDispatch(j)
      BY <3>1 DEF EnqueueDispatch, historyVars
    <3>2. CASE ResumeRest(j)
      BY <3>2 DEF ResumeRest, NextUrgent, Goes, TypeOK
    <3>3. CASE RetryNext(j)
      BY <3>3 DEF RetryNext, NextOf, Goes, TypeOK
    <3>. QED  BY <1>4, <3>1, <3>2, <3>3
  <2>2. \A k : Queued(k)' <=> Queued(k) \/ k = j
    BY <2>1, Dispatched
  <2>3. op.call = "enqueue" => op.todo = {j}
    BY <2>1 DEF EnqueuesOne
  <2>9. \A k \in Jobs : row'[k] = row[k] \/ (k = j /\ row[j] # "none" /\ row'[k] # "none")
    <3>1. CASE RetryNext(j)
      <4>1. row[j] # "none" /\ (row' = row \/ row' = [row EXCEPT ![j] = "pending"])
        BY <3>1 DEF RetryNext, Tried, Refused
      <4>. QED  BY <4>1 DEF TypeOK
    <3>2. CASE EnqueueDispatch(j) \/ ResumeRest(j)
      BY <3>2 DEF EnqueueDispatch, ResumeRest
    <3>. QED  BY <1>4, <3>1, <3>2
  <2>4. ASSUME NEW k \in Jobs \ {j} PROVE Passes(k)' = Passes(k) /\ (Due(k)' => Due(k))
    <3>1. Due(k)' => Due(k)
      BY <1>0, <2>1, <2>2, <2>9 DEF Due, MaySend, NoOp
    <3>. QED  BY <2>1, <3>1 DEF Passes
  <2>5. \/ Passes(j)' = Passes(j) /\ (Due(j)' => Due(j))
        \/ Passes(j)' = Passes(j) + 1
    <3>1. CASE EnqueueDispatch(j)
      <4>1. Passes(j)' = Passes(j) /\ Due(j)
        BY <3>1 DEF EnqueueDispatch, Passes, historyVars, Due
      <4>. QED  BY <4>1
    <3>2. CASE RetryNext(j)
      <4>1. UNCHANGED <<created, revived>> /\ retries'[j] = retries[j] + 1 /\ j \in Range(created)
        BY <1>0, <2>1, <3>2 DEF RetryNext, TypeOK, Known
      <4>. QED  BY <4>1 DEF Passes, TypeOK
    <3>3. CASE ResumeRest(j) /\ (row[j] = "parked" \/ j \in unwritten)
      <4>1. UNCHANGED <<created, retries>> /\ revived'[j] = revived[j] + 1 /\ j \in Range(created)
        BY <1>0, <2>1, <3>3 DEF ResumeRest, TypeOK, Known
      <4>. QED  BY <4>1 DEF Passes, TypeOK
    <3>4. CASE ResumeRest(j) /\ ~(row[j] = "parked" \/ j \in unwritten)
      <4>1. Passes(j)' = Passes(j)
        BY <3>4 DEF ResumeRest, Passes
      <4>2. row[j] \in {"pending", "failed"} /\ j \notin unwritten
        BY <3>4 DEF ResumeRest, Resumes, NextUrgent, TypeOK, RowState
      <4>. QED  BY <4>1, <4>2 DEF Due
    <3>. QED  BY <1>4, <3>1, <3>2, <3>3, <3>4
  <2>6. ASSUME NEW k \in Jobs PROVE Covered(k)'
    BY <1>2, <2>1, <2>4, <2>5, StaysCovered
  <2>7. NewIsNew'
    BY <1>0, <2>1 DEF NewIsNew, Known
  <2>8. Resumes'
    BY <1>0, <2>1, <2>9 DEF Resumes, NoOp
  <2>. QED  BY <1>2, <2>1, <2>6, <2>7, <2>8
<1>5. ASSUME \/ RetryOne \/ RetryParked \/ DismissOne \/ DismissAll
             \/ \E j \in Jobs : RetryRefused(j) \/ DismissFails(j)
      PROVE  CoverInv'
  <2>1. /\ UNCHANGED <<row, created, papers, retries, revived, waiting, worker, sends>>
        /\ op'.call \notin {"enqueue", "resume"}
    BY <1>5
    DEF RetryOne, RetryParked, AskRetry, DismissOne, DismissAll, AskDismiss, DismissFails,
        Refused, RetryRefused, Begins, NoOp, historyVars
  <2>. QED  BY <1>1, <1>2, <2>1
<1>6. ASSUME NEW j \in Jobs, DismissMark(j) PROVE CoverInv'
  <2>1. /\ UNCHANGED <<row, created, papers, retries, revived, waiting, worker>>
        /\ op'.call = "remove" /\ Interrupt(j)
    BY <1>6 DEF DismissMark, Begins, historyVars
  <2>. QED  BY <1>1, <2>1, InterruptCounts
<1>7. ASSUME NEW j \in Jobs, DismissRemove(j) \/ ResumeCut(j) PROVE CoverInv'
  <2>1. /\ UNCHANGED <<created, papers, retries, revived, waiting, worker, sends>>
        /\ \A k \in Jobs \ {j} : row'[k] = row[k]
        /\ row'[j] \in {"none", "parked"} \/ j \in unwritten'
        /\ op.call # "enqueue" /\ op'.call # "enqueue"
        /\ op'.call = "resume" => op.call = "resume" /\ op'.todo = op.todo \ {j}
    <3>1. CASE DismissRemove(j)
      BY <3>1 DEF DismissRemove, Goes, NoOp, TypeOK
    <3>2. CASE ResumeCut(j)
      <4>1. /\ \A k \in Jobs \ {j} : row'[k] = row[k]
            /\ row'[j] \in {"none", "parked"} \/ j \in unwritten'
        BY <3>2, ParkRow DEF ResumeCut
      <4>. QED  BY <3>2, <4>1 DEF ResumeCut, Goes, NoOp, historyVars, TypeOK
    <3>. QED  BY <1>7, <3>1, <3>2
  <2>2. ASSUME NEW k \in Jobs PROVE (Due(k)' => Due(k)) /\ Passes(k)' = Passes(k)
    BY <1>0, <2>1 DEF Due, Queued, MaySend, Passes
  <2>3. ASSUME NEW k \in Jobs PROVE Covered(k)'
    BY <1>2, <2>1, <2>2, StaysCovered
  <2>4. Resumes' /\ NewIsNew'
    BY <1>0, <2>1 DEF Resumes, NewIsNew, Known
  <2>. QED  BY <1>2, <2>1, <2>3, <2>4
<1>. QED  BY <1>3, <1>4, <1>5, <1>6, <1>7 DEF Calls, CallGoesOn

\* Taking or dropping a ticket leaves every job covered.
LEMMA TakeCovers ==
  ASSUME TypeOK, TypeOK', Places, CoverInv, NEW p \in Printers, Take(p) \/ WorkerStops(p)
  PROVE  CoverInv'
<1>. USE DEF CoverInv
<1>0. unwritten \subseteq unwritten'
  BY UnwrittenGrows DEF Next, Worker
<1>1. UNCHANGED <<sends, papers, op, created, retries, revived>>
  BY DEF Take, WorkerStops, historyVars
<1>2. PICK j \in Jobs \cup {NoJob} :
        /\ Queued(j) \/ j = NoJob
        /\ \A k \in Jobs : Queued(k)' => Queued(k)
        /\ \A q \in Printers \ {p} : worker'[q] = worker[q]
        /\ \A k \in Jobs : row'[k] = row[k] \/ (row'[k] = "parked" /\ row[k] # "none")
        /\ worker'[p] = worker[p] \/ worker'[p].job = j
        /\ worker'[p].at = "stopped" => worker'[p].job = worker[p].job
  <2>1. CASE WorkerStops(p)
    <3>1. \A q \in Printers : waiting'[q] = waiting[q] \/ waiting'[q] = <<>>
      BY <2>1 DEF WorkerStops, TypeOK
    <3>2. \A k \in Jobs : Queued(k)' => Queued(k)
      BY <3>1 DEF Queued, Range
    <3>3. /\ worker[p].job = NoJob /\ row' = row /\ worker'[p].job = worker[p].job
          /\ \A q \in Printers \ {p} : worker'[q] = worker[q]
      BY <2>1 DEF WorkerStops, Places, AtItsPrinter, TypeOK, InHandType
    <3>. QED  BY <3>2, <3>3
  <2>2. CASE Take(p)
    <3>1. PICK i \in DOMAIN waiting[p] :
            /\ waiting[p][i] \in Jobs
            /\ waiting' = [waiting EXCEPT ![p] = RemoveAt(waiting[p], i)]
            /\ \A q \in Printers \ {p} : worker'[q] = worker[q]
            /\ \/ /\ Park(waiting[p][i]) /\ UNCHANGED worker
               \/ /\ worker'[p].job = waiting[p][i] /\ worker'[p].at = "ready"
                  /\ UNCHANGED row
      BY <2>2, TakenTicket
    <3>2. PICK j \in Jobs : j = waiting[p][i]
      BY <3>1
    <3>3. waiting[p] \in Seq(Jobs) /\ DOMAIN waiting = Printers
      BY DEF TypeOK
    <3>4. Range(RemoveAt(waiting[p], i)) \subseteq Range(waiting[p])
      BY <3>3, RemoveAtType
    <3>5. \A k \in Jobs : Queued(k)' => Queued(k)
      BY <3>1, <3>3, <3>4 DEF Queued
    <3>6. Queued(j)
      BY <3>2 DEF Queued, Range
    <3>7. \A k \in Jobs : row'[k] = row[k] \/ (row'[k] = "parked" /\ row[k] # "none")
      <4>1. row' = row \/ row' = Updated(row, j, "parked")
        BY <3>1, <3>2 DEF Park, Tried, Refused
      <4>. QED  BY <4>1, <3>2 DEF Updated, TypeOK
    <3>8. worker'[p].at = "stopped" => worker'[p].job = worker[p].job
      BY <3>1
    <3>9. worker'[p] = worker[p] \/ worker'[p].job = j
      BY <3>1, <3>2
    <3>. QED  BY <3>1, <3>5, <3>6, <3>7, <3>8, <3>9
  <2>. QED  BY <2>1, <2>2
<1>3. ASSUME NEW k \in Jobs PROVE Due(k)' => Due(k)
  <2>1. MaySend(k)' => MaySend(k) \/ Queued(k)
    BY <1>2, QueueOfJobs DEF MaySend
  <2>. QED  BY <1>0, <1>1, <1>2, <2>1 DEF Due
<1>4. ASSUME NEW k \in Jobs PROVE Covered(k)'
  <2>1. Sending(k)' <= Sending(k)
    BY <1>1, Counts DEF Sending
  <2>. QED  BY <1>1, <1>3, <2>1, StaysCovered, SamePasses
<1>5. Resumes' /\ NewIsNew' /\ IsFiniteSet(sends')
  BY <1>1, <1>2, OpType DEF Resumes, NewIsNew, Known
<1>. QED  BY <1>4, <1>5

\* What becomes due as a worker goes on: a job that was, but for its last pass
\* begun, which no longer is.
LEMMA WorkerCovers ==
  ASSUME TypeOK, TypeOK', Places, CoverInv, NEW p \in Printers, Worker(p)
  PROVE  CoverInv'
<1>. USE DEF CoverInv
<1>0. unwritten \subseteq unwritten'
  BY UnwrittenGrows DEF Next
<1>1. CASE Take(p) \/ WorkerStops(p)
  BY <1>1, TakeCovers
<1>2. CASE ~Take(p) /\ ~WorkerStops(p)
  <2>1. PICK j \in Jobs : j = worker[p].job
    BY <1>2, WorkerGoesOn
  <2>2. /\ UNCHANGED <<waiting, op, created, papers, retries, revived>>
        /\ worker[p].at \notin {"idle", "stopped"}
        /\ \A q \in Printers \ {p} : worker'[q] = worker[q]
        /\ \/ worker'[p] = Idle
           \/ worker'[p].job = j /\ worker'[p].at \notin {"idle", "stopped"}
        /\ \A k \in Jobs \ {j} : row'[k] = row[k]
    BY <1>2, <2>1, WorkerGoesOn
  <2>3. InHand(j) /\ ~Queued(j) /\ ~BeingPutIn(j) /\ PrinterOf[j] = p
    BY <2>1, <2>2, QueueOfJobs DEF InHand, Places, OnePlace, AtItsPrinter
  <2>4. ASSUME NEW k \in Jobs \ {j} PROVE Due(k)' => Due(k)
    <3>1. worker'[p].job # k
      BY <2>2, IdleType, QueueOfJobs
    <3>. QED  BY <1>0, <2>2, <2>4, <3>1 DEF Due, Queued, MaySend
  <2>5. Due(j)' => \/ row'[j] \in {"pending", "failed"} /\ j \notin unwritten'
                   \/ /\ worker'[p].job = j
                      /\ \/ worker'[p].at \in {"ready", "begin", "backoff"}
                         \/ /\ worker'[p].at \in {"answered", "settle"}
                            /\ worker'[p].answer \notin {"ok", "permanent"}
    <3>1. \A q \in Printers \ {p} : worker'[q].job # j
      BY <2>2, <2>3, QueueOfJobs DEF Places, AtItsPrinter
    <3>2. ~Queued(j)' /\ ~(op'.call = "enqueue" /\ j \in op'.todo)
      BY <2>2, <2>3 DEF Queued, BeingPutIn
    <3>. QED  BY <3>1, <3>2 DEF Due, MaySend
  <2>6. /\ IsFiniteSet(sends')
        /\ \A k \in Jobs \ {j} : Sending(k)' <= Sending(k)
        /\ \/ Sending(j)' <= Sending(j) /\ (Due(j)' => Due(j))
           \/ Sending(j)' <= Sending(j) + 1 /\ Due(j) /\ ~Due(j)'
    <3>0. worker[p] \in InHandType /\ DOMAIN worker = Printers
      BY DEF TypeOK
    <3>1. ASSUME sends' = sends
          PROVE IsFiniteSet(sends') /\ \A k \in Jobs : Sending(k)' <= Sending(k)
      <4>1. \A k \in Jobs : Sending(k)' = Sending(k)
        BY <3>1 DEF Sending
      <4>2. \A k \in Jobs : Sending(k) \in Nat
        BY Counts
      <4>. QED  BY <3>1, <4>1, <4>2
    <3>2. CASE CheckBefore(p) \/ CheckAfter(p) \/ Wake(p)
      <4>1. row' = row /\ sends' = sends
        BY <3>2 DEF CheckBefore, CheckAfter, Wake
      <4>2. \/ worker'[p] = Idle
            \/ worker[p].at \in {"ready", "backoff"}
            \/ /\ worker[p].at = "answered" /\ worker'[p].at = "settle"
               /\ worker'[p].answer = worker[p].answer
        BY <3>0, <3>2 DEF CheckBefore, CheckAfter, Wake, InHandType
      <4>3. Due(j)' => Due(j)
        BY <1>0, <2>1, <2>5, <4>1, <4>2, IdleType, QueueOfJobs DEF Due, MaySend
      <4>. QED  BY <3>1, <4>1, <4>3
    <3>3. CASE Deadline(p)
      <4>1. row' = row /\ Interrupt(j)
        BY <2>1, <3>3 DEF Deadline
      <4>2. worker'[p].at = "answered" /\ worker'[p].answer = "permanent"
        BY <3>0, <3>3 DEF Deadline, InHandType
      <4>3. Due(j)' => Due(j)
        BY <1>0, <2>5, <4>1, <4>2 DEF Due
      <4>. QED  BY <4>1, <4>3, InterruptCounts
    <3>4. CASE SettlePrinted(p) \/ SettleParked(p)
      <4>1. sends' = sends /\ worker'[p] = Idle
        BY <3>0, <3>4 DEF SettlePrinted, SettleParked
      <4>2. row'[j] \in {"none", "parked"} \/ j \in unwritten'
        <5>1. \/ row' = [row EXCEPT ![j] = "none"] \/ row' = Updated(row, j, "parked")
              \/ j \in unwritten'
          BY <2>1, <3>4 DEF SettlePrinted, SettleParked, Park, Tried, Refused
        <5>. QED  BY <5>1 DEF Updated, TypeOK
      <4>3. ~Due(j)'
        BY <2>5, <4>1, <4>2, IdleType, QueueOfJobs
      <4>. QED  BY <3>1, <4>1, <4>3
    <3>5. CASE SettleFailed(p)
      <4>1. sends' = sends /\ worker[p].at = "settle" /\ worker[p].answer \notin {"ok", "permanent"}
        BY <3>5 DEF SettleFailed, GivesUp
      <4>2. Due(j)
        BY <2>1, <4>1 DEF Due, MaySend
      <4>. QED  BY <3>1, <4>1, <4>2
    <3>6. CASE Begin(p)
      <4>1. Due(j)
        BY <2>1, <3>6 DEF Begin, Due, MaySend
      <4>2. row'[j] \in {"none", "printing"} \/ j \in unwritten'
        <5>1. row' = Updated(row, j, "printing") \/ j \in unwritten'
          BY <2>1, <3>6 DEF Begin, Tried, Refused
        <5>. QED  BY <5>1 DEF Updated, TypeOK
      <4>3. CASE sends' = sends
        BY <3>1, <4>1, <4>3
      <4>4. CASE sends' # sends
        <5>1. /\ sends' = sends \cup {Send(j, started[j] + 1, "opening", FALSE)}
              /\ worker' = [worker EXCEPT ![p].at = "send", ![p].send = started[j] + 1,
                                          ![p].answer = "none"]
          BY <2>1, <3>6, <4>4 DEF Begin
        <5>2. /\ Send(j, started[j] + 1, "opening", FALSE) \in SendType
              /\ Send(j, started[j] + 1, "opening", FALSE).job = j
          BY DEF Send, SendType, TypeOK
        <5>3. worker'[p].at = "send"
          BY <3>0, <5>1 DEF InHandType
        <5>4. ~Due(j)'
          BY <2>5, <4>2, <5>3
        <5>. QED  BY <4>1, <5>1, <5>2, <5>4, SendAdded
      <4>. QED  BY <4>3, <4>4
    <3>. QED  BY <1>2, <3>2, <3>3, <3>4, <3>5, <3>6 DEF Worker
  <2>7. ASSUME NEW k \in Jobs PROVE Covered(k)'
    <3>1. Passes(k)' = Passes(k)
      BY <2>2, SamePasses
    <3>2. CASE k = j
      BY <2>2, <2>6, <3>1, <3>2, StaysCovered
    <3>3. CASE k # j
      BY <2>2, <2>4, <2>6, <3>1, <3>3, StaysCovered
    <3>. QED  BY <3>2, <3>3
  <2>8. Resumes' /\ NewIsNew'
    BY <2>2, <2>3, OpType DEF Resumes, NewIsNew, Known, BeingPutIn
  <2>. QED  BY <2>6, <2>7, <2>8
<1>. QED  BY <1>1, <1>2

\* A send that ends pays for its paper, or for the next try.
LEMMA SendCovers ==
  ASSUME TypeOK, TypeOK', Places, CoverInv, SendThread
  PROVE  CoverInv'
<1>. USE DEF CoverInv
<1>1. /\ UNCHANGED <<row, waiting, op, created, retries, revived, unwritten>>
      /\ \A p \in Printers : \/ worker'[p] = worker[p]
                             \/ /\ worker[p].at = "send" /\ worker'[p].at = "answered"
                                /\ worker'[p].job = worker[p].job
  BY SendGoesOn
<1>2. Resumes' /\ NewIsNew'
  BY <1>1 DEF Resumes, NewIsNew, Known
<1>3. ASSUME NEW k \in Jobs PROVE Passes(k)' = Passes(k)
  BY <1>1, SamePasses
<1>4. ASSUME NEW k \in Jobs,
             \A p \in Printers : worker'[p] # worker[p] =>
               worker[p].job # k \/ worker'[p].answer \in {"ok", "permanent"}
      PROVE  Due(k)' => Due(k)
  <2>1. MaySend(k)' => MaySend(k)
    BY <1>1, <1>4 DEF MaySend
  <2>. QED  BY <1>1, <2>1 DEF Due, Queued
<1>5. ASSUME NEW s \in sends, Opened(s) PROVE CoverInv'
  <2>1. s \in SendType
    BY DEF TypeOK
  <2>2. /\ [s EXCEPT !.at = "writing"] \in SendType
        /\ [s EXCEPT !.at = "writing"].job = s.job
    BY <2>1 DEF SendType
  <2>3. /\ sends' = (sends \ {s}) \cup {[s EXCEPT !.at = "writing"]}
        /\ UNCHANGED <<worker, papers>>
    BY <1>5 DEF Opened, historyVars
  <2>4. IsFiniteSet(sends') /\ \A k \in Jobs : Sending(k)' <= Sending(k)
    BY <2>2, <2>3, SendReplaced
  <2>5. ASSUME NEW k \in Jobs PROVE Covered(k)'
    BY <1>3, <1>4, <2>3, <2>4, StaysCovered
  <2>. QED  BY <1>2, <2>4, <2>5
<1>6. ASSUME NEW s \in sends, NEW a \in Answer \ {"none"}, OpenFailed(s) \/ Written(s, a)
      PROVE  CoverInv'
  <2>1. s \in SendType /\ s.job \in Jobs
    BY DEF TypeOK, SendType
  <2>2. /\ sends' = sends \ {s}
        /\ \A k \in Jobs \ {s.job} : papers'[k] = papers[k]
        /\ papers'[s.job] = papers[s.job] \/ papers'[s.job] = papers[s.job] + 1
    BY <1>6, <2>1 DEF OpenFailed, Written, historyVars, TypeOK
  <2>3. PICK b : Answered(s, b) /\ (papers'[s.job] # papers[s.job] => b = "ok")
    BY <1>6, <2>1 DEF OpenFailed, Written, historyVars, TypeOK
  <2>4. \A p \in Printers : worker'[p] # worker[p] => worker[p].job = s.job /\ worker'[p].answer = b
    <3>1. \A p \in Printers : worker[p] \in InHandType
      BY DEF TypeOK
    <3>. QED  BY <2>3, <3>1 DEF Answered, AwaitedBy, InHandType
  <2>5. /\ IsFiniteSet(sends')
        /\ \A k \in Jobs : Sending(k)' = IF k = s.job THEN Sending(k) - 1 ELSE Sending(k)
    BY <2>2, SendRemoved
  <2>6. ASSUME NEW k \in Jobs, k # s.job PROVE Covered(k)'
    <3>1. (Due(k)' => Due(k)) /\ Sending(k)' = Sending(k) /\ Sending(k) \in Nat
      BY <1>4, <2>4, <2>5, <2>6, Counts
    <3>. QED  BY <1>3, <2>2, <2>5, <2>6, <3>1, StaysCovered
  <2>7. Covered(s.job)'
    <3>1. papers'[s.job] # papers[s.job] => (Due(s.job)' => Due(s.job))
      BY <1>4, <2>1, <2>3, <2>4
    <3>. QED  BY <1>3, <2>1, <2>2, <2>5, <3>1, StaysCovered
  <2>. QED  BY <1>2, <2>5, <2>6, <2>7
<1>. QED  BY <1>5, <1>6 DEF SendThread, Answer

\* Every step leaves every job covered.
LEMMA CoverHolds ==
  ASSUME TypeOK, TypeOK', StaysOutInv, Places, EnqueuesOne, CoverInv, [Next]_vars
  PROVE  CoverInv'
<1>1. CASE Calls
  BY <1>1, CallsCover
<1>2. CASE \E p \in Printers : Worker(p)
  BY <1>2, WorkerCovers
<1>3. CASE SendThread
  BY <1>3, SendCovers
<1>4. ASSUME UNCHANGED <<row, created, papers, retries, revived>>,
             \/ UNCHANGED <<waiting, worker, sends>>
             \/ sends' = {} /\ \A k \in Jobs : ~Queued(k)' /\ ~MaySend(k)',
             op' = op \/ op'.call # "enqueue",
             op' = op \/ Resumes'
      PROVE  CoverInv'
  <2>1. ASSUME NEW k \in Jobs PROVE Due(k)' => Due(k)
    BY <1>4, UnwrittenGrows DEF Due, Queued, MaySend
  <2>2. IsFiniteSet(sends') /\ \A k \in Jobs : Sending(k)' <= Sending(k)
    <3>1. \A k \in Jobs : Sending(k) \in Nat /\ IsFiniteSet(sends)
      BY Counts DEF CoverInv
    <3>2. CASE UNCHANGED <<waiting, worker, sends>>
      <4>1. \A k \in Jobs : Sending(k)' = Sending(k)
        BY <3>2 DEF Sending
      <4>. QED  BY <3>1, <3>2, <4>1 DEF CoverInv
    <3>3. CASE sends' = {}
      <4>1. \A k \in Jobs : {s \in sends' : s.job = k} = {}
        BY <3>3
      <4>2. \A k \in Jobs : Sending(k)' = 0
        BY <4>1, FS_EmptySet DEF Sending
      <4>. QED  BY <3>1, <3>3, <4>2, FS_EmptySet
    <3>. QED  BY <1>4, <3>2, <3>3
  <2>3. ASSUME NEW k \in Jobs PROVE Covered(k)'
    BY <1>4, <2>1, <2>2, StaysCovered, SamePasses DEF CoverInv
  <2>4. Resumes' /\ NewIsNew'
    BY <1>4 DEF Resumes, NewIsNew, Known, CoverInv
  <2>. QED  BY <2>2, <2>3, <2>4 DEF CoverInv
<1>5. CASE Shutdown \/ UNCHANGED vars
  BY <1>4, <1>5 DEF Shutdown, vars, queueVars, historyVars
<1>6. CASE Exit \/ Crash
  <2>1. /\ UNCHANGED <<row, created, papers, retries, revived>> /\ sends' = {} /\ op' = NoOp
        /\ \A p \in Printers : waiting'[p] = <<>> /\ worker'[p] = Idle
    BY <1>6 DEF Exit, Crash, PowerOff, historyVars
  <2>2. \A k \in Jobs : ~Queued(k)' /\ ~MaySend(k)'
    BY <2>1, IdleType DEF Queued, MaySend, Range
  <2>3. op'.call # "enqueue" /\ Resumes'
    BY <2>1 DEF NoOp, Resumes
  <2>. QED  BY <1>4, <2>1, <2>2, <2>3
<1>7. CASE Start
  <2>1. UNCHANGED <<row, created, papers, retries, revived, waiting, worker, sends>>
    BY <1>7 DEF Start
  <2>2. op'.call # "enqueue" /\ Resumes'
    BY <1>7 DEF Start, Goes, NoOp, Resumes
  <2>. QED  BY <1>4, <2>1, <2>2
<1>. QED  BY <1>1, <1>2, <1>3, <1>5, <1>6, <1>7 DEF Next

-----------------------------------------------------------------------------
(* The queue's steps as steps of PrintSpool.                               *)

\* A step that neither creates a job, nor makes a row come or go, nor puts a job
\* in again, nor prints, is none of the promise's.
LEMMA StuttersWhen ==
  ASSUME UNCHANGED <<created, retries, revived, papers, dismissed>>,
         \A j \in Jobs : row'[j] = "none" <=> row[j] = "none"
  PROVE  UNCHANGED Spool!vars
<1>1. \A j \in Jobs : Life(j)' = Life(j) /\ Passes(j)' = Passes(j)
  BY DEF Life, Passes
<1>2. /\ [j \in Jobs |-> Life(j)]' = [j \in Jobs |-> Life(j)]
      /\ [j \in Jobs |-> Passes(j)]' = [j \in Jobs |-> Passes(j)]
  BY <1>1
<1>. QED  BY <1>2 DEF Spool!vars

\* Saving a job accepts it, with one pass.
LEMMA SaveAccepts ==
  ASSUME TypeOK, StaysOutInv, CoverInv, NEW j \in Jobs, EnqueueSave(j)
  PROVE  Spool!Next
<1>1. /\ UNCHANGED <<retries, revived, papers, dismissed>> /\ j \notin Known
      /\ \A k \in Jobs : row'[k] = IF k = j THEN "pending" ELSE row[k]
  BY DEF EnqueueSave, Known, TypeOK
<1>2. Known' = Known \cup {j}
  BY AppendRange DEF EnqueueSave, Known, TypeOK
<1>3. /\ Life(j) = "new" /\ Life(j)' = "kept" /\ Passes(j)' = 1
      /\ \A k \in Jobs \ {j} : Life(k)' = Life(k) /\ Passes(k)' = Passes(k)
  BY <1>1, <1>2 DEF Life, Passes, Known, CoverInv, NewIsNew
<1>4. Spool!Accept(j)
  BY <1>1, <1>3 DEF Spool!Accept
<1>. QED  BY <1>4 DEF Spool!Next

\* Putting a job in again, by a person or by a start, is a pass more.
LEMMA PutInAgain ==
  ASSUME TypeOK, StaysOutInv, NEW j \in Jobs, j \in Known, row[j] # "none",
         UNCHANGED <<created, papers, dismissed>>,
         \A k \in Jobs : row'[k] = "none" <=> row[k] = "none",
         \/ retries' = [retries EXCEPT ![j] = @ + 1] /\ UNCHANGED revived
         \/ revived' = [revived EXCEPT ![j] = @ + 1] /\ UNCHANGED retries
  PROVE  Spool!Next
<1>1. \A k \in Jobs : Life(k)' = Life(k)
  BY DEF Life
<1>2. Life(j) = "kept"
  BY DEF Life, Known
<1>3. \A k \in Jobs : Passes(k)' = IF k \in {j} THEN Passes(k) + 1 ELSE Passes(k)
  <2>1. /\ retries[j] \in Nat /\ revived[j] \in Nat
        /\ \A k \in Jobs \ {j} : retries'[k] = retries[k] /\ revived'[k] = revived[k]
        /\ \/ retries'[j] = retries[j] + 1 /\ revived'[j] = revived[j]
           \/ revived'[j] = revived[j] + 1 /\ retries'[j] = retries[j]
    BY DEF TypeOK
  <2>2. Passes(j)' = Passes(j) + 1
    BY <2>1 DEF Passes, Known
  <2>3. \A k \in Jobs \ {j} : Passes(k)' = Passes(k)
    BY <2>1 DEF Passes
  <2>. QED  BY <2>2, <2>3
<1>4. Spool!PutBack({j})
  BY <1>1, <1>2, <1>3 DEF Spool!PutBack
<1>. QED  BY <1>4 DEF Spool!Next

\* Each step of the queue is a step of the promise, or none.
LEMMA StepKeepsThePromise ==
  ASSUME TypeOK, TypeOK', NeverLostInv, StaysOutInv, CoverInv, CoverInv', [Next]_vars
  PROVE  [Spool!Next]_(Spool!vars)
<1>1. ASSUME NEW j \in Jobs, EnqueueSave(j) PROVE Spool!Next
  BY <1>1, SaveAccepts
<1>2. ASSUME NEW j \in Jobs, RetryNext(j) PROVE Spool!Next
  <2>1. /\ j \in Known /\ row[j] # "none" /\ UNCHANGED <<created, papers, dismissed, revived>>
        /\ retries' = [retries EXCEPT ![j] = @ + 1]
    BY <1>2 DEF RetryNext, StaysOutInv, OnlyKnown
  <2>2. \A k \in Jobs : row'[k] = "none" <=> row[k] = "none"
    <3>1. row[j] # "none" /\ (row' = row \/ row' = [row EXCEPT ![j] = "pending"])
      BY <1>2 DEF RetryNext, Tried, Refused
    <3>. QED  BY <3>1 DEF TypeOK
  <2>. QED  BY <2>1, <2>2, PutInAgain
<1>3. ASSUME NEW j \in Jobs, ResumeRest(j) PROVE [Spool!Next]_(Spool!vars)
  <2>1. UNCHANGED <<row, created, papers, dismissed, retries>>
    BY <1>3 DEF ResumeRest
  <2>4. row[j] # "none"
    BY <1>3 DEF ResumeRest, NextUrgent, CoverInv, Resumes
  <2>2. CASE row[j] = "parked" \/ j \in unwritten
    <3>1. j \in Known /\ revived' = [revived EXCEPT ![j] = @ + 1]
      BY <1>3, <2>2, <2>4 DEF ResumeRest, StaysOutInv, OnlyKnown
    <3>. QED  BY <2>1, <2>4, <3>1, PutInAgain
  <2>3. CASE ~(row[j] = "parked" \/ j \in unwritten)
    <3>1. revived' = revived
      BY <1>3, <2>3 DEF ResumeRest
    <3>. QED  BY <2>1, <3>1, StuttersWhen
  <2>. QED  BY <2>2, <2>3
<1>4. ASSUME NEW j \in Jobs, DismissRemove(j) PROVE Spool!Next
  <2>1. /\ j \in Known /\ UNCHANGED <<created, retries, revived, papers>>
        /\ dismissed' = dismissed \cup {j}
        /\ \A k \in Jobs : row'[k] = IF k = j THEN "none" ELSE row[k]
    BY <1>4 DEF DismissRemove, NextOf, StaysOutInv, OnlyKnown, TypeOK
  <2>2. /\ Life(j) # "new" /\ Life(j)' = "gone" /\ \A k \in Jobs \ {j} : Life(k)' = Life(k)
        /\ \A k \in Jobs : Passes(k)' = Passes(k)
    BY <2>1 DEF Life, Passes, Known
  <2>3. Spool!GiveUp(j)
    BY <2>1, <2>2 DEF Spool!GiveUp
  <2>. QED  BY <2>3 DEF Spool!Next
<1>5. ASSUME NEW p \in Printers, SettlePrinted(p) PROVE [Spool!Next]_(Spool!vars)
  <2>1. PICK j \in Jobs : j = worker[p].job
    BY <1>5 DEF SettlePrinted, TypeOK
  <2>2. /\ UNCHANGED <<created, retries, revived, papers, dismissed>>
        /\ row' = row \/ row' = [row EXCEPT ![j] = "none"]
        /\ papers[j] > 0
    BY <1>5, <2>1 DEF SettlePrinted, Tried, Refused, historyVars, TypeOK, NeverLostInv,
                      OkMeansPaper
  <2>3. CASE row' = row \/ row[j] = "none"
    <3>1. \A k \in Jobs : row'[k] = "none" <=> row[k] = "none"
      BY <2>2, <2>3 DEF TypeOK
    <3>. QED  BY <2>2, <3>1, StuttersWhen
  <2>4. CASE row' # row /\ row[j] # "none"
    <3>0. \A k \in Jobs : row'[k] = IF k = j THEN "none" ELSE row[k]
      BY <2>2, <2>4 DEF TypeOK
    <3>1. j \in Known
      BY <2>4 DEF StaysOutInv, OnlyKnown
    <3>2. /\ Life(j) = "kept" /\ Life(j)' = "gone"
          /\ \A k \in Jobs \ {j} : Life(k)' = Life(k)
          /\ \A k \in Jobs : Passes(k)' = Passes(k)
      BY <2>2, <2>4, <3>0, <3>1 DEF Life, Passes, Known
    <3>3. Spool!Printed(j)
      BY <2>2, <3>2 DEF Spool!Printed
    <3>. QED  BY <3>3 DEF Spool!Next
  <2>. QED  BY <2>3, <2>4
<1>6. ASSUME NEW s \in sends, NEW a, Written(s, a) PROVE [Spool!Next]_(Spool!vars)
  <2>1. /\ UNCHANGED <<row, created, retries, revived, dismissed>> /\ s.job \in Jobs
    BY <1>6 DEF Written, TypeOK, SendType
  <2>2. \A k \in Jobs : Life(k)' = Life(k) /\ Passes(k)' = Passes(k)
    BY <2>1 DEF Life, Passes
  <2>3. \A k \in Jobs : papers[k] <= papers'[k]
    <3>1. papers' = papers \/ papers' = [papers EXCEPT ![s.job] = papers[s.job] + 1]
      BY <1>6 DEF Written
    <3>2. \A k \in Jobs : papers[k] \in Nat /\ papers \in [Jobs -> Nat]
      BY DEF TypeOK
    <3>. QED  BY <2>1, <3>1, <3>2
  <2>4. ASSUME NEW k \in Jobs PROVE papers'[k] <= Passes(k)
    <3>. DEFINE d == IF Due(k)' THEN 1 ELSE 0
    <3>1. d \in {0, 1} /\ papers'[k] + Sending(k)' + d <= Passes(k)'
      BY DEF CoverInv, Covered
    <3>2. papers'[k] \in Nat /\ Passes(k)' \in Nat /\ Sending(k)' \in Nat
      <4>1. {x \in sends' : x.job = k} \in SUBSET sends' /\ IsFiniteSet(sends')
        BY DEF CoverInv
      <4>2. Sending(k)' \in Nat
        BY <4>1, FS_Subset, FS_CardinalityType DEF Sending
      <4>. QED  BY <2>2, <4>2, Counts DEF TypeOK, CoverInv
    <3>. HIDE DEF d
    <3>. QED  BY <2>2, <3>1, <3>2
  <2>5. Spool!ComesOut
    BY <2>1, <2>2, <2>3, <2>4 DEF Spool!ComesOut, TypeOK
  <2>. QED  BY <2>5 DEF Spool!Next
<1>7. ASSUME NEW j \in Jobs,
             \/ EnqueueDispatch(j) \/ RetryRefused(j) \/ DismissMark(j)
             \/ DismissFails(j) \/ ResumeCut(j)
      PROVE  UNCHANGED Spool!vars
  <2>1. UNCHANGED <<created, retries, revived, papers, dismissed>>
    BY <1>7 DEF EnqueueDispatch, RetryRefused, DismissMark, DismissFails, ResumeCut,
                historyVars
  <2>2. row' = row \/ row' = Updated(row, j, "parked")
    BY <1>7 DEF EnqueueDispatch, RetryRefused, DismissMark, DismissFails, ResumeCut, Park,
                Tried, Refused
  <2>3. \A k \in Jobs : row'[k] = "none" <=> row[k] = "none"
    BY <2>2 DEF Updated, TypeOK
  <2>. QED  BY <2>1, <2>3, StuttersWhen
<1>8. ASSUME RetryOne \/ RetryParked \/ DismissOne \/ DismissAll
             \/ Shutdown \/ Exit \/ Crash \/ Start \/ UNCHANGED vars
      PROVE  UNCHANGED Spool!vars
  <2>1. UNCHANGED <<row, created, retries, revived, papers, dismissed>>
    BY <1>8
    DEF RetryOne, RetryParked, AskRetry, DismissOne, DismissAll, AskDismiss,
        Shutdown, Exit, Crash, PowerOff, Start, vars, queueVars, historyVars
  <2>. QED  BY <2>1, StuttersWhen
<1>9. ASSUME NEW p \in Printers, Worker(p), ~SettlePrinted(p) PROVE UNCHANGED Spool!vars
  <2>1. UNCHANGED <<created, retries, revived, papers, dismissed>>
    BY <1>9 DEF Worker, Take, WorkerStops, CheckBefore, Begin, Deadline, CheckAfter,
                SettleParked, SettleFailed, Wake, historyVars
  <2>2. row' = row \/ \E j \in Jobs, st \in RowState \ {"none"} : row' = Updated(row, j, st)
    <3>1. CASE Take(p)
      BY <3>1, TakenTicket DEF Park, Tried, Refused, RowState
    <3>2. CASE ~Take(p)
      <4>1. \/ row' = row \/ row' = Updated(row, worker[p].job, "parked")
            \/ row' = Updated(row, worker[p].job, "failed")
            \/ row' = Updated(row, worker[p].job, "printing")
        BY <1>9, <3>2 DEF Worker, WorkerStops, CheckBefore, Begin, Deadline, CheckAfter,
                          SettleParked, SettleFailed, Wake, Park, Tried, Refused
      <4>2. row' = row \/ worker[p].job \in Jobs
        BY <1>9, <3>2 DEF Worker, WorkerStops, CheckBefore, Begin, Deadline, CheckAfter,
                          SettleParked, SettleFailed, Wake, TypeOK
      <4>. QED  BY <4>1, <4>2 DEF RowState
    <3>. QED  BY <3>1, <3>2
  <2>3. \A k \in Jobs : row'[k] = "none" <=> row[k] = "none"
    BY <2>2 DEF Updated, TypeOK
  <2>. QED  BY <2>1, <2>3, StuttersWhen
<1>10. ASSUME NEW s \in sends, Opened(s) \/ OpenFailed(s) PROVE UNCHANGED Spool!vars
  BY <1>10, StuttersWhen DEF Opened, OpenFailed, historyVars
<1>. QED
  BY <1>1, <1>2, <1>3, <1>4, <1>5, <1>6, <1>7, <1>8, <1>9, <1>10
  DEF Next, Calls, CallGoesOn, SendThread

\* Every paper has its pass.
LEMMA EveryPaperPaid == Spec => []CoverInv
<1>1. Init => CoverInv
  <2>. SUFFICES ASSUME Init PROVE CoverInv
    OBVIOUS
  <2>1. /\ sends = {} /\ op = NoOp /\ created = <<>>
        /\ \A j \in Jobs : row[j] = "none" /\ papers[j] = 0 /\ retries[j] = 0 /\ revived[j] = 0
        /\ \A p \in Printers : waiting[p] = <<>> /\ worker[p] = Idle
    BY DEF Init
  <2>2. ASSUME NEW j \in Jobs PROVE Covered(j)
    <3>1. ~Due(j)
      BY <2>1, IdleType DEF Due, Queued, MaySend, Range, NoOp
    <3>2. {s \in sends : s.job = j} = {}
      BY <2>1
    <3>3. Sending(j) = 0
      BY <3>2, FS_EmptySet DEF Sending
    <3>4. Passes(j) = 0
      BY <2>1 DEF Passes, Range
    <3>. QED  BY <2>1, <3>1, <3>3, <3>4 DEF Covered
  <2>3. IsFiniteSet(sends) /\ Resumes /\ NewIsNew
    BY <2>1, FS_EmptySet DEF Resumes, NewIsNew, NoOp
  <2>. QED  BY <2>2, <2>3 DEF CoverInv
<1>2. TypeOK /\ TypeOK' /\ StaysOutInv /\ Places /\ HeldInv /\ CoverInv /\ [Next]_vars => CoverInv'
  BY CoverHolds DEF HeldInv
<1>. QED  BY <1>1, <1>2, TypeCorrect, OnlyTheKnown, InOnePlace, NothingForgotten, PTL DEF Spec

\* The queue, with its threads, its deadlines, its crashes and restarts, keeps
\* the promise: a job is kept until it is on paper or a person gives it up, one
\* that left never comes back, and no more papers come out than it was put in.
THEOREM PromiseKept == Spec => KeepsThePromise
<1>1. Init => Spool!Init
  <2>. SUFFICES ASSUME Init PROVE Spool!Init
    OBVIOUS
  <2>1. \A j \in Jobs : Life(j) = "new" /\ Passes(j) = 0
    BY DEF Init, Life, Passes, Range
  <2>. QED  BY <2>1 DEF Init, Spool!Init
<1>2. TypeOK /\ TypeOK' /\ NeverLostInv /\ StaysOutInv /\ CoverInv /\ CoverInv' /\ [Next]_vars
        => [Spool!Next]_(Spool!vars)
  BY StepKeepsThePromise
<1>. QED
  BY <1>1, <1>2, TypeCorrect, ToldTruly, OnlyTheKnown, EveryPaperPaid, PTL
  DEF Spec, KeepsThePromise, Spool!Spec
=============================================================================
