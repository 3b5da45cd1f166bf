----------------------------- MODULE OutboxProofs -----------------------------
(***************************************************************************)
(* Proofs about the two ways bills leave a till, through one outbox.       *)
(* CloudCopy, for every shop, batch size, clock and number of failures:    *)
(* the types, and that no change is lost on either road but in the cases   *)
(* the properties name.  TillForwarding, for every number of orders,       *)
(* senders, days, failures and renames: the types, that nothing owed is    *)
(* lost, that the book stands against what arrives late or twice, that a   *)
(* closed day ties, and that a bill stays in the drawer it was taken in.   *)
(***************************************************************************)
EXTENDS CloudCopy, TillForwarding, FiniteSetTheorems, TLAPS

----------------------------------------------------------------------------
(* CloudCopy. *)

\* enqueue gives every row it writes a fresh entry and leaves the types alone.
LEMMA EnqueueType ==
  ASSUME CloudTypeOK, NEW R \in SUBSET Rows, NEW stamp \in [R -> Nat],
         Enqueue(R, stamp)
  PROVE  /\ outbox' \in [Rows -> Nat] /\ attempts' \in [Rows -> Nat]
         /\ outcome' \in [Rows -> Fate]
BY DEF Enqueue, CloudTypeOK, Fate

\* A bill, its day and the rows that change with it.
LEMMA SavedRows ==
  ASSUME NEW b \in Orders
  PROVE  /\ RowDay[b] \in FileDays /\ CreatedAt[b] \in Nat \ {0}
         /\ BillsOf(RowDay[b]) \subseteq Orders
         /\ {b} \cup TotalsOf(RowDay[b]) \in SUBSET Rows
BY RowsAssumption DEF Rows, FileDays, BillsOf, TotalsOf

\* FileDays are numbers.
LEMMA DaysType == FileDays \in SUBSET Nat
BY RowsAssumption DEF FileDays

\* Saving a bill keeps the types.
LEMMA SaveBillType ==
  ASSUME CloudTypeOK, NEW b \in Orders, NEW when \in Nat, SaveBill(b, when)
  PROVE  /\ ver' \in [Rows -> Nat] /\ outbox' \in [Rows -> Nat]
         /\ attempts' \in [Rows -> Nat] /\ outcome' \in [Rows -> Fate]
         /\ dirty' \in [FileDays -> Nat] /\ backdated' \subseteq Orders
<1> DEFINE R == {b} \cup TotalsOf(RowDay[b])
<1>1. R \in SUBSET Rows /\ [r \in R |-> CreatedAt[b]] \in [R -> Nat]
  BY SavedRows
<1>2. Enqueue(R, [r \in R |-> CreatedAt[b]])
  BY DEF SaveBill
<1>3. /\ outbox' \in [Rows -> Nat] /\ attempts' \in [Rows -> Nat]
      /\ outcome' \in [Rows -> Fate]
  BY <1>1, <1>2, EnqueueType
<1>4. ver' \in [Rows -> Nat] /\ dirty' \in [FileDays -> Nat]
      /\ backdated' \subseteq Orders
  BY SavedRows DEF SaveBill, CloudTypeOK
<1>. QED  BY <1>3, <1>4

\* So does the day's totals row going up again.
LEMMA TotalsAgainType ==
  ASSUME CloudTypeOK, NEW d \in FileDays, TotalsAgain(d)
  PROVE  /\ ver' \in [Rows -> Nat] /\ outbox' \in [Rows -> Nat]
         /\ attempts' \in [Rows -> Nat] /\ outcome' \in [Rows -> Fate]
<1>1. TotalsOf(d) \in SUBSET Rows
  BY DEF TotalsOf, Rows
<1>2. [r \in TotalsOf(d) |-> now] \in [TotalsOf(d) -> Nat]
  BY DEF CloudTypeOK
<1>3. ver' \in [Rows -> Nat]
  BY DEF TotalsAgain, CloudTypeOK
<1>. QED  BY <1>1, <1>2, <1>3, EnqueueType DEF TotalsAgain

\* The resting values of the sender's locals.
LEMMA RestingType ==
  /\ NoBatch \in [entries : SUBSET Rows, seen : [Rows -> Nat],
                  toFile : SUBSET Orders, unread : SUBSET Rows]
  /\ NoFiles \in [days : SUBSET FileDays, day : Nat, took : Nat, licence : Nat,
                  content : [Orders -> Nat]]
BY DEF NoBatch, NoFiles, Zero

-----------------------------------------------------------------------------
(* Types.                                                                  *)

\* Every variable of the counter, the sender and the cloud keeps its type.
THEOREM CloudTypeCorrect == CloudSpec => []CloudTypeOK
<1>1. CloudInit => CloudTypeOK
  <2>. SUFFICES ASSUME CloudInit PROVE CloudTypeOK
    OBVIOUS
  <2>1. /\ ver \in [Rows -> Nat] /\ outbox \in [Rows -> Nat]
        /\ attempts \in [Rows -> Nat] /\ cloud \in [Rows -> Nat]
        /\ dirty \in [FileDays -> Nat] /\ uploaded \in [FileDays -> Nat]
        /\ filed \in [Orders -> Nat] /\ outcome \in [Rows -> Fate]
    BY DEF CloudInit, Zero, Fate
  <2>2. /\ sender = "idle" /\ hold = "none" /\ stopped \in BOOLEAN
        /\ command = NoCommand /\ batch = NoBatch /\ files = NoFiles
        /\ now \in Nat /\ today \in Nat /\ licence \in Nat
        /\ locks \in Nat /\ failures \in Nat
        /\ shut \subseteq FileDays /\ backdated \subseteq Orders
    BY DEF CloudInit
  <2>. QED  BY <2>1, <2>2, RestingType DEF CloudTypeOK
<1>2. ASSUME CloudTypeOK, [CloudNext]_allVars
      PROVE  CloudTypeOK'
  <2>. USE CloudTypeOK, RestingType
  <2>1. CASE Tick \/ NewDay
    BY <2>1 DEF CloudTypeOK, Tick, NewDay, shopVars, senderVars, gateVars, cloudVars
  <2>2. ASSUME NEW b \in Orders, SaveOpen(b)
        PROVE  CloudTypeOK'
    <3>1. {b} \in SUBSET Rows /\ [r \in {b} |-> CreatedAt[b]] \in [{b} -> Nat]
      BY SavedRows DEF Rows
    <3>. QED  BY <2>2, <3>1, EnqueueType
            DEF CloudTypeOK, SaveOpen, senderVars, gateVars, cloudVars
  <2>3. ASSUME NEW b \in Orders, BeginSave(b)
        PROVE  CloudTypeOK'
    BY <2>3 DEF CloudTypeOK, BeginSave, senderVars, gateVars, cloudVars
  <2>4. ASSUME NEW b \in Orders, NEW when \in 1..now, ReceiveForwarded(b, when)
        PROVE  CloudTypeOK'
    <3>1. when \in Nat
      BY DEF CloudTypeOK
    <3>. QED  BY <2>4, <3>1, SaveBillType
            DEF CloudTypeOK, ReceiveForwarded, senderVars, gateVars, cloudVars
  <2>5. CASE CommitSave
    <3>1. command.bill \in Orders /\ command.at \in Nat
      BY <2>5 DEF CommitSave, CloudTypeOK
    <3>. QED  BY <2>5, <3>1, SaveBillType
            DEF CloudTypeOK, CommitSave, senderVars, gateVars, cloudVars
  <2>6. ASSUME NEW d \in FileDays, LockDay(d) \/ UnlockDay(d)
        PROVE  CloudTypeOK'
    <3>1. TotalsAgain(d)
      BY <2>6 DEF LockDay, UnlockDay
    <3>. QED  BY <2>6, <3>1, TotalsAgainType
            DEF CloudTypeOK, LockDay, UnlockDay, senderVars, gateVars, cloudVars
  <2>7. CASE ChangeLicence
    <3>1. /\ outbox' \in [Rows -> Nat] /\ attempts' \in [Rows -> Nat]
          /\ cloud' \in [Rows -> Nat] /\ filed' \in [Orders -> Nat]
          /\ uploaded' \in [FileDays -> Nat]
      BY <2>7 DEF ChangeLicence, CloudTypeOK, Zero
    <3>2. outcome' \in [Rows -> Fate]
      BY <2>7 DEF ChangeLicence, CloudTypeOK, Fate
    <3>3. licence' \in Nat /\ backdated' \subseteq Orders
      BY <2>7 DEF ChangeLicence, CloudTypeOK
    <3>5. hold' = "none" /\ stopped' \in BOOLEAN
      BY <2>7 DEF ChangeLicence
    <3>4. UNCHANGED <<now, today, ver, dirty, shut, command, locks,
                      senderVars, failures>>
      BY <2>7 DEF ChangeLicence
    <3>. QED  BY <3>1, <3>2, <3>3, <3>4, <3>5 DEF CloudTypeOK, senderVars
  <2>8. CASE Revive \/ HoldEnds
    <3>1. hold' = "none" /\ stopped' \in BOOLEAN
      BY <2>8 DEF Revive, HoldEnds, CloudTypeOK
    <3>2. UNCHANGED <<now, today, shopVars, senderVars, licence, cloudVars,
                      failures>>
      BY <2>8 DEF Revive, HoldEnds
    <3>. QED  BY <3>1, <3>2 DEF CloudTypeOK, shopVars, senderVars, cloudVars
  <2>9. CASE Crash
    BY <2>9 DEF CloudTypeOK, Crash, gateVars, cloudVars, NoCommand
  <2>10. CASE ReadBatch
    <3>1. PICK H \in SUBSET Entries :
             LET toFile == {b \in H \cap Orders : Sealed(RowDay[b])}
                 unread == (H \ toFile) \cap Unshaped
                 entries == H \ (toFile \cup unread)
                 seen == [r \in Rows |-> IF r \in entries THEN ver[r] ELSE 0]
             IN /\ batch' = [entries |-> entries, seen |-> seen,
                             toFile |-> toFile, unread |-> unread]
                /\ sender' = IF toFile \cup unread # {} THEN "read"
                             ELSE AfterRouting(entries, seen)
      BY <2>10 DEF ReadBatch
    <3>2. H \subseteq Rows
      BY DEF Entries
    <3>3. sender' \in {"read", "listing", "ready"}
      BY <3>1 DEF AfterRouting
    <3>4. batch' \in [entries : SUBSET Rows, seen : [Rows -> Nat],
                      toFile : SUBSET Orders, unread : SUBSET Rows]
      BY <3>1, <3>2 DEF CloudTypeOK
    <3>. QED  BY <2>10, <3>3, <3>4
            DEF CloudTypeOK, ReadBatch, shopVars, gateVars, cloudVars
  <2>11. CASE Route
    BY <2>11 DEF CloudTypeOK, Route, AfterRouting, gateVars, cloudVars, Fate
  <2>12. CASE SendOk \/ SendFails
    <3>1. cloud' \in [Rows -> Nat]
      BY <2>12 DEF SendOk, SendFails, Applied, CloudTypeOK
    <3>2. stopped' \in BOOLEAN /\ hold' \in {"none", "floor", "backoff"}
      BY <2>12 DEF SendOk, SendFails, Fell, gateVars, CloudTypeOK
    <3>3. failures' \in Nat /\ sender' \in {"sent", "idle"}
      BY <2>12 DEF SendOk, SendFails, CloudTypeOK
    <3>4. batch' = batch \/ batch' = NoBatch
      BY <2>12 DEF SendOk, SendFails
    <3>5. UNCHANGED <<now, today, shopVars, files, licence, filed>>
      BY <2>12 DEF SendOk, SendFails
    <3>. QED  BY <3>1, <3>2, <3>3, <3>4, <3>5 DEF CloudTypeOK, shopVars
  <2>13. CASE Mark
    <3>1. stopped' \in BOOLEAN
      BY <2>13 DEF Mark
    <3>2. outbox' \in [Rows -> Nat] /\ outcome' \in [Rows -> Fate]
      BY <2>13 DEF Mark, CloudTypeOK, Fate
    <3>3. hold' = "floor" /\ sender' = "listing" /\ batch' = NoBatch
      BY <2>13 DEF Mark
    <3>4. UNCHANGED <<now, today, ver, attempts, dirty, uploaded, shut,
                      command, backdated, locks, files, licence, cloudVars,
                      failures>>
      BY <2>13 DEF Mark
    <3>. QED  BY <3>1, <3>2, <3>3, <3>4 DEF CloudTypeOK, cloudVars
  <2>19. CASE NotYet
    BY <2>19 DEF CloudTypeOK, NotYet, shopVars, gateVars, cloudVars
  <2>14. CASE List
    <3>1. Earliest(PendingDays, FilesPerWake) \subseteq FileDays
      BY DEF Earliest, PendingDays
    <3>2. files' \in [days : SUBSET FileDays, day : Nat, took : Nat, licence : Nat,
                      content : [Orders -> Nat]]
      BY <2>14, <3>1 DEF List, CloudTypeOK, NoFiles
    <3>. QED  BY <2>14, <3>2 DEF CloudTypeOK, List, shopVars, gateVars, cloudVars
  <2>15. CASE Build
    <3>1. PICK d \in files.days :
            LET rest == files.days \ {d}
            IN IF CannotBuild(d)
               THEN /\ files' = IF rest = {} THEN NoFiles
                                ELSE [files EXCEPT !.days = rest]
                    /\ sender' = IF rest = {} THEN "idle" ELSE "build"
               ELSE /\ files' = [files EXCEPT !.day = d,
                                 !.content = [b \in Orders |->
                                    IF b \in BillsOf(d) THEN ver[b] ELSE 0]]
                    /\ sender' = "built"
      BY <2>15 DEF Build
    <3>2. d \in FileDays /\ d \in Nat
      BY DaysType DEF CloudTypeOK
    <3>3. [b \in Orders |-> IF b \in BillsOf(d) THEN ver[b] ELSE 0]
            \in [Orders -> Nat]
      BY DEF CloudTypeOK, Rows
    <3>4. /\ files' \in [days : SUBSET FileDays, day : Nat, took : Nat,
                         licence : Nat, content : [Orders -> Nat]]
          /\ sender' \in {"idle", "build", "built"}
          /\ sender' = "built" => files'.day = d
      <4>1. CASE CannotBuild(d)
        BY <3>1, <4>1 DEF CloudTypeOK
      <4>2. CASE ~CannotBuild(d)
        <5>1. \A content \in [Orders -> Nat] :
                [files EXCEPT !.day = d, !.content = content]
                  \in [days : SUBSET FileDays, day : Nat, took : Nat,
                       licence : Nat, content : [Orders -> Nat]]
          BY <3>2 DEF CloudTypeOK
        <5>2. \A content : [files EXCEPT !.day = d, !.content = content].day = d
          BY DEF CloudTypeOK
        <5>. QED  BY <3>1, <3>3, <4>2, <5>1, <5>2
      <4>. QED  BY <4>1, <4>2
    <3>. QED  BY <2>15, <3>2, <3>4
              DEF CloudTypeOK, Build, shopVars, gateVars, cloudVars
  <2>16. CASE Put \/ PutFails
    <3>1. filed' \in [Orders -> Nat]
      BY <2>16 DEF Put, PutFails, CloudTypeOK
    <3>2. stopped' \in BOOLEAN /\ hold' \in {"none", "floor", "backoff"}
      BY <2>16 DEF Put, PutFails, Fell, gateVars, CloudTypeOK
    <3>3. failures' \in Nat
      BY <2>16 DEF Put, PutFails, CloudTypeOK
    <3>4. (files' = NoFiles /\ sender' = "idle")
          \/ (files' = files /\ sender' = "put" /\ sender = "built")
      BY <2>16 DEF Put, PutFails
    <3>5. UNCHANGED <<now, today, shopVars, batch, licence, cloud>>
      BY <2>16 DEF Put, PutFails
    <3>. QED  BY <3>1, <3>2, <3>3, <3>4, <3>5 DEF CloudTypeOK, shopVars
  <2>17. CASE Record
    <3>1. uploaded' \in [FileDays -> Nat]
      BY <2>17 DEF Record, CloudTypeOK
    <3>2. /\ files' \in [days : SUBSET FileDays, day : Nat, took : Nat,
                         licence : Nat, content : [Orders -> Nat]]
          /\ sender' \in {"idle", "build"}
      BY <2>17 DEF Record, CloudTypeOK, Zero
    <3>. QED  BY <2>17, <3>1, <3>2 DEF CloudTypeOK, Record, gateVars, cloudVars
  <2>18. CASE UNCHANGED allVars
    BY <2>18 DEF CloudTypeOK, allVars, shopVars, senderVars, gateVars, cloudVars
  <2>. QED  BY <1>2, <2>1, <2>2, <2>3, <2>4, <2>5, <2>6, <2>7, <2>8, <2>9, <2>10,
             <2>11, <2>12, <2>13, <2>14, <2>15, <2>16, <2>17, <2>18, <2>19
          DEF CloudNext, Writers, Push, Archive, CloudFails
<1>. QED  BY <1>1, <1>2, PTL DEF CloudSpec
-----------------------------------------------------------------------------
(* Rows.  An entry may be deleted by the sender long after it was read, so *)
(* the invariant follows each row through the sender's hands.              *)

\* What is known of a row the sender holds: its entry is still there; unless it
\* was overtaken, the version read is the latest; once sent, the cloud has it.
RowHeld(r) ==
  /\ r \in InFlight => outbox[r] # 0
  /\ r \in InFlight => batch.seen[r] = ver[r] \/ outcome[r] = "overtaken"
  /\ (sender = "sent" /\ r \in batch.entries /\ batch.seen[r] > 0) =>
       cloud[r] = batch.seen[r] \/ r \in Refused \/ outcome[r] = "overtaken"
  /\ (sender = "read" /\ r \in batch.entries) =>
       r \notin batch.toFile \cup batch.unread

RowSafe(r) ==
  ver[r] > 0 => outbox[r] # 0 \/ cloud[r] = ver[r] \/ outcome[r] # "none"

RowInv == now > 0 /\ \A r \in Rows : RowSafe(r) /\ RowHeld(r)

\* Queuing a set of rows whose versions may have changed keeps the invariant.
LEMMA EnqueueKeepsRows ==
  ASSUME CloudTypeOK, RowInv, NEW R \in SUBSET Rows,
         NEW stamp \in [R -> Nat \ {0}], Enqueue(R, stamp),
         \A r \in Rows \ R : ver'[r] = ver[r],
         UNCHANGED <<now, senderVars, cloudVars>>
  PROVE  RowInv'
<1>. SUFFICES ASSUME NEW r \in Rows PROVE (RowSafe(r) /\ RowHeld(r))'
  BY DEF RowInv
<1>1. RowSafe(r) /\ RowHeld(r)
  BY DEF RowInv
<1>2. InFlight' = InFlight
  BY DEF InFlight, senderVars
<1>3. CASE r \in R
  <2>1. outbox'[r] # 0
    BY <1>3 DEF Enqueue
  <2>2. r \in InFlight => outcome'[r] = "overtaken"
    BY <1>3 DEF Enqueue
  <2>3. sender = "sent" /\ r \in batch.entries => r \in InFlight
    BY DEF InFlight
  <2>. QED  BY <1>1, <1>2, <2>1, <2>2, <2>3 DEF RowSafe, RowHeld, senderVars
<1>4. CASE r \notin R
  <2>1. /\ outbox'[r] = outbox[r] /\ outcome'[r] = outcome[r]
        /\ ver'[r] = ver[r]
    BY <1>4 DEF Enqueue
  <2>. QED  BY <1>1, <1>2, <2>1 DEF RowSafe, RowHeld, senderVars, cloudVars
<1>. QED  BY <1>3, <1>4

\* Saving a bill, by whichever road it came.
LEMMA SaveBillKeepsRows ==
  ASSUME CloudTypeOK, RowInv, NEW b \in Orders, NEW when \in Nat, SaveBill(b, when),
         UNCHANGED <<now, senderVars, cloudVars>>
  PROVE  RowInv'
<1> DEFINE R == {b} \cup TotalsOf(RowDay[b])
<1>1. R \in SUBSET Rows /\ [r \in R |-> CreatedAt[b]] \in [R -> Nat \ {0}]
  BY SavedRows
<1>2. Enqueue(R, [r \in R |-> CreatedAt[b]])
  BY DEF SaveBill
<1>3. \A r \in Rows \ R : ver'[r] = ver[r]
  BY DEF SaveBill
<1>. QED  BY <1>1, <1>2, <1>3, EnqueueKeepsRows

\* What the writers do.
LEMMA WritersKeepRows ==
  ASSUME CloudTypeOK, RowInv, Writers
  PROVE  RowInv'
<1>1. CASE Tick \/ NewDay \/ Revive
  <2>1. now' > 0
    BY <1>1 DEF Tick, NewDay, Revive, RowInv, CloudTypeOK
  <2>. QED  BY <1>1, <2>1 DEF RowInv, RowSafe, RowHeld, InFlight, Tick, NewDay,
                              Revive, shopVars, senderVars, cloudVars
<1>2. ASSUME NEW b \in Orders, SaveOpen(b)
      PROVE  RowInv'
  <2>1. {b} \in SUBSET Rows /\ [r \in {b} |-> CreatedAt[b]] \in [{b} -> Nat \ {0}]
    BY SavedRows DEF Rows
  <2>. QED  BY <1>2, <2>1, EnqueueKeepsRows DEF SaveOpen
<1>3. ASSUME NEW b \in Orders, BeginSave(b)
      PROVE  RowInv'
  BY <1>3 DEF RowInv, RowSafe, RowHeld, InFlight, BeginSave, senderVars, cloudVars
<1>4. ASSUME NEW b \in Orders, NEW when \in 1..now, ReceiveForwarded(b, when)
      PROVE  RowInv'
  <2>1. when \in Nat
    BY DEF CloudTypeOK
  <2>. QED  BY <1>4, <2>1, SaveBillKeepsRows DEF ReceiveForwarded
<1>5. CASE CommitSave
  <2>1. command.bill \in Orders /\ command.at \in Nat
    BY <1>5 DEF CommitSave, CloudTypeOK
  <2>. QED  BY <1>5, <2>1, SaveBillKeepsRows DEF CommitSave
<1>6. ASSUME NEW d \in FileDays, LockDay(d) \/ UnlockDay(d)
      PROVE  RowInv'
  <2>1. TotalsAgain(d) /\ UNCHANGED <<now, senderVars, cloudVars>>
    BY <1>6 DEF LockDay, UnlockDay
  <2>2. TotalsOf(d) \in SUBSET Rows
    BY DEF TotalsOf, Rows
  <2>3. [r \in TotalsOf(d) |-> now] \in [TotalsOf(d) -> Nat \ {0}]
    BY DEF RowInv, CloudTypeOK
  <2>4. \A r \in Rows \ TotalsOf(d) : ver'[r] = ver[r]
    BY <2>1 DEF TotalsAgain
  <2>. QED  BY <2>1, <2>2, <2>3, <2>4, EnqueueKeepsRows DEF TotalsAgain
<1>7. CASE ChangeLicence
  <2>. SUFFICES ASSUME NEW r \in Rows PROVE (RowSafe(r) /\ RowHeld(r))'
    BY <1>7 DEF RowInv, ChangeLicence
  <2>1. RowSafe(r) /\ RowHeld(r) /\ now > 0
    BY DEF RowInv
  <2>2. InFlight' = InFlight /\ sender' = sender /\ batch' = batch
    BY <1>7 DEF ChangeLicence, InFlight, senderVars
  <2>3. ver'[r] = ver[r] /\ (outbox[r] # 0 => outbox'[r] # 0)
    BY <1>7, <2>1 DEF ChangeLicence
  <2>4. CASE r \in InFlight
    <3>1. outcome'[r] = IF sender = "sent" THEN "overtaken" ELSE outcome[r]
      BY <1>7, <2>4 DEF ChangeLicence
    <3>. QED  BY <2>1, <2>2, <2>3, <2>4, <3>1 DEF RowSafe, RowHeld
  <2>5. CASE r \notin InFlight
    <3>1. ver[r] > 0 => outbox'[r] # 0 \/ outcome'[r] = "routed"
      BY <1>7, <2>1, <2>5 DEF ChangeLicence
    <3>2. sender = "sent" => r \notin batch.entries
      BY <2>5 DEF InFlight
    <3>. QED  BY <2>1, <2>2, <2>3, <2>5, <3>1, <3>2 DEF RowSafe, RowHeld
  <2>. QED  BY <2>4, <2>5
<1>8. CASE Crash
  BY <1>8 DEF RowInv, RowSafe, RowHeld, InFlight, Crash, cloudVars
<1>. QED  BY <1>1, <1>2, <1>3, <1>4, <1>5, <1>6, <1>7, <1>8 DEF Writers

\* What one push does.
LEMMA PushKeepsRows ==
  ASSUME CloudTypeOK, RowInv, Push \/ SendFails
  PROVE  RowInv'
<1>1. CASE ReadBatch
  <2>. SUFFICES ASSUME NEW r \in Rows PROVE (RowSafe(r) /\ RowHeld(r))'
    BY <1>1 DEF RowInv, ReadBatch
  <2>1. PICK H \in SUBSET Entries :
          LET toFile == {b \in H \cap Orders : Sealed(RowDay[b])}
              unread == (H \ toFile) \cap Unshaped
              entries == H \ (toFile \cup unread)
              seen == [q \in Rows |-> IF q \in entries THEN ver[q] ELSE 0]
          IN /\ batch' = [entries |-> entries, seen |-> seen,
                          toFile |-> toFile, unread |-> unread]
             /\ sender' = IF toFile \cup unread # {} THEN "read"
                          ELSE AfterRouting(entries, seen)
    BY <1>1 DEF ReadBatch
  <2>2. RowSafe(r)' /\ ver' = ver /\ outbox' = outbox
    BY <1>1 DEF RowInv, RowSafe, ReadBatch, shopVars, cloudVars
  <2>3. r \in batch'.entries => /\ outbox[r] # 0 /\ batch'.seen[r] = ver[r]
                               /\ r \notin batch'.toFile \cup batch'.unread
    BY <2>1 DEF Entries
  <2>4. sender' # "sent"
    BY <2>1 DEF AfterRouting
  <2>. QED  BY <2>2, <2>3, <2>4 DEF RowHeld, InFlight
<1>2. CASE Route
  <2>. SUFFICES ASSUME NEW r \in Rows PROVE (RowSafe(r) /\ RowHeld(r))'
    BY <1>2 DEF RowInv, Route
  <2>1. RowSafe(r) /\ RowHeld(r)
    BY DEF RowInv
  <2>2. /\ sender = "read" /\ sender' \in {"listing", "ready"}
        /\ ver' = ver /\ cloud' = cloud /\ batch' = batch
    BY <1>2 DEF Route, AfterRouting, cloudVars
  <2>3. CASE r \in batch.toFile \cup batch.unread
    <3>1. r \notin batch.entries
      BY <2>1, <2>2, <2>3 DEF RowHeld
    <3>2. outbox'[r] = 0 => outcome'[r] # "none" \/ outbox[r] = 0
      BY <1>2, <2>3 DEF Route
    <3>3. outcome'[r] = "none" => outcome[r] = "none"
      BY <1>2 DEF Route
    <3>. QED  BY <2>1, <2>2, <3>1, <3>2, <3>3 DEF RowSafe, RowHeld, InFlight
  <2>4. CASE r \notin batch.toFile \cup batch.unread
    <3>1. outbox'[r] = outbox[r] /\ outcome'[r] = outcome[r]
      BY <1>2, <2>4 DEF Route
    <3>. QED  BY <2>1, <2>2, <3>1 DEF RowSafe, RowHeld, InFlight
  <2>. QED  BY <2>3, <2>4
<1>3. CASE SendOk \/ SendFails
  <2>. SUFFICES ASSUME NEW r \in Rows PROVE (RowSafe(r) /\ RowHeld(r))'
    BY <1>3 DEF RowInv, SendOk, SendFails
  <2>1. PICK S \in SUBSET Travelling(batch.entries, batch.seen) :
          /\ Applied(S)
          /\ SendOk => S = Travelling(batch.entries, batch.seen)
    BY <1>3 DEF SendOk, SendFails
  <2>2. RowSafe(r) /\ RowHeld(r) /\ sender = "ready"
    BY <1>3 DEF RowInv, SendOk, SendFails
  <2>3. ver' = ver /\ outbox' = outbox /\ outcome' = outcome
    BY <1>3 DEF SendOk, SendFails, shopVars
  <2>4. cloud'[r] = IF r \in S \ Refused THEN batch.seen[r] ELSE cloud[r]
    BY <2>1 DEF Applied
  <2>5. r \in S => r \in InFlight
    BY <2>2 DEF Travelling, InFlight
  <2>6. RowSafe(r)'
    BY <2>2, <2>3, <2>4, <2>5 DEF RowSafe, RowHeld
  <2>7. CASE SendOk
    <3>1. sender' = "sent" /\ batch' = batch
      BY <2>7 DEF SendOk
    <3>2. r \in batch.entries /\ batch.seen[r] > 0 => r \in S
      BY <2>1, <2>7 DEF Travelling
    <3>. QED  BY <2>2, <2>3, <2>4, <2>6, <3>1, <3>2 DEF RowHeld, InFlight
  <2>8. CASE SendFails
    <3>1. sender' = "idle"
      BY <2>8 DEF SendFails
    <3>. QED  BY <2>6, <3>1 DEF RowHeld, InFlight
  <2>. QED  BY <1>3, <2>7, <2>8
<1>4. CASE Mark
  <2>. SUFFICES ASSUME NEW r \in Rows PROVE (RowSafe(r) /\ RowHeld(r))'
    BY <1>4 DEF RowInv, Mark
  <2>1. RowSafe(r) /\ RowHeld(r)
    BY DEF RowInv
  <2>2. /\ sender = "sent" /\ sender' = "listing"
        /\ ver' = ver /\ cloud' = cloud
    BY <1>4 DEF Mark, cloudVars
  <2>3. CASE r \in batch.entries
    <3>1. ver[r] \in Nat /\ batch.seen[r] \in Nat /\ r \in InFlight
      BY <2>2, <2>3 DEF CloudTypeOK, InFlight
    <3>2. outcome'[r] = IF batch.seen[r] > 0 /\ r \in Refused
                        THEN "aside" ELSE outcome[r]
      BY <1>4, <2>3 DEF Mark, Travelling
    <3>. QED  BY <2>1, <2>2, <2>3, <3>1, <3>2 DEF RowSafe, RowHeld, InFlight
  <2>4. CASE r \notin batch.entries
    <3>1. outbox'[r] = outbox[r] /\ outcome'[r] = outcome[r]
      BY <1>4, <2>4 DEF Mark, Travelling
    <3>. QED  BY <2>1, <2>2, <3>1 DEF RowSafe, RowHeld, InFlight
  <2>. QED  BY <2>3, <2>4
<1>5. CASE NotYet
  BY <1>5 DEF RowInv, RowSafe, RowHeld, InFlight, NotYet, shopVars, cloudVars
<1>. QED  BY <1>1, <1>2, <1>3, <1>4, <1>5 DEF Push

\* Building and uploading day files does not touch the outbox.
LEMMA ArchiveKeepsRows ==
  ASSUME CloudTypeOK, RowInv, Archive \/ PutFails \/ HoldEnds
  PROVE  RowInv'
<1>1. CASE HoldEnds
  BY <1>1 DEF RowInv, RowSafe, RowHeld, InFlight, HoldEnds, shopVars, senderVars,
              cloudVars
<1>2. CASE Archive \/ PutFails
  <2>1. /\ UNCHANGED <<now, ver, outbox, outcome, cloud>>
        /\ sender' \notin {"read", "ready", "sent"}
    BY <1>2 DEF Archive, List, Build, Put, Record, PutFails, shopVars, cloudVars
  <2>. QED  BY <2>1 DEF RowInv, RowSafe, RowHeld, InFlight
<1>. QED  BY <1>1, <1>2

\* The latest version of a row is owed to the cloud or there, but for the four
\* fates an entry can have, whatever fails and however often.
THEOREM NoRowIsLost == CloudSpec => []RowOwedOrThere
<1>1. CloudInit => RowInv
  BY DEF CloudInit, RowInv, RowSafe, RowHeld, InFlight, Zero
<1>2. ASSUME CloudTypeOK, RowInv, [CloudNext]_allVars
      PROVE  RowInv'
  <2>1. CASE UNCHANGED allVars
    BY <1>2, <2>1 DEF RowInv, RowSafe, RowHeld, InFlight, allVars, shopVars,
                      senderVars, cloudVars
  <2>2. CASE CloudNext
    BY <1>2, <2>2, WritersKeepRows, PushKeepsRows, ArchiveKeepsRows
       DEF CloudNext, CloudFails
  <2>. QED  BY <1>2, <2>1, <2>2
<1>3. RowInv => RowOwedOrThere
  BY DEF RowInv, RowSafe, RowOwedOrThere
<1>. QED  BY <1>1, <1>2, <1>3, CloudTypeCorrect, PTL DEF CloudSpec
-----------------------------------------------------------------------------
(* Files.  What makes the comparison of two stamps enough is that the      *)
(* upload's stamp was read before the file was built, and that no upload   *)
(* is stamped later than the one under way.                                *)

Uploading == sender \in {"build", "built", "put"}

StampsGrow ==
  /\ \A d \in FileDays : uploaded[d] <= now
  /\ Uploading => /\ files.took <= now
                  /\ \A d \in FileDays : uploaded[d] <= files.took

\* What is known of a bill whose day's file the sender holds.
FileHeld(b) ==
  LET d == RowDay[b]
  IN /\ (sender \in {"built", "put"} /\ files.day = d) =>
          files.content[b] = ver[b] \/ dirty[d] > files.took \/ b \in backdated
     /\ (sender = "put" /\ files.day = d) =>
          filed[b] = files.content[b] \/ b \in backdated
     /\ (Uploading /\ files.licence # licence /\ d \in files.days) =>
          b \in backdated

FileSafe(b) ==
  ver[b] > 0 => FileOwed(RowDay[b]) \/ filed[b] = ver[b] \/ b \in backdated

DayInHand == sender \in {"built", "put"} => files.day \in files.days

FileInv == StampsGrow /\ DayInHand /\ \A b \in Orders : FileSafe(b) /\ FileHeld(b)

\* Saving a bill leaves its day owed, or says why not.
LEMMA SaveBillKeepsFiles ==
  ASSUME CloudTypeOK, FileInv, NEW b \in Orders, NEW when \in Nat, SaveBill(b, when),
         UNCHANGED <<now, uploaded, senderVars, licence, cloudVars>>
  PROVE  FileInv'
<1> DEFINE d == RowDay[b]
<1>0. d \in FileDays
  BY SavedRows
<1>1. StampsGrow' /\ DayInHand'
  BY DEF FileInv, StampsGrow, DayInHand, Uploading, senderVars
<1>. SUFFICES ASSUME NEW c \in Orders PROVE (FileSafe(c) /\ FileHeld(c))'
  BY <1>1 DEF FileInv
<1>2. FileSafe(c) /\ FileHeld(c) /\ backdated \subseteq backdated'
  BY DEF FileInv, SaveBill
<1>3. CASE RowDay[c] # d
  <2>1. ver'[c] = ver[c] /\ dirty'[RowDay[c]] = dirty[RowDay[c]]
    BY <1>3, RowsAssumption DEF SaveBill, CloudTypeOK, TotalsOf, Rows, FileDays
  <2>. QED  BY <1>2, <2>1 DEF FileSafe, FileHeld, FileOwed, Uploading,
                              senderVars, cloudVars
<1>4. CASE RowDay[c] = d
  <2>1. dirty'[d] = when
    BY <1>0 DEF SaveBill, CloudTypeOK
  <2>2. CASE ComesTooEarly(d, when)
    <3>1. c \in backdated'
      BY <1>4, <2>2 DEF SaveBill, BillsOf
    <3>. QED  BY <3>1 DEF FileSafe, FileHeld
  <2>3. CASE ~ComesTooEarly(d, when)
    <3>1. uploaded[d] = 0 \/ when > uploaded[d]
      BY <1>0, <2>3 DEF ComesTooEarly, CloudTypeOK
    <3>2. (sender \in {"built", "put"} /\ files.day = d) => when > files.took
      BY <2>3 DEF ComesTooEarly, CloudTypeOK
    <3>3. FileSafe(c)'
      BY <1>4, <2>1, <3>1 DEF FileSafe, FileOwed
    <3>. QED  BY <1>2, <1>4, <2>1, <3>2, <3>3
              DEF FileHeld, Uploading, senderVars, cloudVars
  <2>. QED  BY <2>2, <2>3
<1>. QED  BY <1>3, <1>4

\* What the writers do.
LEMMA WritersKeepFiles ==
  ASSUME CloudTypeOK, FileInv, Writers
  PROVE  FileInv'
<1>1. CASE Tick
  BY <1>1 DEF CloudTypeOK, FileInv, StampsGrow, DayInHand, FileSafe, FileHeld,
              FileOwed, Uploading, Tick, shopVars, senderVars, cloudVars
<1>2. CASE NewDay \/ Revive
  BY <1>2 DEF FileInv, StampsGrow, DayInHand, FileSafe, FileHeld, FileOwed,
              Uploading, NewDay, Revive, shopVars, senderVars, cloudVars
<1>3. ASSUME NEW b \in Orders, SaveOpen(b) \/ BeginSave(b)
      PROVE  FileInv'
  BY <1>3 DEF FileInv, StampsGrow, DayInHand, FileSafe, FileHeld, FileOwed,
              Uploading, SaveOpen, BeginSave, senderVars, cloudVars
<1>4. ASSUME NEW b \in Orders, NEW when \in 1..now, ReceiveForwarded(b, when)
      PROVE  FileInv'
  <2>1. when \in Nat
    BY DEF CloudTypeOK
  <2>. QED  BY <1>4, <2>1, SaveBillKeepsFiles DEF ReceiveForwarded
<1>5. CASE CommitSave
  <2>1. command.bill \in Orders /\ command.at \in Nat
    BY <1>5 DEF CommitSave, CloudTypeOK
  <2>. QED  BY <1>5, <2>1, SaveBillKeepsFiles DEF CommitSave
<1>6. ASSUME NEW d \in FileDays, LockDay(d) \/ UnlockDay(d)
      PROVE  FileInv'
  <2>1. TotalsAgain(d)
        /\ UNCHANGED <<now, dirty, uploaded, backdated, senderVars, licence,
                       cloudVars>>
    BY <1>6 DEF LockDay, UnlockDay
  <2>2. \A b \in Orders : ver'[b] = ver[b]
    BY <2>1, RowsAssumption DEF TotalsAgain, TotalsOf, Rows, CloudTypeOK
  <2>. QED  BY <2>1, <2>2 DEF FileInv, StampsGrow, DayInHand, FileSafe,
                              FileHeld, FileOwed, Uploading, senderVars,
                              cloudVars
<1>7. CASE ChangeLicence
  <2>1. /\ uploaded' = Zero(FileDays)
        /\ backdated' = backdated \cup {b \in Orders : RowDay[b] \in files.days}
        /\ UNCHANGED <<now, ver, dirty, senderVars>>
    BY <1>7 DEF ChangeLicence
  <2>2. StampsGrow' /\ DayInHand'
    BY <2>1 DEF FileInv, StampsGrow, DayInHand, Uploading, Zero, CloudTypeOK,
                senderVars
  <2>. SUFFICES ASSUME NEW b \in Orders PROVE (FileSafe(b) /\ FileHeld(b))'
    BY <2>2 DEF FileInv
  <2>3. RowDay[b] \in FileDays
    BY SavedRows
  <2>4. FileHeld(b) /\ DayInHand
    BY DEF FileInv
  <2>. QED  BY <2>1, <2>3, <2>4 DEF FileSafe, FileHeld, FileOwed, DayInHand,
                                    Uploading, Zero, senderVars
<1>8. CASE Crash
  BY <1>8 DEF FileInv, StampsGrow, DayInHand, FileSafe, FileHeld, FileOwed,
              Uploading, Crash, cloudVars
<1>. QED  BY <1>1, <1>2, <1>3, <1>4, <1>5, <1>6, <1>7, <1>8 DEF Writers

\* A push does not touch the files.
LEMMA PushKeepsFiles ==
  ASSUME CloudTypeOK, FileInv, Push \/ SendFails \/ HoldEnds
  PROVE  FileInv'
<1>1. CASE Push \/ SendFails
  <2>1. /\ UNCHANGED <<now, ver, dirty, uploaded, backdated, files, licence,
                       filed>>
        /\ sender' \notin {"build", "built", "put"}
    BY <1>1 DEF Push, ReadBatch, Route, SendOk, SendFails, Mark, NotYet,
                AfterRouting, shopVars, cloudVars
  <2>. QED  BY <2>1 DEF FileInv, StampsGrow, DayInHand, FileSafe, FileHeld,
                        FileOwed, Uploading
<1>2. CASE HoldEnds
  BY <1>2 DEF FileInv, StampsGrow, DayInHand, FileSafe, FileHeld, FileOwed,
              Uploading, HoldEnds, shopVars, senderVars, cloudVars
<1>. QED  BY <1>1, <1>2

\* What listing, building, uploading and noting a file do.
LEMMA ArchiveKeepsFiles ==
  ASSUME CloudTypeOK, FileInv, Archive \/ PutFails
  PROVE  FileInv'
<1>1. CASE List
  <2>1. /\ UNCHANGED <<now, ver, dirty, uploaded, backdated, licence, filed>>
        /\ sender' \in {"idle", "build"}
        /\ sender' = "build" => files'.took = now /\ files'.licence = licence
    BY <1>1 DEF List, NoFiles, shopVars, cloudVars
  <2>. QED  BY <2>1 DEF FileInv, StampsGrow, DayInHand, FileSafe, FileHeld,
                        FileOwed, Uploading, CloudTypeOK
<1>2. CASE Build
  <2>1. PICK d \in files.days :
          \/ sender' = "idle"
          \/ /\ sender' = "build"
             /\ files' = [files EXCEPT !.days = files.days \ {d}]
          \/ /\ sender' = "built"
             /\ files' = [files EXCEPT !.day = d,
                           !.content = [b \in Orders |->
                              IF b \in BillsOf(d) THEN ver[b] ELSE 0]]
    BY <1>2 DEF Build
  <2>2. /\ UNCHANGED <<now, ver, dirty, uploaded, backdated, licence, filed>>
        /\ sender = "build"
    BY <1>2 DEF Build, shopVars, cloudVars
  <2>3. \A b \in Orders : FileSafe(b)'
    BY <2>2 DEF FileInv, FileSafe, FileOwed
  <2>4. CASE sender' = "idle"
    BY <2>2, <2>3, <2>4 DEF FileInv, StampsGrow, DayInHand, FileHeld, Uploading
  <2>5. CASE /\ sender' = "build"
             /\ files' = [files EXCEPT !.days = files.days \ {d}]
    <3>1. /\ files'.days \subseteq files.days
          /\ files'.took = files.took /\ files'.licence = files.licence
      BY <2>5 DEF CloudTypeOK
    <3>. QED  BY <2>2, <2>3, <2>5, <3>1
              DEF FileInv, StampsGrow, DayInHand, FileHeld, Uploading
  <2>6. CASE /\ sender' = "built"
             /\ files' = [files EXCEPT !.day = d,
                           !.content = [b \in Orders |->
                              IF b \in BillsOf(d) THEN ver[b] ELSE 0]]
    <3>1. /\ files'.days = files.days /\ files'.day = d
          /\ files'.took = files.took /\ files'.licence = files.licence
          /\ \A b \in Orders : RowDay[b] = d => files'.content[b] = ver[b]
      BY <2>6 DEF CloudTypeOK, BillsOf
    <3>. QED  BY <2>1, <2>2, <2>3, <2>6, <3>1
              DEF FileInv, StampsGrow, DayInHand, FileHeld, Uploading
  <2>. QED  BY <2>1, <2>4, <2>5, <2>6
<1>3. CASE Put \/ PutFails
  <2>1. /\ UNCHANGED <<now, ver, dirty, uploaded, backdated, licence>>
        /\ sender = "built"
        /\ sender' = "idle" \/ (sender' = "put" /\ files' = files)
    BY <1>3 DEF Put, PutFails, shopVars
  <2>2. StampsGrow' /\ DayInHand'
    BY <2>1 DEF FileInv, StampsGrow, DayInHand, Uploading
  <2>. SUFFICES ASSUME NEW b \in Orders PROVE (FileSafe(b) /\ FileHeld(b))'
    BY <2>2 DEF FileInv
  <2>3. FileSafe(b) /\ FileHeld(b) /\ StampsGrow /\ DayInHand
    BY DEF FileInv
  <2>4. RowDay[b] \in FileDays
    BY SavedRows
  <2>5. \/ filed'[b] = filed[b]
        \/ files.day = RowDay[b] /\ filed'[b] = files.content[b]
    BY <1>3 DEF Put, PutFails, BillsOf, CloudTypeOK
  <2>6. FileSafe(b)'
    <3>1. /\ dirty[RowDay[b]] \in Nat /\ uploaded[RowDay[b]] \in Nat
          /\ files.took \in Nat
      BY <2>4 DEF CloudTypeOK
    <3>. QED  BY <2>1, <2>3, <2>4, <2>5, <3>1
              DEF FileSafe, FileHeld, FileOwed, StampsGrow, Uploading
  <2>7. (sender' = "put" /\ files.day = RowDay[b] /\ files.licence = licence) =>
          filed'[b] = files.content[b]
    BY <1>3, <2>1 DEF Put, PutFails, BillsOf
  <2>. QED  BY <2>1, <2>3, <2>6, <2>7 DEF FileHeld, DayInHand, Uploading
<1>4. CASE Record
  <2>1. /\ UNCHANGED <<now, ver, dirty, backdated, licence, filed>>
        /\ sender = "put" /\ sender' \in {"idle", "build"}
        /\ uploaded' = [uploaded EXCEPT ![files.day] = files.took]
        /\ sender' = "build" => /\ files'.took = files.took
                                /\ files'.licence = files.licence
                                /\ files'.days \subseteq files.days
    BY <1>4 DEF Record, cloudVars, CloudTypeOK
  <2>2. files.day \in FileDays
    BY <2>1 DEF CloudTypeOK
  <2>3. StampsGrow'
    BY <2>1, <2>2 DEF FileInv, StampsGrow, Uploading, CloudTypeOK
  <2>4. DayInHand'
    BY <2>1 DEF DayInHand
  <2>. SUFFICES ASSUME NEW b \in Orders PROVE (FileSafe(b) /\ FileHeld(b))'
    BY <2>3, <2>4 DEF FileInv
  <2>5. FileSafe(b) /\ FileHeld(b) /\ RowDay[b] \in FileDays
    BY SavedRows DEF FileInv
  <2>6. CASE RowDay[b] = files.day
    <3>1. uploaded'[RowDay[b]] = files.took
      BY <2>1, <2>2, <2>6 DEF CloudTypeOK
    <3>. QED  BY <2>1, <2>5, <2>6, <3>1
              DEF FileSafe, FileHeld, FileOwed, Uploading
  <2>7. CASE RowDay[b] # files.day
    <3>1. uploaded'[RowDay[b]] = uploaded[RowDay[b]]
      BY <2>1, <2>5, <2>7 DEF CloudTypeOK
    <3>. QED  BY <2>1, <2>5, <3>1 DEF FileSafe, FileHeld, FileOwed, Uploading
  <2>. QED  BY <2>6, <2>7
<1>. QED  BY <1>1, <1>2, <1>3, <1>4 DEF Archive

\* The file of a day is owed or holds the latest version of each bill of that
\* day, but where a stamp came too early or the licence changed under way.
THEOREM NoFileIsStale == CloudSpec => []FileOwedOrThere
<1>1. CloudInit => FileInv
  <2>. SUFFICES ASSUME CloudInit PROVE FileInv
    OBVIOUS
  <2>1. sender = "idle" /\ \A d \in FileDays : uploaded[d] = 0 /\ 0 <= now
    BY DEF CloudInit, Zero
  <2>2. \A b \in Orders : ver[b] = 0
    BY DEF CloudInit, Zero, Rows
  <2>. QED  BY <2>1, <2>2 DEF FileInv, StampsGrow, DayInHand, FileSafe,
                              FileHeld, Uploading
<1>2. ASSUME CloudTypeOK, FileInv, [CloudNext]_allVars
      PROVE  FileInv'
  <2>1. CASE UNCHANGED allVars
    BY <1>2, <2>1 DEF FileInv, StampsGrow, DayInHand, FileSafe, FileHeld,
                      FileOwed, Uploading, allVars, shopVars, senderVars, cloudVars
  <2>2. CASE CloudNext
    BY <1>2, <2>2, WritersKeepFiles, PushKeepsFiles, ArchiveKeepsFiles
       DEF CloudNext, CloudFails
  <2>. QED  BY <1>2, <2>1, <2>2
<1>3. FileInv => FileOwedOrThere
  BY DEF FileInv, FileSafe, FileOwedOrThere
<1>. QED  BY <1>1, <1>2, <1>3, CloudTypeCorrect, PTL DEF CloudSpec

----------------------------------------------------------------------------
(* TillForwarding. *)

\* A batch made of orders as they stand has the type of a request.
LEMMA BatchType ==
  ASSUME TypeOK, NEW bs \in SUBSET Bills
  PROVE  BatchFrom(bs) \in Request
<1>1. NoVersion \in Version
  BY ForwardingAssumption DEF NoVersion, Version, Stages
<1>2. [b \in Bills |-> IF b \in bs THEN bill[b] ELSE NoVersion] \in [Bills -> Version]
  BY <1>1 DEF TypeOK, TillType
<1>3. (IF prefixHere[me] = Unknown THEN NoPrefix ELSE prefixHere[me]) \in Prefixes
  BY ForwardingAssumption DEF TypeOK, TillType
<1>. QED  BY <1>2, <1>3 DEF BatchFrom, PrefixSent, Request, TypeOK, TillType

\* So does the resting value of a sender.
LEMMA NoRequestType == NoRequest \in Request /\ NoVersion \in Version
BY ForwardingAssumption DEF NoRequest, Request, NoVersion, Version, Stages, Ids

\* Saving an order keeps this till's types.
LEMMA SaveType ==
  ASSUME TypeOK, NEW b \in Bills, NEW stage \in Stages, NEW no \in 0 .. MaxBill,
         Save(b, stage, no)
  PROVE  /\ bill' \in [Bills -> Version] /\ queue' \subseteq Bills
         /\ late' \subseteq Bills /\ taken' \subseteq shop.copied
<1>1. [v |-> bill[b].v + 1, stage |-> stage, no |-> no] \in Version
  BY ForwardingAssumption DEF TypeOK, TillType, Save, Version
<1>. QED  BY <1>1 DEF TypeOK, TillType, PastType, Save

\* Every action of this till's counter keeps the types.
LEMMA CounterType ==
  ASSUME TypeOK, NEW b \in Bills, Counter(b), UNCHANGED shop
  PROVE  TypeOK'
<1>1. CASE Open(b)
  <2>1. /\ bill' \in [Bills -> Version] /\ queue' \subseteq Bills
        /\ late' \subseteq Bills /\ taken' \subseteq shop.copied
    BY <1>1, SaveType, ForwardingAssumption DEF Open, Stages
  <2>2. home' \in [Bills -> Ids]
    BY <1>1 DEF Open, TypeOK, TillType
  <2>. QED  BY <1>1, <2>1, <2>2
         DEF Open, TypeOK, TillType, WireType, MainType, PastType, wire, main
<1>2. CASE Settle(b)
  <2>1. issued[me] + 1 \in 0 .. MaxBill
    BY <1>2, ForwardingAssumption DEF Settle, TypeOK, TillType
  <2>2. /\ bill' \in [Bills -> Version] /\ queue' \subseteq Bills
        /\ late' \subseteq Bills /\ taken' \subseteq shop.copied
    BY <1>2, <2>1, SaveType DEF Settle, Stages, Finished
  <2>3. issued' \in [Ids -> 0 .. MaxBill]
    BY <1>2, <2>1 DEF Settle, TypeOK, TillType
  <2>. QED  BY <1>2, <2>2, <2>3
         DEF Settle, TypeOK, TillType, WireType, MainType, PastType, wire, main
<1>3. CASE Cancel(b) \/ Correct(b) \/ Void(b)
  <2>1. bill[b].no \in 0 .. MaxBill
    BY DEF TypeOK, TillType, Version
  <2>2. /\ bill' \in [Bills -> Version] /\ queue' \subseteq Bills
        /\ late' \subseteq Bills /\ taken' \subseteq shop.copied
    BY <1>3, <2>1, SaveType DEF Cancel, Correct, Void, Stages, Finished
  <2>. QED  BY <1>3, <2>2
         DEF Cancel, Correct, Void, TypeOK, TillType, WireType, MainType, PastType, wire, main
<1>. QED  BY <1>1, <1>2, <1>3 DEF Counter

\* What the main till's transaction writes has its type.
LEMMA AppliesType ==
  ASSUME TypeOK, NEW q \in Request, Applies(q)
  PROVE  MainType'
<1>1. New(q) \in SUBSET Bills
  BY DEF New, Readable
<1>2. book' \in [Bills -> BookRow]
  BY DEF Applies, BookAfter, BookRow, Request, Version, TypeOK, MainType
<1>3. drawn' \in [Bills -> SUBSET (0 .. MaxVersion)]
  <2>1. \A b \in Bills : q.orders[b].v \in 0 .. MaxVersion
    BY DEF Request, Version
  <2>. QED  BY <2>1 DEF Applies, Drawn, TypeOK, MainType
<1>4. frozen' \in [Days -> SUBSET (Bills \X (0 .. MaxVersion))]
  <2>1. \A d \in Days : Figures(book', d) \subseteq Bills \X (0 .. MaxVersion)
    BY <1>2 DEF Figures, BookRow
  <2>. QED  BY <2>1 DEF Applies, TypeOK, MainType
<1>5. prefixAt' \in [Ids -> Prefixes \cup {Unknown}]
  BY DEF Applies, Request, TypeOK, MainType
<1>. QED  BY <1>1, <1>2, <1>3, <1>4, <1>5 DEF Applies, TypeOK, MainType

\* Nothing the senders or the network do breaks a type.
LEMMA SendingType ==
  ASSUME TypeOK, NEW s \in Senders, Sending(s) \/ GiveUp(s), UNCHANGED shop
  PROVE  TypeOK'
<1>1. CASE Read(s)
  <2>1. Waiting \in SUBSET Bills
    BY DEF Waiting, Head, TypeOK, TillType
  <2>2. req' \in [Senders -> Request]
    BY <1>1, <2>1, BatchType DEF Read, TypeOK, WireType
  <2>3. at' \in [Senders -> {"idle", "sent", "told"}]
    BY <1>1 DEF Read, TypeOK, WireType
  <2>. QED  BY <1>1, <2>2, <2>3
         DEF Read, TypeOK, TillType, WireType, MainType, PastType, till, main, past
<1>2. CASE Confirm(s)
  <2>1. WireType' /\ queue' \subseteq Bills
    BY <1>2, NoRequestType DEF Confirm, TypeOK, WireType, TillType
  <2>. QED  BY <1>2, <2>1
         DEF Confirm, TypeOK, TillType, MainType, PastType, main, past
<1>3. CASE Deliver(s)
  <2>1. req[s] \in Request
    BY DEF TypeOK, WireType
  <2>2. MainType'
    <3>1. CASE Applies(req[s])
      BY <2>1, <3>1, AppliesType
    <3>2. CASE Refuses(req[s])
      BY <3>2 DEF Refuses, main, TypeOK, MainType
    <3>. QED  BY <1>3, <3>1, <3>2 DEF Deliver
  <2>3. Answers(req[s]) \in SUBSET Bills
    BY DEF Answers, Readable
  <2>4. WireType'
    BY <1>3, <2>3 DEF Deliver, TypeOK, WireType
  <2>. QED  BY <1>3, <2>2, <2>4 DEF Deliver, TypeOK, TillType, PastType, till, past
<1>4. CASE GiveUp(s)
  <2>1. WireType'
    BY <1>4, NoRequestType DEF GiveUp, TypeOK, WireType
  <2>2. lost' \in 0 .. MaxLost
    BY <1>4, ForwardingAssumption DEF GiveUp, TypeOK, PastType
  <2>. QED  BY <1>4, <2>1, <2>2
         DEF GiveUp, TypeOK, TillType, MainType, PastType, till, main
<1>. QED  BY <1>1, <1>2, <1>3, <1>4 DEF Sending

\* Nothing a person does at the main till breaks a type.
LEMMA MainTillType ==
  ASSUME TypeOK, UNCHANGED shop,
         \/ \E b \in Bills : VoidThere(b) \/ Prune(b)
         \/ \E id \in Ids, p \in Prefixes : RenameThere(id, p)
         \/ \E d \in Days : CloseDay(d) \/ ReopenDay(d)
         \/ SettleOwn
  PROVE  TypeOK'
<1>1. ASSUME NEW b \in Bills, VoidThere(b) PROVE TypeOK'
  <2>1. book' \in [Bills -> BookRow]
    BY <1>1 DEF VoidThere, TypeOK, MainType, BookRow, Stages, Finished
  <2>2. drawn' \in [Bills -> SUBSET (0 .. MaxVersion)]
    BY <1>1 DEF VoidThere, TypeOK, MainType
  <2>. QED  BY <1>1, <2>1, <2>2
         DEF VoidThere, TypeOK, TillType, WireType, MainType, PastType, till, wire, past
<1>2. ASSUME NEW b \in Bills, Prune(b) PROVE TypeOK'
  BY <1>2 DEF Prune, TypeOK, TillType, WireType, MainType, PastType, till, wire
<1>3. ASSUME NEW id \in Ids, NEW p \in Prefixes, RenameThere(id, p) PROVE TypeOK'
  <2>1. renames' \in 0 .. MaxDeeds
    BY <1>3, ForwardingAssumption DEF RenameThere, TypeOK, MainType, PastType
  <2>. QED  BY <1>3, <2>1
         DEF RenameThere, TypeOK, TillType, WireType, MainType, PastType, till, wire
<1>4. ASSUME NEW d \in Days, CloseDay(d) PROVE TypeOK'
  <2>1. Figures(book, d) \subseteq Bills \X (0 .. MaxVersion)
    BY DEF Figures, TypeOK, MainType, BookRow
  <2>2. frozen' \in [Days -> SUBSET (Bills \X (0 .. MaxVersion))]
    BY <1>4, <2>1 DEF CloseDay, TypeOK, MainType
  <2>. QED  BY <1>4, <2>2
         DEF CloseDay, TypeOK, TillType, WireType, MainType, PastType, till, wire, past
<1>5. ASSUME NEW d \in Days, ReopenDay(d) PROVE TypeOK'
  BY <1>5 DEF ReopenDay, TypeOK, TillType, WireType, MainType, PastType, till, wire, past
<1>6. CASE SettleOwn
  <2>1. own' \in 0 .. MaxDeeds
    BY <1>6, ForwardingAssumption DEF SettleOwn, TypeOK, MainType, PastType
  <2>. QED  BY <1>6, <2>1
         DEF SettleOwn, TypeOK, TillType, WireType, MainType, PastType, till, wire, past
<1>. QED  BY <1>1, <1>2, <1>3, <1>4, <1>5, <1>6

-----------------------------------------------------------------------------
(* Types.                                                                  *)

\* Every variable of the two tills and of the link between them keeps its
\* type, and no bill carries a number beyond the series that issued it.
THEOREM ForwardTypeCorrect == Spec => []TypeOK
<1>1. Init => TypeOK
  <2>. SUFFICES ASSUME Init PROVE TypeOK
    OBVIOUS
  <2>1. TillType
    <3>2. prefixHere \in [Ids -> Prefixes \cup {Unknown}]
      BY ForwardingAssumption DEF Init
    <3>3. issued \in [Ids -> 0 .. MaxBill]
      BY ForwardingAssumption DEF Init
    <3>4. bill \in [Bills -> Version] /\ home \in [Bills -> Ids]
      BY NoRequestType DEF Init, Ids
    <3>. QED  BY <3>2, <3>3, <3>4 DEF Init, TillType, Ids
  <2>2. WireType
    BY NoRequestType DEF Init, WireType
  <2>3. MainType
    BY ForwardingAssumption DEF Init, MainType, BookRow, Stages, Ids
  <2>4. PastType
    BY ForwardingAssumption DEF Init, PastType
  <2>. QED  BY <2>1, <2>2, <2>3, <2>4 DEF TypeOK
<1>2. TypeOK /\ [Next]_vars => TypeOK'
  <2>. SUFFICES ASSUME TypeOK, [Next]_vars PROVE TypeOK'
    OBVIOUS
  <2>. UNCHANGED shop
    BY DEF Next, vars
  <2>1. CASE UNCHANGED vars
    BY <2>1 DEF vars, till, wire, main, past, TypeOK, TillType, WireType, MainType, PastType
  <2>2. ASSUME NEW p \in Prefixes, Join(p) \/ RenameHere(p) PROVE TypeOK'
    <3>1. prefixHere' \in [Ids -> Prefixes \cup {Unknown}]
      BY <2>2 DEF Join, RenameHere, TypeOK, TillType
    <3>2. renames' \in 0 .. MaxDeeds
      BY <2>2, ForwardingAssumption DEF Join, RenameHere, TypeOK, MainType, PastType, past
    <3>3. linked' \in BOOLEAN
      BY <2>2 DEF Join, RenameHere, TypeOK, TillType
    <3>. QED  BY <2>2, <3>1, <3>2, <3>3
           DEF Join, RenameHere, TypeOK, TillType, WireType, MainType, PastType, wire, main, past
  <2>3. ASSUME NEW q \in stray, DeliverStray(q) PROVE TypeOK'
    <3>1. q \in Request
      BY <2>3 DEF TypeOK, WireType
    <3>2. CASE Applies(q)
      BY <2>3, <3>1, <3>2, AppliesType
      DEF DeliverStray, TypeOK, TillType, WireType, PastType, till, past
    <3>3. CASE Refuses(q)
      BY <2>3, <3>3
      DEF DeliverStray, Refuses, TypeOK, TillType, WireType, MainType, PastType, till, main, past
    <3>. QED  BY <2>3, <3>2, <3>3 DEF DeliverStray
  <2>4. CASE Restart
    <3>1. WireType'
      BY <2>4, NoRequestType DEF Restart, TypeOK, WireType
    <3>2. me' \in Ids /\ lost' \in 0 .. MaxLost
      BY <2>4, ForwardingAssumption DEF Restart, TakesNewId, TypeOK, PastType, Ids
    <3>. QED  BY <2>4, <3>1, <3>2
           DEF Restart, TypeOK, TillType, MainType, PastType, main
  <2>5. ASSUME NEW b \in Bills, CloudTakes(b) PROVE TypeOK'
    BY <2>5 DEF CloudTakes, Copied, TypeOK, TillType, WireType, MainType, PastType, wire, main
  <2>. QED  BY <2>1, <2>2, <2>3, <2>4, <2>5, CounterType, SendingType, MainTillType
         DEF Next, Deeds
<1>. QED  BY <1>1, <1>2, PTL DEF Spec

-----------------------------------------------------------------------------
(* Nothing owed is lost.  An order that was not saved again after it       *)
(* travelled is the same wherever it is: here, on its way, in the book.    *)

Fresh(q) == \A b \in Bills : Carries(q, b) /\ b \notin late => q.orders[b].v = bill[b].v

FreshOnTheWay ==
  /\ \A q \in stray : Fresh(q)
  /\ \A s \in Senders : at[s] # "idle" => Fresh(req[s])

FreshInBook == \A b \in Bills : InBook(b) /\ b \notin late => book[b].v = bill[b].v

(* What a receipt calls stored is in the book.                             *)
StoredIsThere ==
  /\ \A b \in ledger : InBook(b)
  /\ \A s \in Senders : \A b \in stored[s] : InBook(b)

Owed == \A b \in Bills : IsFinished(b) /\ b \notin queue => b \in taken \/ InBook(b)

OwedInv == FreshOnTheWay /\ FreshInBook /\ StoredIsThere /\ Owed

\* A save makes its order late if an older version of it is anywhere.
LEMMA SaveOwed ==
  ASSUME TypeOK, OwedInv, NEW b \in Bills, NEW stage, NEW no, Save(b, stage, no),
         UNCHANGED <<wire, main>>
  PROVE  OwedInv'
<1>. USE DEF wire, main, TypeOK
<1>1. /\ late \subseteq late'
      /\ \A c \in Bills \ {b} : bill'[c] = bill[c]
      /\ HasTravelled(b) => b \in late'
  BY DEF Save, TillType, PastType
<1>2. ASSUME NEW q, Fresh(q), Carries(q, b) => HasTravelled(b) PROVE Fresh(q)'
  BY <1>1, <1>2 DEF Fresh, Carries
<1>3. FreshOnTheWay'
  BY <1>2 DEF OwedInv, FreshOnTheWay, HasTravelled
<1>4. FreshInBook'
  BY <1>1 DEF OwedInv, FreshInBook, InBook, HasTravelled
<1>5. StoredIsThere'
  BY DEF OwedInv, StoredIsThere, InBook
<1>6. Owed'
  BY <1>1 DEF OwedInv, Owed, IsFinished, InBook, Save
<1>. QED  BY <1>3, <1>4, <1>5, <1>6 DEF OwedInv

\* What the main till's transaction stores is what travelled, and nothing
\* leaves the book.
LEMMA AppliesOwed ==
  ASSUME TypeOK, OwedInv, NEW q \in Request, Fresh(q), Applies(q),
         UNCHANGED <<till, late, taken>>
  PROVE  /\ FreshInBook' /\ Owed'
         /\ \A b \in Bills : InBook(b) => InBook(b)'
         /\ \A b \in ledger' : InBook(b)'
         /\ \A b \in Readable(q) : InBook(b)'
<1>. USE DEF till, TypeOK
<1>1. \A b \in Bills : book'[b].v = IF b \in New(q) THEN q.orders[b].v ELSE book[b].v
  BY DEF Applies, BookAfter
<1>2. New(q) \subseteq Bills /\ \A b \in New(q) : Carries(q, b)
  BY DEF New, Readable
<1>3. \A b \in Bills : InBook(b) => InBook(b)'
  BY <1>1, <1>2 DEF InBook, Carries
<1>4. FreshInBook'
  BY <1>1, <1>2 DEF FreshInBook, OwedInv, InBook, Fresh
<1>5. Owed'
  BY <1>3 DEF Owed, OwedInv, IsFinished
<1>6. \A b \in New(q) : InBook(b)'
  BY <1>1, <1>2 DEF InBook, Carries
<1>7. \A b \in ledger' : InBook(b)'
  BY <1>3, <1>6 DEF Applies, OwedInv, StoredIsThere, MainType
<1>8. \A b \in Readable(q) : InBook(b)'
  BY <1>3, <1>6 DEF New, Readable, OwedInv, StoredIsThere, MainType
<1>. QED  BY <1>3, <1>4, <1>5, <1>7, <1>8

\* Nothing the senders do loses an order.
LEMMA SendingOwed ==
  ASSUME TypeOK, OwedInv, NEW s \in Senders, Sending(s) \/ GiveUp(s)
  PROVE  OwedInv'
<1>1. CASE Read(s)
  <2>1. Fresh(BatchFrom(Waiting))
    BY DEF Fresh, BatchFrom, Carries, NoVersion
  <2>2. FreshOnTheWay'
    <3>1. /\ stray' = stray /\ bill' = bill /\ late' = late
          /\ \A t \in Senders \ {s} : at'[t] = at[t] /\ req'[t] = req[t]
          /\ req'[s] = BatchFrom(Waiting)
      BY <1>1 DEF Read, till, past, TypeOK, WireType
    <3>2. \A q : Fresh(q)' <=> Fresh(q)
      BY <3>1 DEF Fresh, Carries
    <3>. QED  BY <2>1, <3>1, <3>2 DEF FreshOnTheWay, OwedInv
  <2>. QED  BY <1>1, <2>2
         DEF Read, OwedInv, FreshInBook, StoredIsThere, Owed, IsFinished, InBook, till, main, past
<1>2. CASE Confirm(s) \/ GiveUp(s)
  <2>1. /\ UNCHANGED <<bill, late, taken, book, ledger>>
        /\ \A t \in Senders : /\ at'[t] # "idle" => at'[t] = at[t] /\ req'[t] = req[t]
                              /\ stored'[t] \subseteq stored[t]
    BY <1>2 DEF Confirm, GiveUp, TypeOK, WireType, till, main, past
  <2>2. \A q \in stray' : q \in stray \/ (at[s] # "idle" /\ q = req[s])
    BY <1>2 DEF Confirm, GiveUp
  <2>3. FreshOnTheWay'
    BY <2>1, <2>2 DEF FreshOnTheWay, OwedInv, Fresh, Carries
  <2>4. queue \ queue' \subseteq stored[s]
    BY <1>2 DEF Confirm, GiveUp, till
  <2>. QED  BY <2>1, <2>3, <2>4
         DEF OwedInv, FreshInBook, StoredIsThere, Owed, IsFinished, InBook
<1>3. CASE Deliver(s)
  <2>1. /\ UNCHANGED <<till, req, stray, past>> /\ at[s] = "sent"
        /\ \A t \in Senders : at'[t] # "idle" => at[t] # "idle"
        /\ \A t \in Senders \ {s} : stored'[t] = stored[t]
        /\ stored'[s] = Answers(req[s])
    BY <1>3 DEF Deliver, TypeOK, WireType
  <2>2. FreshOnTheWay'
    BY <2>1 DEF FreshOnTheWay, OwedInv, Fresh, Carries, till, past
  <2>3. CASE Applies(req[s])
    <3>1. req[s] \in Request /\ Fresh(req[s])
      BY <2>1 DEF TypeOK, WireType, OwedInv, FreshOnTheWay
    <3>2. /\ FreshInBook' /\ Owed' /\ \A b \in Bills : InBook(b) => InBook(b)'
          /\ \A b \in ledger' : InBook(b)'
          /\ \A b \in Readable(req[s]) : InBook(b)'
      BY <2>1, <2>3, <3>1, AppliesOwed DEF past
    <3>3. stored'[s] \subseteq Readable(req[s])
      BY <2>1 DEF Answers
    <3>4. \A t \in Senders : \A b \in stored'[t] : InBook(b)'
      <4>1. \A b \in stored'[s] : InBook(b)'
        BY <3>2, <3>3 DEF InBook
      <4>2. \A t \in Senders \ {s} : \A b \in stored'[t] : b \in Bills /\ InBook(b)
        BY <2>1 DEF StoredIsThere, OwedInv, TypeOK, WireType
      <4>. QED  BY <3>2, <4>1, <4>2 DEF InBook
    <3>5. StoredIsThere'
      BY <3>2, <3>4 DEF StoredIsThere
    <3>. QED  BY <2>2, <3>2, <3>5 DEF OwedInv
  <2>4. CASE Refuses(req[s])
    <3>1. stored'[s] = {} /\ UNCHANGED <<book, ledger>>
      BY <2>1, <2>4 DEF Answers, Refuses, main
    <3>. QED  BY <2>1, <2>2, <3>1
           DEF OwedInv, FreshInBook, StoredIsThere, Owed, IsFinished, InBook, till, past
  <2>. QED  BY <1>3, <2>3, <2>4 DEF Deliver
<1>. QED  BY <1>1, <1>2, <1>3 DEF Sending

\* A finished order is in the outbox or in the main till's book, at its latest
\* version unless it was saved again after it had travelled: over lost answers,
\* requests that arrive after their sender gave up, restarts, refused batches
\* and a pruned ledger.  Only the cloud's sender of the same till takes one out
\* that is not there, and then one it copies (ForwardTypeCorrect).
THEOREM NothingOwedIsLost == Spec => []OwedOrInBook
<1>1. Init => OwedInv
  BY DEF Init, OwedInv, FreshOnTheWay, FreshInBook, StoredIsThere, Owed, IsFinished, InBook,
         NoVersion, Finished
<1>2. TypeOK /\ OwedInv /\ [Next]_vars => OwedInv'
  <2>. SUFFICES ASSUME TypeOK, OwedInv, [Next]_vars PROVE OwedInv'
    OBVIOUS
  <2>. DEFINE Rest == UNCHANGED <<bill, queue, late, taken, stray, at, req, stored>>
  <2>1. ASSUME Rest, \A b \in Bills : book'[b].v = book[b].v, ledger' \subseteq ledger
        PROVE  OwedInv'
    BY <2>1 DEF OwedInv, FreshOnTheWay, FreshInBook, StoredIsThere, Owed, IsFinished, InBook,
                Fresh, Carries, TypeOK, MainType, WireType
  <2>2. ASSUME NEW b \in Bills, Counter(b) PROVE OwedInv'
    <3>1. PICK stage, no : Save(b, stage, no)
      BY <2>2 DEF Counter, Open, Settle, Cancel, Correct, Void
    <3>2. UNCHANGED <<wire, main>>
      BY <2>2 DEF Counter, Open, Settle, Cancel, Correct, Void
    <3>. QED  BY <3>1, <3>2, SaveOwed
  <2>3. ASSUME NEW b \in Bills, VoidThere(b) \/ Prune(b) PROVE OwedInv'
    <3>1. Rest
      BY <2>3 DEF VoidThere, Prune, till, wire, past
    <3>2. (\A c \in Bills : book'[c].v = book[c].v) /\ ledger' \subseteq ledger
      BY <2>3 DEF VoidThere, Prune, TypeOK, MainType, BookRow
    <3>. QED  BY <2>1, <3>1, <3>2
  <2>4. ASSUME NEW p \in Prefixes,
               Join(p) \/ RenameHere(p) \/ \E id \in Ids : RenameThere(id, p)
        PROVE  OwedInv'
    BY <2>1, <2>4 DEF Join, RenameHere, RenameThere, till, wire, main, past
  <2>5. ASSUME NEW q \in stray, DeliverStray(q) PROVE OwedInv'
    <3>1. /\ UNCHANGED <<till, at, req, stored, past>> /\ stray' \subseteq stray
          /\ q \in Request /\ Fresh(q)
      BY <2>5 DEF DeliverStray, OwedInv, FreshOnTheWay, TypeOK, WireType
    <3>2. FreshOnTheWay'
      BY <3>1 DEF FreshOnTheWay, OwedInv, Fresh, Carries, till, past
    <3>3. CASE Applies(q)
      <4>1. /\ FreshInBook' /\ Owed' /\ \A b \in Bills : InBook(b) => InBook(b)'
            /\ \A b \in ledger' : InBook(b)'
        BY <3>1, <3>3, AppliesOwed DEF past
      <4>2. StoredIsThere'
        BY <3>1, <4>1 DEF StoredIsThere, OwedInv, TypeOK, WireType
      <4>. QED  BY <3>2, <4>1, <4>2 DEF OwedInv
    <3>4. CASE Refuses(q)
      BY <3>1, <3>2, <3>4
      DEF Refuses, OwedInv, FreshInBook, StoredIsThere, Owed, IsFinished, InBook, till, main, past
    <3>. QED  BY <2>5, <3>3, <3>4 DEF DeliverStray
  <2>6. ASSUME NEW d \in Days, CloseDay(d) \/ ReopenDay(d) PROVE OwedInv'
    BY <2>1, <2>6 DEF CloseDay, ReopenDay, till, wire, past
  <2>7. CASE Restart
    <3>1. /\ UNCHANGED <<bill, queue, late, taken, book, ledger>>
          /\ \A s \in Senders : at'[s] = "idle" /\ stored'[s] = {}
      BY <2>7 DEF Restart, main
    <3>2. \A q \in stray' : q \in stray \/ \E s \in Senders : at[s] # "idle" /\ q = req[s]
      BY <2>7 DEF Restart
    <3>3. FreshOnTheWay'
      BY <3>1, <3>2 DEF FreshOnTheWay, OwedInv, Fresh, Carries
    <3>. QED  BY <3>1, <3>3
           DEF OwedInv, FreshInBook, StoredIsThere, Owed, IsFinished, InBook
  <2>8. CASE SettleOwn
    BY <2>1, <2>8 DEF SettleOwn, till, wire, past
  <2>9. CASE UNCHANGED vars
    BY <2>1, <2>9 DEF vars, till, wire, main, past
  <2>10. ASSUME NEW b \in Bills, CloudTakes(b) PROVE OwedInv'
    <3>1. UNCHANGED <<bill, late, stray, at, req, stored, book, ledger>>
      BY <2>10 DEF CloudTakes, wire, main
    <3>2. queue \ queue' \subseteq taken' /\ taken \subseteq taken'
      BY <2>10 DEF CloudTakes
    <3>. QED  BY <3>1, <3>2
           DEF OwedInv, FreshOnTheWay, FreshInBook, StoredIsThere, Owed, IsFinished, InBook,
               Fresh, Carries
  <2>. QED  BY <2>2, <2>3, <2>4, <2>5, <2>6, <2>7, <2>8, <2>9, <2>10, SendingOwed
         DEF Next, Deeds
<1>3. OwedInv => OwedOrInBook
  BY DEF OwedInv, Owed, FreshInBook, OwedOrInBook
<1>. QED  BY <1>1, <1>2, <1>3, ForwardTypeCorrect, PTL DEF Spec

-----------------------------------------------------------------------------
(* The main till's book.                                                   *)

\* Whose step writes the book: the transaction that takes a batch, or the main
\* till's own void.
LEMMA BookWriters ==
  ASSUME TypeOK, [Next]_vars
  PROVE  \/ UNCHANGED <<book, ledger, drawn, frozen, locked>>
         \/ \E q \in Request :
              /\ Applies(q) /\ UNCHANGED <<till, past>>
              /\ q \in stray \/ \E s \in Senders : at[s] = "sent" /\ q = req[s]
         \/ \E b \in Bills : VoidThere(b) \/ Prune(b)
         \/ \E d \in Days : CloseDay(d) \/ ReopenDay(d)
<1>1. ASSUME NEW b \in Bills, Counter(b) PROVE UNCHANGED main
  BY <1>1 DEF Counter, Open, Settle, Cancel, Correct, Void
<1>2. ASSUME NEW p \in Prefixes, Join(p) \/ RenameHere(p) PROVE UNCHANGED main
  BY <1>2 DEF Join, RenameHere
<1>3. ASSUME NEW s \in Senders, Read(s) \/ Confirm(s) \/ GiveUp(s) PROVE UNCHANGED main
  BY <1>3 DEF Read, Confirm, GiveUp
<1>4. ASSUME NEW s \in Senders, Deliver(s)
      PROVE  \/ UNCHANGED main
             \/ \E q \in Request : /\ Applies(q) /\ UNCHANGED <<till, past>>
                                   /\ at[s] = "sent" /\ q = req[s]
  BY <1>4 DEF Deliver, Refuses, TypeOK, WireType
<1>5. ASSUME NEW q \in stray, DeliverStray(q)
      PROVE  \/ UNCHANGED main
             \/ q \in Request /\ Applies(q) /\ UNCHANGED <<till, past>>
  BY <1>5 DEF DeliverStray, Refuses, TypeOK, WireType
<1>6. ASSUME NEW id \in Ids, NEW p \in Prefixes, RenameThere(id, p)
      PROVE  UNCHANGED <<book, ledger, drawn, frozen, locked>>
  BY <1>6 DEF RenameThere
<1>7. SettleOwn => UNCHANGED <<book, ledger, drawn, frozen, locked>>
  BY DEF SettleOwn
<1>8. Restart \/ (\E b \in Bills : CloudTakes(b)) \/ UNCHANGED vars => UNCHANGED main
  BY DEF Restart, CloudTakes, vars
<1>9. UNCHANGED main => UNCHANGED <<book, ledger, drawn, frozen, locked>>
  BY DEF main
<1>. QED  BY <1>1, <1>2, <1>3, <1>4, <1>5, <1>6, <1>7, <1>8, <1>9
   DEF Next, Deeds, Sending

\* What the book says of a bill that its ledger remembers is replaced by nobody
\* but the main till itself.
THEOREM WhatIsAppliedStands == Spec => BookStands
<1>1. TypeOK /\ [Next]_vars => [KeepsWhatItRemembers]_vars
  <2>. SUFFICES ASSUME TypeOK, [Next]_vars PROVE KeepsWhatItRemembers
    OBVIOUS
  <2>1. ASSUME NEW q \in Request, Applies(q) PROVE KeepsWhatItRemembers
    BY <2>1 DEF Applies, BookAfter, New, KeepsWhatItRemembers, TypeOK, MainType
  <2>2. ASSUME NEW b \in Bills, VoidThere(b) \/ Prune(b) PROVE KeepsWhatItRemembers
    BY <2>2 DEF VoidThere, Prune, KeepsWhatItRemembers, TypeOK, MainType
  <2>3. ASSUME NEW d \in Days, CloseDay(d) \/ ReopenDay(d) PROVE KeepsWhatItRemembers
    BY <2>3 DEF CloseDay, ReopenDay, KeepsWhatItRemembers
  <2>4. CASE UNCHANGED <<book, ledger, drawn, frozen, locked>>
    BY <2>4 DEF KeepsWhatItRemembers
  <2>. QED  BY <2>1, <2>2, <2>3, <2>4, BookWriters
<1>. QED  BY <1>1, ForwardTypeCorrect, PTL DEF Spec, BookStands

\* The figures frozen for a closed day are those of the bills the book has for
\* it, whenever they arrived.
THEOREM ClosedDaysTie == Spec => []ClosedDayTies
<1>1. Init => ClosedDayTies
  BY DEF Init, ClosedDayTies
<1>2. TypeOK /\ ClosedDayTies /\ [Next]_vars => ClosedDayTies'
  <2>. SUFFICES ASSUME TypeOK, ClosedDayTies, [Next]_vars, NEW d \in locked'
                PROVE  frozen'[d] = Figures(book', d)
    BY DEF ClosedDayTies, Figures
  <2>1. ASSUME NEW q \in Request, Applies(q) PROVE frozen'[d] = Figures(book', d)
    <3>1. d \in Days /\ d \in locked
      BY <2>1 DEF Applies, TypeOK, MainType
    <3>2. CASE \E b \in New(q) : DayOf[b] = d
      BY <2>1, <3>1, <3>2 DEF Applies
    <3>3. CASE ~\E b \in New(q) : DayOf[b] = d
      <4>1. frozen'[d] = Figures(book, d)
        BY <2>1, <3>1, <3>3 DEF Applies, ClosedDayTies
      <4>2. \A b \in Bills : DayOf[b] = d => book'[b] = book[b]
        BY <2>1, <3>3 DEF Applies, BookAfter
      <4>. QED  BY <4>1, <4>2 DEF Figures
    <3>. QED  BY <3>2, <3>3
  <2>2. ASSUME NEW b \in Bills, VoidThere(b) \/ Prune(b) PROVE frozen'[d] = Figures(book', d)
    <3>1. d \in locked /\ frozen'[d] = Figures(book, d)
      BY <2>2 DEF VoidThere, Prune, ClosedDayTies
    <3>2. \A c \in Bills : DayOf[c] = d => book'[c] = book[c]
      BY <2>2, <3>1 DEF VoidThere, Prune, TypeOK, MainType
    <3>. QED  BY <3>1, <3>2 DEF Figures
  <2>3. ASSUME NEW e \in Days, CloseDay(e) \/ ReopenDay(e) PROVE frozen'[d] = Figures(book', d)
    BY <2>3 DEF CloseDay, ReopenDay, ClosedDayTies, TypeOK, MainType
  <2>4. CASE UNCHANGED <<book, ledger, drawn, frozen, locked>>
    BY <2>4 DEF ClosedDayTies
  <2>. QED  BY <2>1, <2>2, <2>3, <2>4, BookWriters
<1>. QED  BY <1>1, <1>2, ForwardTypeCorrect, PTL DEF Spec

-----------------------------------------------------------------------------
(* Drawers.  An order exists here before it travels, and a till that runs  *)
(* under its own id never goes back to the other one.                      *)

OfThisTill(q) ==
  \A b \in Bills : Carries(q, b) => bill[b].v > 0 /\ (home[b] = Joined => q.id = Joined)

DrawerInv ==
  /\ me = Joined => linked
  /\ \A b \in Bills : bill[b].v = 0 => bill[b].stage = "none"
  /\ \A b \in Bills : bill[b].v > 0 /\ home[b] = Joined => me = Joined
  /\ \A q \in stray : OfThisTill(q)
  /\ \A s \in Senders : OfThisTill(req[s])
  /\ \A b \in Bills : InBook(b) => bill[b].v > 0 /\ (home[b] = Joined => book[b].till = Joined)

\* Only opening an order writes its home, and then it has travelled nowhere.
LEMMA CounterDrawer ==
  ASSUME TypeOK, DrawerInv, NEW b \in Bills, Counter(b)
  PROVE  DrawerInv'
<1>1. UNCHANGED <<wire, main, me, linked>>
  BY DEF Counter, Open, Settle, Cancel, Correct, Void
<1>4. \A c \in Bills : bill'[c] = bill[c] \/ bill'[c].v > 0
  <2>1. PICK stage, no : Save(b, stage, no)
    BY DEF Counter, Open, Settle, Cancel, Correct, Void
  <2>. QED  BY <2>1 DEF Save, TypeOK, TillType, Version
<1>5. \A c \in Bills : bill[c].v > 0 => home'[c] = home[c]
  BY DEF Counter, Open, Settle, Cancel, Correct, Void, TypeOK, TillType
<1>2. \A c \in Bills : bill'[c].v > 0 /\ home'[c] = Joined => me = Joined
  <2>1. CASE Open(b)
    BY <2>1 DEF Open, Save, DrawerInv, TypeOK, TillType, Version
  <2>2. CASE Settle(b) \/ Cancel(b) \/ Correct(b) \/ Void(b)
    <3>1. home' = home /\ \A c \in Bills \ {b} : bill'[c] = bill[c]
      BY <2>2 DEF Settle, Cancel, Correct, Void, Save, TypeOK, TillType
    <3>2. bill[b].v > 0 \/ bill[b].v = 0
      BY DEF TypeOK, TillType, Version
    <3>3. bill[b].stage \in {"open", "settled"}
      BY <2>2 DEF Settle, Cancel, Correct, Void
    <3>. QED  BY <3>1, <3>2, <3>3 DEF DrawerInv
  <2>. QED  BY <2>1, <2>2 DEF Counter
<1>3. ASSUME NEW q, OfThisTill(q) PROVE OfThisTill(q)'
  BY <1>3, <1>4, <1>5 DEF OfThisTill, Carries
<1>. QED  BY <1>1, <1>2, <1>3, <1>4, <1>5 DEF DrawerInv, OfThisTill, Carries, InBook, wire, main

\* A bill taken under this till's own id is never in the main till's drawer.
THEOREM EveryBillInItsDrawer == Spec => []OwnDrawer
<1>1. Init => DrawerInv
  BY DEF Init, DrawerInv, OfThisTill, Carries, InBook, NoRequest, NoVersion, Default, Joined
<1>2. TypeOK /\ DrawerInv /\ [Next]_vars => DrawerInv'
  <2>. SUFFICES ASSUME TypeOK, DrawerInv, [Next]_vars PROVE DrawerInv'
    OBVIOUS
  <2>1. OfThisTill(NoRequest)
    BY DEF OfThisTill, Carries, NoRequest, NoVersion
  <2>2. ASSUME UNCHANGED <<bill, home>>,
               me' = Joined => linked',
               me = Joined => me' = Joined,
               \A q \in stray' : OfThisTill(q),
               \A s \in Senders : OfThisTill(req'[s]),
               \A b \in Bills : InBook(b)' =>
                   /\ bill[b].v > 0
                   /\ home[b] = Joined => book'[b].till = Joined
        PROVE  DrawerInv'
    BY <2>2 DEF DrawerInv, OfThisTill, Carries
  <2>3. ASSUME NEW q \in Request, OfThisTill(q), Applies(q)
        PROVE  \A b \in Bills : InBook(b)' =>
                   /\ bill[b].v > 0
                   /\ home[b] = Joined => book'[b].till = Joined
    BY <2>3 DEF Applies, BookAfter, New, Readable, OfThisTill, DrawerInv, InBook
  <2>4. ASSUME UNCHANGED main \/ \A b \in Bills : book'[b].till = book[b].till /\ book'[b].v = book[b].v
        PROVE  \A b \in Bills : InBook(b)' =>
                   /\ bill[b].v > 0
                   /\ home[b] = Joined => book'[b].till = Joined
    BY <2>4 DEF DrawerInv, InBook, main
  <2>5. ASSUME NEW s \in Senders, Read(s) PROVE DrawerInv'
    <3>1. OfThisTill(BatchFrom(Waiting))
      BY DEF OfThisTill, Carries, BatchFrom, NoVersion, DrawerInv
    <3>2. \A t \in Senders : OfThisTill(req'[t])
      BY <2>5, <3>1 DEF Read, DrawerInv, TypeOK, WireType
    <3>. QED  BY <2>2, <2>4, <2>5, <3>2 DEF Read, DrawerInv, till, main
  <2>6. ASSUME NEW s \in Senders, Confirm(s) \/ GiveUp(s) PROVE DrawerInv'
    <3>1. \A t \in Senders : OfThisTill(req'[t])
      BY <2>1, <2>6 DEF Confirm, GiveUp, DrawerInv, TypeOK, WireType
    <3>2. \A q \in stray' : OfThisTill(q)
      BY <2>6 DEF Confirm, GiveUp, DrawerInv
    <3>. QED  BY <2>2, <2>4, <2>6, <3>1, <3>2 DEF Confirm, GiveUp, DrawerInv, till, main
  <2>7. ASSUME NEW s \in Senders, Deliver(s) PROVE DrawerInv'
    <3>1. req[s] \in Request /\ OfThisTill(req[s])
      BY DEF TypeOK, WireType, DrawerInv
    <3>. QED  BY <2>2, <2>3, <2>4, <2>7, <3>1 DEF Deliver, Refuses, DrawerInv, till
  <2>8. ASSUME NEW q \in stray, DeliverStray(q) PROVE DrawerInv'
    <3>1. q \in Request /\ OfThisTill(q) /\ stray' \subseteq stray
      BY <2>8 DEF DeliverStray, TypeOK, WireType, DrawerInv
    <3>. QED  BY <2>2, <2>3, <2>4, <2>8, <3>1 DEF DeliverStray, Refuses, DrawerInv, till
  <2>9. CASE Restart
    <3>1. \A t \in Senders : OfThisTill(req'[t])
      BY <2>1, <2>9 DEF Restart
    <3>2. \A q \in stray' : OfThisTill(q)
      BY <2>9 DEF Restart, DrawerInv
    <3>3. (me' = Joined => linked') /\ (me = Joined => me' = Joined)
      BY <2>9 DEF Restart, DrawerInv, Default, Joined
    <3>. QED  BY <2>2, <2>4, <2>9, <3>1, <3>2, <3>3 DEF Restart, main
  <2>10. ASSUME NEW p \in Prefixes, Join(p) \/ RenameHere(p) PROVE DrawerInv'
    BY <2>2, <2>4, <2>10 DEF Join, RenameHere, DrawerInv, wire, main
  <2>11. ASSUME NEW b \in Bills, VoidThere(b) \/ Prune(b) PROVE DrawerInv'
    <3>1. \A c \in Bills : book'[c].till = book[c].till /\ book'[c].v = book[c].v
      BY <2>11 DEF VoidThere, Prune, TypeOK, MainType, BookRow
    <3>. QED  BY <2>2, <2>4, <2>11, <3>1 DEF VoidThere, Prune, DrawerInv, till, wire
  <2>12. CASE \/ SettleOwn \/ \E d \in Days : CloseDay(d) \/ ReopenDay(d)
              \/ \E id \in Ids, p \in Prefixes : RenameThere(id, p)
    BY <2>2, <2>4, <2>12
    DEF SettleOwn, CloseDay, ReopenDay, RenameThere, DrawerInv, till, wire
  <2>13. CASE UNCHANGED vars
    BY <2>2, <2>4, <2>13 DEF vars, till, wire, DrawerInv
  <2>14. ASSUME NEW b \in Bills, CloudTakes(b) PROVE DrawerInv'
    BY <2>2, <2>4, <2>14 DEF CloudTakes, DrawerInv, wire, main
  <2>. QED  BY <2>5, <2>6, <2>7, <2>8, <2>9, <2>10, <2>11, <2>12, <2>13, <2>14,
            CounterDrawer
         DEF Next, Deeds, Sending
<1>3. DrawerInv => OwnDrawer
  BY DEF DrawerInv, OwnDrawer
<1>. QED  BY <1>1, <1>2, <1>3, ForwardTypeCorrect, PTL DEF Spec

-----------------------------------------------------------------------------
(* Stock.                                                                  *)

DrawnInv ==
  /\ \A b \in Bills : book[b].stage = "settled" => book[b].v \in drawn[b]
  /\ \A b \in Bills \ pruned : InBook(b) => b \in ledger
  /\ \A b \in Bills \ pruned : ~InBook(b) => drawn[b] = {}
  /\ \A b \in Bills \ pruned : \E v \in Nat : drawn[b] \subseteq {v}

\* A bill took its ingredients from the main till's stock once, however often it
\* was sent, unless its event had been pruned in between.
THEOREM DrawnOnceOnly == Spec => []DrawnOnce
<1>1. Init => DrawnInv
  <2>. SUFFICES ASSUME Init PROVE DrawnInv
    OBVIOUS
  <2>1. \A b \in Bills : book[b].stage = "none" /\ book[b].v = 0 /\ drawn[b] = {}
    BY DEF Init
  <2>2. \A b \in Bills : drawn[b] \subseteq {0}
    BY <2>1
  <2>. QED  BY <2>1, <2>2 DEF DrawnInv, InBook
<1>2. TypeOK /\ DrawnInv /\ [Next]_vars => DrawnInv'
  <2>. SUFFICES ASSUME TypeOK, DrawnInv, [Next]_vars PROVE DrawnInv'
    OBVIOUS
  <2>1. ASSUME NEW q \in Request, Applies(q), UNCHANGED past PROVE DrawnInv'
    <3>. USE <2>1 DEF TypeOK, MainType
    <3>1. \A b \in Bills : q.orders[b].v \in Nat
      BY DEF Request, Version
    <3>2. ASSUME NEW b \in Bills \ New(q)
          PROVE  book'[b] = book[b] /\ drawn'[b] = drawn[b]
      BY DEF Applies, BookAfter, Drawn
    <3>3. ASSUME NEW b \in New(q)
          PROVE  /\ b \in Bills /\ b \in ledger' /\ b \notin ledger
                 /\ InBook(b)' /\ book'[b].v = q.orders[b].v
                 /\ book'[b].stage = q.orders[b].stage
                 /\ drawn'[b] = IF q.orders[b].stage = "settled"
                                THEN drawn[b] \cup {q.orders[b].v} ELSE drawn[b]
      BY DEF Applies, BookAfter, Drawn, New, Readable, Carries, InBook
    <3>4. ASSUME NEW b \in New(q), b \notin pruned PROVE drawn[b] = {}
      BY <3>3, <3>4 DEF DrawnInv
    <3>5. ledger \subseteq ledger' /\ pruned' = pruned
      BY DEF Applies, past
    <3>6. \A b \in Bills : book'[b].stage = "settled" => book'[b].v \in drawn'[b]
      BY <3>2, <3>3 DEF DrawnInv
    <3>7. \A b \in Bills \ pruned' : InBook(b)' => b \in ledger'
      BY <3>2, <3>3, <3>5 DEF DrawnInv, InBook
    <3>8. \A b \in Bills \ pruned' : ~InBook(b)' => drawn'[b] = {}
      BY <3>2, <3>3, <3>5 DEF DrawnInv, InBook
    <3>9. \A b \in Bills \ pruned' : \E v \in Nat : drawn'[b] \subseteq {v}
      <4>. SUFFICES ASSUME NEW b \in Bills \ pruned PROVE \E v \in Nat : drawn'[b] \subseteq {v}
        BY <3>5
      <4>1. CASE b \in New(q)
        BY <3>1, <3>3, <3>4, <4>1
      <4>2. CASE b \notin New(q)
        BY <3>2, <4>2 DEF DrawnInv
      <4>. QED  BY <4>1, <4>2
    <3>. QED  BY <3>6, <3>7, <3>8, <3>9 DEF DrawnInv
  <2>2. ASSUME NEW b \in Bills, VoidThere(b) PROVE DrawnInv'
    <3>1. /\ UNCHANGED <<ledger, pruned>>
          /\ \A c \in Bills : /\ book'[c].v = book[c].v /\ drawn'[c] \subseteq drawn[c]
                              /\ c # b => book'[c].stage = book[c].stage /\ drawn'[c] = drawn[c]
          /\ book'[b].stage = "voided"
      BY <2>2 DEF VoidThere, past, TypeOK, MainType, BookRow
    <3>. QED  BY <3>1 DEF DrawnInv, InBook
  <2>3. ASSUME NEW b \in Bills, Prune(b) PROVE DrawnInv'
    BY <2>3 DEF Prune, DrawnInv, InBook
  <2>4. ASSUME UNCHANGED <<book, ledger, drawn>>, pruned \subseteq pruned' PROVE DrawnInv'
    BY <2>4 DEF DrawnInv, InBook
  <2>5. (\E b \in Bills : Prune(b)) \/ pruned' = pruned
    BY DEF Next, Deeds, CloudTakes, Counter, Open, Settle, Cancel, Correct, Void, VoidThere, Join, RenameHere,
           RenameThere, Sending, Read, Deliver, Confirm, GiveUp, DeliverStray, CloseDay,
           ReopenDay, Restart, SettleOwn, past, vars
  <2>6. ASSUME NEW d \in Days, CloseDay(d) \/ ReopenDay(d) PROVE DrawnInv'
    BY <2>4, <2>6 DEF CloseDay, ReopenDay, past
  <2>. QED  BY <2>1, <2>2, <2>3, <2>4, <2>5, <2>6, BookWriters
<1>3. DrawnInv => DrawnOnce
  <2>. SUFFICES ASSUME DrawnInv, NEW b \in Bills \ pruned PROVE Cardinality(drawn[b]) <= 1
    BY DEF DrawnInv, DrawnOnce
  <2>1. PICK v \in Nat : drawn[b] \subseteq {v}
    BY DEF DrawnInv
  <2>2. IsFiniteSet({v}) /\ Cardinality({v}) = 1
    BY FS_Singleton
  <2>. QED  BY <2>1, <2>2, FS_Subset
<1>. QED  BY <1>1, <1>2, <1>3, ForwardTypeCorrect, PTL DEF Spec
===============================================================================
