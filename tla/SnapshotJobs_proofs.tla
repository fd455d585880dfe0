-------------------------- MODULE SnapshotJobs_proofs --------------------------
(***************************************************************************)
(* What TLAPS proves of SnapshotJobs, for every schedule of snapshots and  *)
(* every size of the thread pool.                                          *)
(***************************************************************************)
EXTENDS SnapshotJobs, FiniteSetTheorems, TLAPS

-----------------------------------------------------------------------------
(* Jobs and futures. *)

\* There is a job for the recovery, and no job is no job.
LEMMA JobNames == Recovery \in Job /\ NoJob \notin Job
BY NoJobAssumption DEF Job

\* Finitely many futures are held.
LEMMA JobFinite == IsFiniteSet(Job)
BY OffsetsAssumption, FS_Singleton, FS_Union DEF Job

LEMMA HeldFinite == IsFiniteSet(Held) /\ Cardinality(Held) \in Nat
<1>1. Held \subseteq Job  BY DEF Held
<1> QED  BY <1>1, JobFinite, FS_Subset, FS_CardinalityType

\* To settle a job of an incident's tables changes its row, and no other.
LEMMA SettleRow ==
    ASSUME NEW d \in Tables, NEW j \in Job, NEW s \in Settled
    PROVE  /\ Settle(d, j, s) \in Tables
           /\ Settle(d, j, s).phase = d.phase
           /\ Settle(d, j, s).row[j] = [status |-> s, told |-> d.row[j].told + 1]
           /\ \A k \in Job \ {j} : Settle(d, j, s).row[k] = d.row[k]
<1>1. d.row[j].told + 1 \in Nat  BY DEF Tables, Row
<1> QED  BY <1>1 DEF Settle, Tables, Row, Settled

-----------------------------------------------------------------------------
(* The initial states. *)

LEMMA NoIncidentType == NoIncident \in Tables /\ NoIncident.phase = "none" /\ \A j \in Job : NoIncident.row[j] = Absent
BY DEF NoIncident, Tables, Row, Absent

LEMMA InitIInv == Init => IInv
<1> SUFFICES ASSUME Init PROVE IInv  OBVIOUS
<1>1. TypeOK  BY NoIncidentType DEF Init, TypeOK
<1>2. Held = {}  BY DEF Init, Held
<1>3. Uncommitted /\ InHand  BY DEF Init, Uncommitted, InHand
<1>4. Scheduled  BY NoIncidentType, JobNames DEF Init, Scheduled, SettledOnce, Absent, Settled
<1>5. Manned
  BY <1>2, NoIncidentType, FS_EmptySet, WorkersAssumption DEF Init, Manned, Absent
<1>6. OnDisk /\ Forgotten
  BY NoIncidentType DEF Init, OnDisk, Forgotten, DoneIsComplete, Absent
<1> QED  BY <1>1, <1>3, <1>4, <1>5, <1>6 DEF IInv

-----------------------------------------------------------------------------
(* The main loop. *)

LEMMA OpenPreserves == IInv /\ OpenIncident => IInv'
<1> SUFFICES ASSUME TypeOK, Uncommitted, InHand, Scheduled, Manned, OnDisk, Forgotten, OpenIncident
         PROVE  IInv'
  BY DEF IInv
<1> USE JobNames DEF OpenIncident, TypeOK, tree, loop
<1>1. /\ disk'.phase = "open" /\ work' = disk'
      /\ \A j \in Job : disk'.row[j] = Absent \/ disk'.row[j] = [Absent EXCEPT !.status = "pending"]
      /\ disk'.row[Recovery] = Absent
      /\ disk' \in Tables
  BY RecoveryAssumption DEF Tables, Row, Absent
<1>2. Held = {} /\ Held' = {}
  <2>1. \A j \in Job : disk.row[j].status = "none"  BY DEF Scheduled, Absent
  <2>2. Held = {}  BY <2>1 DEF Held, Manned
  <2> QED  BY <2>2 DEF Held
<1>3. TypeOK'  BY <1>1
<1>4. Uncommitted' /\ InHand'  BY <1>1 DEF Uncommitted, InHand
<1>5. Scheduled'  BY <1>1 DEF Scheduled, SettledOnce, Absent, Settled
<1>6. Manned'  BY <1>1, <1>2 DEF Manned, Absent
<1>7. OnDisk' /\ Forgotten'  BY <1>1 DEF OnDisk, DoneIsComplete, Forgotten, Absent
<1> QED  BY <1>3, <1>4, <1>5, <1>6, <1>7 DEF IInv

LEMMA ClosePreserves == IInv /\ CloseIncident => IInv'
<1> SUFFICES ASSUME TypeOK, Uncommitted, InHand, Scheduled, Manned, OnDisk, Forgotten, CloseIncident
         PROVE  IInv'
  BY DEF IInv
<1> USE JobNames DEF CloseIncident, TypeOK, tree, loop
<1>1. /\ disk'.phase = "recovered" /\ work' = disk' /\ disk' \in Tables
      /\ disk'.row[Recovery] = [status |-> "pending", told |-> 0]
      /\ \A j \in Job \ {Recovery} : disk'.row[j] = disk.row[j]
      /\ disk.row[Recovery] = [status |-> "none", told |-> 0]
  <2>1. disk.row[Recovery] = [status |-> "none", told |-> 0]  BY DEF Scheduled, Absent
  <2>2. /\ disk'.phase = "recovered" /\ work' = disk'
        /\ disk'.row = [disk.row EXCEPT ![Recovery].status = "pending"]
    BY DEF Tables
  <2>3. disk'.row \in [Job -> Row]
    <3>1. disk.row[Recovery] \in Row  BY DEF Tables
    <3>2. [disk.row[Recovery] EXCEPT !.status = "pending"] \in Row  BY <3>1 DEF Row
    <3> QED  BY <2>2, <3>2 DEF Tables
  <2>4. disk' \in Tables  BY <2>2, <2>3 DEF Tables
  <2>5. disk'.row[Recovery] = [status |-> "pending", told |-> 0]
    BY <2>1, <2>2 DEF Tables, Row
  <2>6. \A j \in Job \ {Recovery} : disk'.row[j] = disk.row[j]  BY <2>2 DEF Tables
  <2> QED  BY <2>1, <2>2, <2>4, <2>5, <2>6
<1>2. Held' = Held /\ Recovery \notin Held  BY <1>1 DEF Held, Manned
<1>3. TypeOK'  BY <1>1
<1>4. Uncommitted' /\ InHand'  BY <1>1 DEF Uncommitted, InHand
<1>5. Scheduled'  BY <1>1 DEF Scheduled, SettledOnce, Settled
<1>6. Manned'
  <2>1. \A j \in Held : disk'.row[j].status = "running"  BY <1>1, <1>2 DEF Manned, Held
  <2>2. \A j \in Job : disk'.row[j].status = "running" => j \in Held
    BY <1>1 DEF Manned, Alive, InHand
  <2> QED  BY <1>2, <2>1, <2>2 DEF Manned, Alive
<1>7. OnDisk' /\ Forgotten'  BY <1>1 DEF OnDisk, DoneIsComplete, Forgotten
<1> QED  BY <1>3, <1>4, <1>5, <1>6, <1>7 DEF IInv

\* Steps of the loop that change neither tables nor futures.
LEMMA LookingPreserves == IInv /\ (BeginJobs \/ StillRunning) => IInv'
<1> SUFFICES ASSUME TypeOK, Uncommitted, InHand, Scheduled, Manned, OnDisk, Forgotten, BeginJobs \/ StillRunning
         PROVE  IInv'
  BY DEF IInv
<1> USE DEF BeginJobs, StillRunning, TypeOK, tree, time
<1>1. Held' = Held /\ Held \subseteq Job  BY DEF Held
<1>2. TypeOK'  BY <1>1
<1>3. Uncommitted' /\ InHand'  BY <1>1 DEF Uncommitted, InHand
<1>4. Scheduled' /\ OnDisk' /\ Forgotten'
  BY DEF Scheduled, SettledOnce, OnDisk, DoneIsComplete, Forgotten
<1>5. Manned'  BY <1>1 DEF Manned, Alive
<1> QED  BY <1>2, <1>3, <1>4, <1>5 DEF IInv

\* A future that has ended is recorded in the transaction, rightly or not.
LEMMA CollectPreserves == IInv /\ (Collect \/ Misread) => IInv'
<1> SUFFICES ASSUME TypeOK, Uncommitted, InHand, Scheduled, Manned, OnDisk, Forgotten, Collect \/ Misread
         PROVE  IInv'
  BY DEF IInv
<1> USE DEF TypeOK, tree, time
<1>1. PICK j \in left \ Working, s \in {"done", "failed"} :
        /\ work' = Settle(work, j, s) /\ cur' = j
        /\ s = "done" => future[j] = "ok"
  BY DEF Collect, Misread, Working
<1>2. /\ pc = "collect" /\ pc' = "ack"
      /\ UNCHANGED <<disk, future, dest, kept, left, batch, clock, closedAt, retention>>
  BY DEF Collect, Misread
<1>3. j \in Job /\ work = disk /\ s \in Settled  BY <1>1, <1>2 DEF Uncommitted, Settled
<1>4. Held' = Held /\ Working' = Working  BY <1>2 DEF Held, Working
<1>5. TypeOK'  BY <1>1, <1>2, <1>3, SettleRow
<1>6. Uncommitted'  BY <1>1, <1>2, <1>3 DEF Uncommitted, Settle
<1>7. InHand'  BY <1>1, <1>2, <1>4 DEF InHand
<1>8. Scheduled' /\ OnDisk' /\ Forgotten'
  BY <1>2 DEF Scheduled, SettledOnce, OnDisk, DoneIsComplete, Forgotten
<1>9. Manned'  BY <1>1, <1>2, <1>4, JobNames DEF Manned, Alive, InHand
<1> QED  BY <1>5, <1>6, <1>7, <1>8, <1>9 DEF IInv

LEMMA AcknowledgePreserves == IInv /\ Acknowledge => IInv'
<1> SUFFICES ASSUME TypeOK, Uncommitted, InHand, Scheduled, Manned, OnDisk, Forgotten, Acknowledge
         PROVE  IInv'
  BY DEF IInv
<1> USE DEF Acknowledge, TypeOK, tree, time
<1>1. PICK s \in {"done", "failed"} :
        work = Settle(disk, cur, s) /\ (s = "done" => future[cur] = "ok")
  BY DEF Uncommitted
<1>2. cur \in Job /\ cur \in Held /\ s \in Settled  BY DEF InHand, Settled
<1>3. /\ disk' \in Tables /\ disk'.phase = disk.phase
      /\ disk'.row[cur] = [status |-> s, told |-> disk.row[cur].told + 1]
      /\ \A j \in Job \ {cur} : disk'.row[j] = disk.row[j]
      /\ disk.row[cur].status = "running"
  BY <1>1, <1>2, SettleRow DEF Manned
<1>4. Held' = Held \ {cur}  BY <1>2 DEF Held
<1>5. TypeOK'  BY <1>2, <1>3
<1>6. Uncommitted'  BY DEF Uncommitted
<1>7. InHand'  BY <1>4 DEF InHand
<1>8. Scheduled'
  <2>1. disk.phase # "none" /\ (disk.phase = "open" => cur # Recovery)
    BY <1>2, <1>3 DEF Scheduled, Absent
  <2>2. \A j \in Job : disk'.row[j].told = IF disk'.row[j].status \in Settled THEN 1 ELSE 0
    <3>1. disk.row[cur].told = 0  BY <1>2, <1>3 DEF Scheduled, SettledOnce, Settled
    <3>2. disk'.row[cur].told = 1 /\ disk'.row[cur].status \in Settled
      BY <1>2, <1>3, <3>1
    <3> QED  BY <1>3, <3>2 DEF Scheduled, SettledOnce
  <2> QED  BY <1>3, <2>1, <2>2, JobNames DEF Scheduled, SettledOnce
<1>9. Manned'
  <2>1. Cardinality(Held') <= Cardinality(Held) /\ Cardinality(Held') \in Nat
    BY <1>4, HeldFinite, FS_Subset, FS_CardinalityType
  <2>2. \A j \in Held' : disk'.row[j].status = "running"  BY <1>3, <1>4 DEF Manned, Held
  <2>3. \A j \in Job : disk'.row[j].status = "running" => j \in Held'
    <3>1. disk'.row[cur].status # "running"  BY <1>2, <1>3 DEF Settled
    <3>2. \A j \in Job \ {cur} : disk.row[j].status = "running" => j \in Held
      BY DEF Manned, Alive
    <3> QED  BY <1>3, <1>4, <3>1, <3>2
  <2> QED  BY <2>1, <2>2, <2>3, HeldFinite, WorkersAssumption DEF Manned, Alive
<1>10. OnDisk'
  <2>1. s = "done" => dest[cur] = "complete"  BY <1>1, <1>2 DEF OnDisk
  <2>2. \A j \in Job : disk'.row[j].status = "done" => dest[j] \in {"complete", "removed"}
    <3>1. disk'.row[cur].status = "done" => dest[cur] = "complete"  BY <1>3, <2>1
    <3> QED  BY <1>3, <3>1 DEF OnDisk, DoneIsComplete
  <2> QED  BY <1>2, <2>2 DEF OnDisk, DoneIsComplete
<1>11. Forgotten'  BY <1>2, <1>3 DEF Forgotten
<1> QED  BY <1>5, <1>6, <1>7, <1>8, <1>9, <1>10, <1>11 DEF IInv


LEMMA SelectPreserves == IInv /\ Select => IInv'
<1> SUFFICES ASSUME TypeOK, Uncommitted, InHand, Scheduled, Manned, OnDisk, Forgotten, Select
         PROVE  IInv'
  BY DEF IInv
<1> USE DEF Select, time, tree
<1>1. Held' = Held /\ cur = NoJob /\ work = disk  BY DEF Held, InHand, Uncommitted
<1>2. Available \in Nat  BY HeldFinite, WorkersAssumption DEF Available, Manned, InHand, TypeOK
<1>3. PICK n \in Nat :
        /\ n <= Available
        /\ batch' \in [1..n -> DueRows]
        /\ \A a, b \in 1..n : a < b => batch'[a] # batch'[b]
  <2>1. IsFiniteSet(DueRows)  BY JobFinite, FS_Subset DEF DueRows
  <2>2. Cardinality(DueRows) \in Nat  BY <2>1, FS_CardinalityType
  <2> QED  BY <1>2, <2>2 DEF Selections
<1>4. batch' \in Seq(DueRows) /\ Len(batch') = n  BY <1>3
<1>5. DueRows \subseteq Job  BY DEF DueRows
<1>6. TypeOK'  BY <1>4, <1>5 DEF TypeOK
<1>7. Uncommitted'  BY <1>1 DEF Uncommitted
<1>8. InHand'
  <2>1. \A a \in 1..Len(batch') : work.row[batch'[a]].status = "pending"
    BY <1>3, <1>4 DEF DueRows
  <2>2. \A a, b \in 1..Len(batch') : a # b => batch'[a] # batch'[b]
    BY <1>3, <1>4
  <2> QED  BY <1>1, <2>1, <2>2 DEF InHand
<1>9. Scheduled' /\ OnDisk' /\ Forgotten'
  BY DEF Scheduled, SettledOnce, OnDisk, DoneIsComplete, Forgotten
<1>10. Manned'
  BY <1>1, <1>2, <1>3, <1>4, HeldFinite, WorkersAssumption DEF Manned, Alive, Available
<1> QED  BY <1>6, <1>7, <1>8, <1>9, <1>10 DEF IInv

\* What is left of a batch after its first row is still pending, and of different jobs.
LEMMA TailOfBatch ==
    ASSUME NEW q \in Seq(Job), q # << >>
    PROVE  /\ Head(q) \in Job /\ Tail(q) \in Seq(Job) /\ Len(Tail(q)) = Len(q) - 1
           /\ Head(q) = q[1] /\ 1 \in 1..Len(q)
           /\ \A a \in 1..Len(Tail(q)) : Tail(q)[a] = q[a + 1] /\ a + 1 \in 1..Len(q) /\ a + 1 # 1
OBVIOUS

LEMMA SkipPreserves == IInv /\ Skip => IInv'
<1> SUFFICES ASSUME TypeOK, Uncommitted, InHand, Scheduled, Manned, OnDisk, Forgotten, Skip
         PROVE  IInv'
  BY DEF IInv
<1> USE DEF Skip, time, tree
<1> DEFINE j == Head(batch)
<1>1. batch \in Seq(Job) /\ batch # << >>  BY DEF TypeOK
<1>2. /\ j \in Job /\ batch' \in Seq(Job) /\ Len(batch') = Len(batch) - 1
      /\ \A a \in 1..Len(batch') : \E b \in 1..Len(batch) : b = a + 1 /\ b # 1 /\ batch'[a] = batch[b]
      /\ j = batch[1] /\ 1 \in 1..Len(batch)
  BY <1>1, TailOfBatch
<1>3. work.row[j].status = "pending"  BY <1>2 DEF InHand
<1>4. disk.row[j] = work.row[j]
  <2>1. work.row[j] # [status |-> "skipped", told |-> disk.row[j].told + 1]  BY <1>3
  <2> QED  BY <1>2, <2>1 DEF Uncommitted
<1>5. /\ work' \in Tables /\ work'.phase = work.phase
      /\ work'.row[j] = [status |-> "skipped", told |-> work.row[j].told + 1]
      /\ \A k \in Job \ {j} : work'.row[k] = work.row[k]
  BY <1>2, SettleRow DEF TypeOK, Settled
<1>6. Held' = Held  BY DEF Held
<1>7. TypeOK'  BY <1>2, <1>5 DEF TypeOK
<1>8. Uncommitted'
  <2>1. \A k \in Job : \/ work'.row[k] = disk.row[k]
                       \/ /\ disk.row[k].status = "pending"
                          /\ work'.row[k] = [status |-> "skipped", told |-> disk.row[k].told + 1]
    BY <1>2, <1>3, <1>4, <1>5 DEF Uncommitted
  <2> QED  BY <1>5, <2>1 DEF Uncommitted
<1>9. InHand'
  <2>1. \A a \in 1..Len(batch') : batch'[a] \in Job \ {j} /\ work.row[batch'[a]].status = "pending"
    BY <1>2 DEF InHand
  <2>2. \A a, b \in 1..Len(batch') : a # b => batch'[a] # batch'[b]
    BY <1>2 DEF InHand
  <2> QED  BY <1>5, <1>6, <2>1, <2>2 DEF InHand
<1>10. Scheduled' /\ OnDisk' /\ Forgotten'
  BY DEF Scheduled, SettledOnce, OnDisk, DoneIsComplete, Forgotten
<1>11. Manned'  BY <1>1, <1>2, <1>6, HeldFinite, WorkersAssumption DEF Manned, Alive
<1> QED  BY <1>7, <1>8, <1>9, <1>10, <1>11 DEF IInv


\* A row that the connection sees as it is committed, or as skipped, is typed,
\* told of once if it is settled, and running or done in both or in neither.
LEMMA DispatchRows ==
    ASSUME TypeOK, Uncommitted, Scheduled, pc = "dispatch"
    PROVE  /\ work.phase = disk.phase
           /\ \A j \in Job :
                /\ work.row[j].status \in {"running", "done", "pending"} => work.row[j] = disk.row[j]
                /\ disk.row[j].status # "pending" => work.row[j] = disk.row[j]
                /\ work.row[j].told = IF work.row[j].status \in Settled THEN 1 ELSE 0
                /\ disk.row[j] = Absent => work.row[j] = Absent
<1>1. work.phase = disk.phase  BY DEF Uncommitted
<1> SUFFICES ASSUME NEW j \in Job
             PROVE  /\ work.row[j].status \in {"running", "done", "pending"} => work.row[j] = disk.row[j]
                    /\ disk.row[j].status # "pending" => work.row[j] = disk.row[j]
                    /\ work.row[j].told = IF work.row[j].status \in Settled THEN 1 ELSE 0
                    /\ disk.row[j] = Absent => work.row[j] = Absent
  BY <1>1
<1>2. disk.row[j].told = IF disk.row[j].status \in Settled THEN 1 ELSE 0
  BY DEF Scheduled, SettledOnce
<1>3. CASE work.row[j] = disk.row[j]  BY <1>2, <1>3
<1>4. CASE /\ disk.row[j].status = "pending"
           /\ work.row[j] = [status |-> "skipped", told |-> disk.row[j].told + 1]
  <2>1. disk.row[j].told = 0  BY <1>2, <1>4 DEF Settled
  <2>2. work.row[j].status = "skipped" /\ work.row[j].told = 1  BY <1>4, <2>1
  <2>3. disk.row[j] # Absent  BY <1>4 DEF Absent
  <2> QED  BY <1>4, <2>2, <2>3 DEF Settled
<1> QED  BY <1>3, <1>4 DEF Uncommitted

LEMMA DispatchPreserves == IInv /\ Dispatch => IInv'
<1> SUFFICES ASSUME TypeOK, Uncommitted, InHand, Scheduled, Manned, OnDisk, Forgotten, Dispatch
         PROVE  IInv'
  BY DEF IInv
<1> USE DEF Dispatch, time, tree
<1> DEFINE j == Head(batch)
<1>1. batch \in Seq(Job) /\ batch # << >>  BY DEF TypeOK
<1>2. /\ j \in Job /\ batch' \in Seq(Job) /\ Len(batch') = Len(batch) - 1
      /\ \A a \in 1..Len(batch') : \E b \in 1..Len(batch) : b = a + 1 /\ b # 1 /\ batch'[a] = batch[b]
      /\ j = batch[1] /\ 1 \in 1..Len(batch)
  BY <1>1, TailOfBatch
<1>3. work.row[j].status = "pending"  BY <1>2 DEF InHand
<1>4. disk.row[j].status = "pending"  BY <1>2, <1>3, DispatchRows
<1>5. /\ work' \in Tables /\ work'.phase = disk.phase /\ disk' = work'
      /\ work'.row[j] = [status |-> "running", told |-> work.row[j].told]
      /\ \A k \in Job \ {j} : work'.row[k] = work.row[k]
  <2>1. work.row \in [Job -> Row] /\ work.row[j] \in Row  BY <1>2 DEF TypeOK, Tables
  <2>2. [work.row[j] EXCEPT !.status = "running"] \in Row
        /\ [work.row[j] EXCEPT !.status = "running"] = [status |-> "running", told |-> work.row[j].told]
    BY <2>1 DEF Row
  <2>3. work'.row = [work.row EXCEPT ![j].status = "running"] /\ work'.phase = work.phase /\ disk' = work'
    BY DEF TypeOK, Tables
  <2>4. work'.row[j] = [work.row[j] EXCEPT !.status = "running"] /\ work'.row \in [Job -> Row]
        /\ \A k \in Job \ {j} : work'.row[k] = work.row[k]
    BY <1>2, <2>1, <2>2, <2>3
  <2>5. work' \in Tables  BY <2>4 DEF TypeOK, Tables
  <2> QED  BY <2>2, <2>3, <2>4, <2>5, DispatchRows
<1>6. Held' = Held /\ j \notin Held  BY <1>2, <1>4 DEF Held, Manned
<1>7. TypeOK'  BY <1>2, <1>5 DEF TypeOK
<1>8. Uncommitted'  BY <1>5 DEF Uncommitted
<1>9. InHand'
  <2>1. \A a \in 1..Len(batch') : batch'[a] \in Job \ {j} /\ work.row[batch'[a]].status = "pending"
    BY <1>2 DEF InHand
  <2>2. \A a, b \in 1..Len(batch') : a # b => batch'[a] # batch'[b]
    BY <1>2 DEF InHand
  <2> QED  BY <1>2, <1>5, <1>6, <2>1, <2>2 DEF InHand
<1>10. Scheduled'
  <2>1. disk.phase # "none" /\ (disk.phase = "open" => j # Recovery)
    BY <1>2, <1>4 DEF Scheduled, Absent
  <2>2. work.row[j].told = 0  BY <1>2, <1>3, DispatchRows DEF Settled
  <2>3. \A k \in Job : disk'.row[k].told = IF disk'.row[k].status \in Settled THEN 1 ELSE 0
    BY <1>5, <2>2, DispatchRows DEF Settled
  <2>4. disk.phase = "open" => disk'.row[Recovery] = Absent
    BY <1>5, <2>1, DispatchRows, JobNames DEF Scheduled
  <2> QED  BY <1>5, <2>1, <2>3, <2>4 DEF Scheduled, SettledOnce
<1>11. Manned'
  <2>1. \A k \in Held : disk'.row[k].status = "running"
    BY <1>5, <1>6, DispatchRows DEF Manned, Held
  <2>2. \A k \in Job \ {j} : disk'.row[k].status = "running" => k \in Held
    BY <1>5, DispatchRows, JobNames DEF Manned, Alive, InHand
  <2> QED  BY <1>1, <1>2, <1>6, <2>1, <2>2, HeldFinite, WorkersAssumption DEF Manned, Alive
<1>12. OnDisk'
  <2>1. \A k \in Job : disk'.row[k].status = "done" => disk.row[k].status = "done"
    BY <1>5, DispatchRows
  <2> QED  BY <2>1 DEF OnDisk, DoneIsComplete
<1>13. Forgotten'  BY <1>2, <1>4 DEF Forgotten
<1> QED  BY <1>7, <1>8, <1>9, <1>10, <1>11, <1>12, <1>13 DEF IInv

LEMMA SubmitPreserves == IInv /\ Submit => IInv'
<1> SUFFICES ASSUME TypeOK, Uncommitted, InHand, Scheduled, Manned, OnDisk, Forgotten, Submit
         PROVE  IInv'
  BY DEF IInv
<1> USE DEF Submit, time, tree
<1>1. cur \in Job \ Held /\ disk.row[cur].status = "running"  BY DEF InHand
<1>2. Held' = Held \cup {cur}  BY <1>1 DEF Held, TypeOK
<1>3. Cardinality(Held') = Cardinality(Held) + 1
  BY <1>1, <1>2, HeldFinite, FS_AddElement
<1>4. TypeOK'  BY DEF TypeOK
<1>5. Uncommitted'  BY DEF Uncommitted
<1>6. InHand'  BY DEF InHand
<1>7. Scheduled' /\ Forgotten'  BY DEF Scheduled, SettledOnce, Forgotten
<1>8. Manned'
  <2>1. Len(batch) \in Nat  BY DEF TypeOK
  <2> QED  BY <1>1, <1>2, <1>3, <2>1, HeldFinite, WorkersAssumption DEF Manned, Alive
<1>9. OnDisk'  BY <1>1 DEF OnDisk, DoneIsComplete, TypeOK
<1> QED  BY <1>4, <1>5, <1>6, <1>7, <1>8, <1>9 DEF IInv

LEMMA EndJobsPreserves == IInv /\ EndJobs => IInv'
<1> SUFFICES ASSUME TypeOK, Uncommitted, InHand, Scheduled, Manned, OnDisk, Forgotten, EndJobs
         PROVE  IInv'
  BY DEF IInv
<1> USE DEF EndJobs, time, tree
<1>1. Held' = Held  BY DEF Held
<1>2. TypeOK'  BY DEF TypeOK
<1>3. Uncommitted' /\ InHand'  BY DEF Uncommitted, InHand
<1>4. Scheduled'
  <2>1. \A j \in Job : disk.row[j] = Absent => disk'.row[j] = Absent  BY DispatchRows
  <2>2. \A j \in Job : disk'.row[j].told = IF disk'.row[j].status \in Settled THEN 1 ELSE 0
    BY DispatchRows
  <2> QED  BY <2>1, <2>2, DispatchRows, JobNames DEF Scheduled, SettledOnce
<1>5. Manned'
  <2>1. \A j \in Held : disk'.row[j].status = "running"  BY DispatchRows DEF Manned, Held
  <2>2. \A j \in Job : disk'.row[j].status = "running" => j \in Held
    BY DispatchRows, JobNames DEF Manned, Alive, InHand
  <2> QED  BY <1>1, <2>1, <2>2 DEF Manned, Alive
<1>6. OnDisk'
  <2>1. \A j \in Job : disk'.row[j].status = "done" => disk.row[j].status = "done"
    BY DispatchRows
  <2> QED  BY <2>1 DEF OnDisk, DoneIsComplete
<1>7. Forgotten'
  <2>1. \A j \in Job : disk'.row[j].status \in {"pending", "running"} => disk'.row[j] = disk.row[j]
    BY DispatchRows
  <2> QED  BY <2>1, DispatchRows DEF Forgotten
<1> QED  BY <1>2, <1>3, <1>4, <1>5, <1>6, <1>7 DEF IInv


-----------------------------------------------------------------------------
(* The workers. *)

\* A worker is at work on a running row, so that no retention is.
LEMMA WorkerPreserves == ASSUME NEW j \in Job PROVE IInv /\ WorkerStep(j) => IInv'
<1> SUFFICES ASSUME TypeOK, Uncommitted, InHand, Scheduled, Manned, OnDisk, Forgotten, WorkerStep(j)
         PROVE  IInv'
  BY DEF IInv
<1>1. /\ UNCHANGED <<disk, work, pc, cur, left, batch, clock, closedAt, retention>>
      /\ j \in Working
      /\ \E r \in {"submitted", "capturing", "ok", "error"} : future' = [future EXCEPT ![j] = r]
      /\ \E d \in {"none", "partial", "complete", "removed"} : dest' = [dest EXCEPT ![j] = d]
      /\ kept' \in [Job -> Nat]
      /\ future'[j] = "ok" => dest'[j] = "complete"
      /\ future'[j] = "capturing" => dest'[j] = "partial"
  <2> USE DEF TypeOK, main, loop, time, tree, Working
  <2>1. CASE AlreadyComplete(j)  BY <2>1 DEF AlreadyComplete
  <2>2. CASE KeepInterrupted(j)
    <3>1. kept[j] + 1 \in Nat  OBVIOUS
    <3> QED  BY <2>2, <3>1 DEF KeepInterrupted
  <2>3. CASE MakeDirectory(j)  BY <2>3 DEF MakeDirectory
  <2>4. CASE Complete(j)  BY <2>4 DEF Complete
  <2>5. CASE CaptureFails(j)  BY <2>5 DEF CaptureFails
  <2> QED  BY <2>1, <2>2, <2>3, <2>4, <2>5 DEF WorkerStep
<1>2. /\ j \in Held /\ disk.row[j].status = "running"
      /\ future[j] \notin {"ok", "error"}
  BY <1>1 DEF Working, Held, Manned
<1>3. /\ \A k \in Job \ {j} : future'[k] = future[k] /\ dest'[k] = dest[k]
      /\ future'[j] \in {"submitted", "capturing", "ok", "error"}
  BY <1>1 DEF TypeOK
<1>4. Held' = Held  BY <1>2, <1>3 DEF Held
<1>5. TypeOK'  BY <1>1 DEF TypeOK
<1>6. pc = "ack" => cur \in Job \ {j} /\ future'[cur] = future[cur] /\ cur \notin Working'
  BY <1>1, <1>3 DEF InHand, Working, TypeOK
<1>7. Uncommitted'
  <2>1. pc = "ack" => \E status \in {"done", "failed"} :
          work = Settle(disk, cur, status) /\ (status = "done" => future'[cur] = "ok")
    BY <1>6 DEF Uncommitted
  <2> QED  BY <1>1, <2>1 DEF Uncommitted, Settle
<1>8. InHand'  BY <1>1, <1>4, <1>6 DEF InHand
<1>9. Scheduled'  BY <1>1 DEF Scheduled, SettledOnce
<1>10. Manned'  BY <1>1, <1>4 DEF Manned, Alive
<1>11. OnDisk'  BY <1>1, <1>2, <1>3 DEF OnDisk, DoneIsComplete
<1>12. Forgotten'  BY <1>1, <1>2 DEF Forgotten
<1> QED  BY <1>5, <1>7, <1>8, <1>9, <1>10, <1>11, <1>12 DEF IInv

-----------------------------------------------------------------------------
(* Retention. *)

LEMMA ChecksPreserves == IInv /\ RetentionChecks => IInv'
<1> SUFFICES ASSUME TypeOK, Uncommitted, InHand, Scheduled, Manned, OnDisk, Forgotten, RetentionChecks
         PROVE  IInv'
  BY DEF IInv
<1> USE DEF RetentionChecks, engine, loop, time, tree
<1>1. Held' = Held /\ Working' = Working  BY DEF Held, Working
<1>2. TypeOK' /\ Forgotten'  BY DEF TypeOK, Forgotten
<1>3. Uncommitted'  BY DEF Uncommitted, Settle
<1>4. InHand'  BY <1>1 DEF InHand
<1>5. Scheduled' /\ OnDisk'  BY DEF Scheduled, SettledOnce, OnDisk, DoneIsComplete
<1>6. Manned'  BY <1>1 DEF Manned, Alive
<1> QED  BY <1>2, <1>3, <1>4, <1>5, <1>6 DEF IInv

\* Under retention nothing is held, and nothing is in hand but a row to skip.
LEMMA NothingHeld ==
    ASSUME Manned, Forgotten, InHand, retention # "off"
    PROVE  Held = {} /\ pc \notin {"ack", "submit"} /\ cur = NoJob
<1>1. Held = {}  BY DEF Held, Manned, Forgotten
<1> QED  BY <1>1 DEF InHand, Forgotten, Held

LEMMA EmptiesPreserves == IInv /\ RetentionEmpties => IInv'
<1> SUFFICES ASSUME TypeOK, Uncommitted, InHand, Scheduled, Manned, OnDisk, Forgotten, RetentionEmpties
         PROVE  IInv'
  BY DEF IInv
<1> USE DEF RetentionEmpties, engine, loop, time
<1>1. Held' = Held /\ Held = {} /\ Working' = Working
  BY NothingHeld DEF Held, Working
<1>2. TypeOK' /\ Forgotten'  BY DEF TypeOK, Forgotten
<1>3. Uncommitted'  BY DEF Uncommitted, Settle
<1>4. InHand'  BY <1>1 DEF InHand
<1>5. Scheduled'  BY DEF Scheduled, SettledOnce
<1>6. OnDisk'  BY <1>1 DEF OnDisk, DoneIsComplete, Held
<1>7. Manned'  BY <1>1 DEF Manned, Alive
<1> QED  BY <1>2, <1>3, <1>4, <1>5, <1>6, <1>7 DEF IInv

LEMMA ForgetsPreserves == IInv /\ RetentionForgets => IInv'
<1> SUFFICES ASSUME TypeOK, Uncommitted, InHand, Scheduled, Manned, OnDisk, Forgotten, RetentionForgets
         PROVE  IInv'
  BY DEF IInv
<1> USE NoIncidentType DEF RetentionForgets, loop, time
<1>1. Held' = Held /\ Held = {} /\ pc \notin {"ack", "submit"} /\ cur = NoJob
  BY NothingHeld DEF Held
<1>2. TypeOK'  BY DEF TypeOK
<1>3. Uncommitted'  BY <1>1 DEF Uncommitted
<1>4. batch = << >>
  <2>1. \A a \in 1..Len(batch) : FALSE
    BY DEF InHand, TypeOK, Forgotten
  <2>2. batch \in Seq(Job) /\ Len(batch) \in Nat  BY DEF TypeOK
  <2> QED  BY <2>1, <2>2
<1>5. InHand'  BY <1>1, <1>4 DEF InHand
<1>6. Scheduled' /\ Forgotten'  BY DEF Scheduled, SettledOnce, Settled, Absent, Forgotten
<1>7. OnDisk'  BY <1>1 DEF OnDisk, DoneIsComplete, Held, Absent
<1>8. Manned'  BY <1>1 DEF Manned, Alive, Absent
<1> QED  BY <1>2, <1>3, <1>5, <1>6, <1>7, <1>8 DEF IInv

-----------------------------------------------------------------------------
(* Failures and restarts. *)

LEMMA FailurePreserves == IInv /\ (WriteFails \/ LeaveRun) => IInv'
<1> SUFFICES ASSUME TypeOK, Uncommitted, InHand, Scheduled, Manned, OnDisk, Forgotten,
                WriteFails \/ LeaveRun
         PROVE  IInv'
  BY DEF IInv
<1> USE DEF WriteFails, LeaveRun, time, tree
<1>1. /\ work' = disk /\ disk' = disk /\ pc' \in {"idle", "stopping"} /\ cur' = NoJob /\ batch' = << >>
      /\ UNCHANGED <<future, dest, kept, clock, closedAt, retention>>
      /\ left' \subseteq left
  BY DEF Uncommitted
<1>2. Held' = Held /\ cur' = NoJob  BY <1>1 DEF Held
<1>3. TypeOK'  BY <1>1 DEF TypeOK
<1>4. Uncommitted' /\ InHand'  BY <1>1 DEF Uncommitted, InHand
<1>5. Scheduled' /\ OnDisk' /\ Forgotten'
  BY <1>1 DEF Scheduled, SettledOnce, OnDisk, DoneIsComplete, Forgotten
<1>6. Manned'
  <2>1. pc' = "idle" => \A k \in Job : disk.row[k].status = "running" => k \in Held
    BY JobNames DEF Manned, Alive, InHand
  <2>2. Len(batch) \in Nat /\ Len(batch') = 0  BY <1>1 DEF TypeOK
  <2> QED  BY <1>1, <1>2, <2>1, <2>2, HeldFinite, WorkersAssumption DEF Manned, Alive
<1> QED  BY <1>3, <1>4, <1>5, <1>6 DEF IInv

LEMMA EndPreserves == IInv /\ (Stopped \/ Crash) => IInv'
<1> SUFFICES ASSUME TypeOK, Uncommitted, InHand, Scheduled, Manned, OnDisk, Forgotten,
                Stopped \/ Crash
         PROVE  IInv'
  BY DEF IInv
<1> USE DEF Stopped, Crash, ProcessEnds, time, tree
<1>1. /\ work' = disk /\ disk' = disk /\ pc' = "down" /\ cur' = NoJob /\ batch' = << >> /\ left' = {}
      /\ future' = [j \in Job |-> "none"] /\ retention' \in {"off", retention}
      /\ UNCHANGED <<dest, kept, clock, closedAt>>
  BY DEF Uncommitted
<1>2. Held' = {} /\ Cardinality(Held') = 0  BY <1>1, FS_EmptySet DEF Held
<1>3. TypeOK'  BY <1>1 DEF TypeOK
<1>4. Uncommitted' /\ InHand'  BY <1>1 DEF Uncommitted, InHand
<1>5. Scheduled' /\ OnDisk' /\ Forgotten'
  BY <1>1 DEF Scheduled, SettledOnce, OnDisk, DoneIsComplete, Forgotten
<1>6. Manned'  BY <1>1, <1>2, WorkersAssumption DEF Manned, Alive
<1> QED  BY <1>3, <1>4, <1>5, <1>6 DEF IInv

\* At a start every interrupted row is pending again.
LEMMA StartPreserves == IInv /\ Start => IInv'
<1> SUFFICES ASSUME TypeOK, Uncommitted, InHand, Scheduled, Manned, OnDisk, Forgotten, Start
         PROVE  IInv'
  BY DEF IInv
<1> USE DEF Start, time, tree
<1>1. disk \in Tables /\ \A j \in Job : disk.row[j] \in Row  BY DEF TypeOK, Tables
<1>2. /\ disk' = work' /\ disk'.phase = disk.phase /\ disk' \in Tables
      /\ \A j \in Job : /\ disk'.row[j].told = disk.row[j].told
                        /\ disk'.row[j].status = IF disk.row[j].status = "running" THEN "pending"
                                                 ELSE disk.row[j].status
                        /\ disk.row[j].status # "running" => disk'.row[j] = disk.row[j]
  <2>1. \A j \in Job : LET r == [disk.row[j] EXCEPT !.status = "pending"] IN
          r \in Row /\ r.status = "pending" /\ r.told = disk.row[j].told
    BY <1>1 DEF Row
  <2> QED  BY <1>1, <2>1 DEF Requeued, Tables
<1>3. \A j \in Job : /\ disk'.row[j].status # "running"
                     /\ \A s \in Settled : disk'.row[j].status = s <=> disk.row[j].status = s
  BY <1>2 DEF Settled
<1>4. Held' = {} /\ Held = {} /\ dest' = dest /\ future' = future /\ pc' = "idle"
  BY DEF Held, Manned
<1>5. TypeOK'  BY <1>2 DEF TypeOK
<1>6. Uncommitted' /\ InHand'  BY <1>2 DEF Uncommitted, InHand
<1>7. Scheduled'
  <2>1. \A j \in Job : disk'.row[j].status \in Settled <=> disk.row[j].status \in Settled
    BY <1>3
  <2>2. \A j \in Job : disk'.row[j].told = IF disk'.row[j].status \in Settled THEN 1 ELSE 0
    <3> TAKE j \in Job
    <3>1. disk.row[j].told = IF disk.row[j].status \in Settled THEN 1 ELSE 0
      BY DEF Scheduled, SettledOnce
    <3> QED  BY <3>1, <2>1, <1>2
  <2>3. \A j \in Job : disk.row[j] = Absent => disk'.row[j] = Absent  BY <1>2 DEF Absent
  <2> QED  BY <1>2, <2>2, <2>3, JobNames DEF Scheduled, SettledOnce
<1>8. OnDisk'
  <2>1. \A j \in Job : disk'.row[j].status = "done" => disk.row[j].status = "done"
    BY <1>2
  <2> QED  BY <1>4, <2>1 DEF OnDisk, DoneIsComplete
<1>9. Forgotten'
  <2>1. retention' = retention  OBVIOUS
  <2> QED  BY <1>2, <1>4, <2>1 DEF Forgotten
<1>10. Manned'
  <2>1. Len(batch) \in Nat /\ batch' = batch  BY DEF TypeOK
  <2>2. \A j \in Job : disk'.row[j].status # "running"  BY <1>3
  <2> QED  BY <1>4, <2>1, <2>2 DEF Manned, Alive
<1> QED  BY <1>5, <1>6, <1>7, <1>8, <1>9, <1>10 DEF IInv

LEMMA TickPreserves == IInv /\ (Tick \/ UNCHANGED vars) => IInv'
<1> SUFFICES ASSUME TypeOK, Uncommitted, InHand, Scheduled, Manned, OnDisk, Forgotten,
                Tick \/ UNCHANGED vars
         PROVE  IInv'
  BY DEF IInv
<1> USE DEF Tick, vars, tree, loop
<1>1. Held' = Held /\ Working' = Working  BY DEF Held, Working
<1>2. TypeOK'  BY DEF TypeOK
<1>3. Uncommitted'  BY DEF Uncommitted, Settle
<1>4. InHand'  BY <1>1 DEF InHand
<1>5. Scheduled' /\ OnDisk' /\ Forgotten'
  BY DEF Scheduled, SettledOnce, OnDisk, DoneIsComplete, Forgotten
<1>6. Manned'  BY <1>1 DEF Manned, Alive
<1> QED  BY <1>2, <1>3, <1>4, <1>5, <1>6 DEF IInv

-----------------------------------------------------------------------------
(* The theorems. *)

LEMMA NextPreserves == IInv /\ [Next]_vars => IInv'
<1>1. IInv /\ JobsStep => IInv'
  BY LookingPreserves, CollectPreserves, AcknowledgePreserves, SelectPreserves, SkipPreserves,
     DispatchPreserves, SubmitPreserves, EndJobsPreserves DEF JobsStep
<1>2. IInv /\ RetentionStep => IInv'
  BY ChecksPreserves, EmptiesPreserves, ForgetsPreserves DEF RetentionStep
<1>3. IInv /\ CalmStep => IInv'
  BY <1>1, <1>2, OpenPreserves, ClosePreserves, WorkerPreserves, EndPreserves, StartPreserves,
     TickPreserves DEF CalmStep
<1>4. IInv /\ Failure => IInv'
  BY CollectPreserves, FailurePreserves, EndPreserves DEF Failure
<1> QED  BY <1>3, <1>4, TickPreserves DEF Next

\* The inductive invariant, for any schedule, any number of threads and any
\* number of interrupted captures.
THEOREM JobsInductive == Spec => []IInv
<1>1. Init => IInv  BY InitIInv
<1>2. IInv /\ [Next]_vars => IInv'  BY NextPreserves
<1> QED  BY <1>1, <1>2, PTL DEF Spec

\* Rows that say `running' are the futures the agent holds, and the pool is never
\* given more than it has threads (Engine.jobs, netblackbox.py:457-486).
THEOREM RunningIsManned == Spec => []RunningHasWorker
<1>1. IInv => RunningHasWorker
  <2> SUFFICES ASSUME IInv, Alive PROVE RunningHasWorker  BY DEF RunningHasWorker
  <2>1. \A j \in Job \ {cur} : disk.row[j].status = "running" <=> future[j] # "none"
    BY DEF IInv, Manned, Held
  <2>2. Len(batch) \in Nat  BY DEF IInv, TypeOK
  <2>3. Available >= 0
    BY <2>2, HeldFinite, WorkersAssumption DEF IInv, Manned, Available
  <2> QED  BY <2>1, <2>3 DEF RunningHasWorker
<1> QED  BY <1>1, JobsInductive, PTL

\* A job is reported done only with its complete capture on disk.
THEOREM DoneAreComplete == Spec => []DoneIsComplete
<1>1. IInv => DoneIsComplete  BY DEF IInv, OnDisk
<1> QED  BY <1>1, JobsInductive, PTL

\* One event tells of the end of a job, through every rollback and restart.
THEOREM JobsSettledOnce == Spec => []SettledOnce
<1>1. IInv => SettledOnce  BY DEF IInv, Scheduled
<1> QED  BY <1>1, JobsInductive, PTL

\* Retention removes nothing that is being captured or still to be captured.
THEOREM WorkersSpared == Spec => []RetentionSparesWorkers
<1>1. IInv => RetentionSparesWorkers
  <2> SUFFICES ASSUME IInv, retention # "off"
               PROVE  Working = {} /\ \A j \in Job : disk.row[j].status # "pending"
    BY DEF RetentionSparesWorkers
  <2>1. Held = {}  BY NothingHeld DEF IInv
  <2>2. Working \subseteq Held  BY DEF Working, Held
  <2> QED  BY <2>1, <2>2 DEF IInv, Forgotten
<1> QED  BY <1>1, JobsInductive, PTL

\* No step but retention's takes away what a capture wrote: a worker finishes or
\* keeps aside what it finds, and nothing is begun over a finished capture
\* (snapshot, netblackbox.py:357-379).
THEOREM EvidenceKept == Spec => EvidenceNeverOverwritten
<1> DEFINE Respects(j) ==
        /\ dest[j] = "partial" /\ dest'[j] # "partial" =>
              dest'[j] = "complete" \/ kept'[j] = kept[j] + 1 \/ retention = "checked"
        /\ dest[j] = "complete" /\ dest'[j] # "complete" => retention = "checked"
<1>1. IInv /\ [Next]_vars => \A j \in Job : Respects(j)
  <2> SUFFICES ASSUME TypeOK, OnDisk, Forgotten, [Next]_vars, NEW j \in Job PROVE Respects(j)
    BY DEF IInv
  <2>1. CASE dest' = dest  BY <2>1
  <2>2. ASSUME NEW k \in Job, WorkerStep(k) PROVE Respects(j)
    <3>1. CASE AlreadyComplete(k)  BY <3>1, <2>1 DEF AlreadyComplete, tree
    <3>2. CASE KeepInterrupted(k)  BY <3>2 DEF KeepInterrupted, TypeOK
    <3>3. CASE MakeDirectory(k)  BY <3>3 DEF MakeDirectory, TypeOK
    <3>4. CASE Complete(k)  BY <3>4 DEF Complete, TypeOK, OnDisk
    <3>5. CASE CaptureFails(k)  BY <3>5 DEF CaptureFails, TypeOK, OnDisk
    <3> QED  BY <2>2, <3>1, <3>2, <3>3, <3>4, <3>5 DEF WorkerStep
  <2>3. CASE RetentionStep
    BY <2>3 DEF RetentionStep, RetentionChecks, RetentionEmpties, RetentionForgets, tree, Forgotten
  <2>4. CASE JobsStep
    <3>1. UNCHANGED dest
      BY <2>4 DEF JobsStep, BeginJobs, StillRunning, Collect, Acknowledge, Select, Skip, Dispatch,
                  Submit, EndJobs, tree
    <3> QED  BY <3>1, <2>1
  <2>5. CASE OpenIncident \/ CloseIncident \/ Stopped \/ Start \/ Tick \/ Failure \/ UNCHANGED vars
    <3>1. UNCHANGED dest
      BY <2>5 DEF OpenIncident, CloseIncident, Stopped, Start, Tick, Failure, WriteFails, Misread,
                  LeaveRun, Crash, vars, tree
    <3> QED  BY <3>1, <2>1
  <2> QED  BY <2>2, <2>3, <2>4, <2>5 DEF Next, CalmStep
<1>2. IInv /\ [Next]_vars => [\A j \in Job : Respects(j)]_vars  BY <1>1
<1> QED  BY <1>2, JobsInductive, PTL DEF Spec, EvidenceNeverOverwritten

================================================================================
