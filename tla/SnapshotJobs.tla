----------------------------- MODULE SnapshotJobs -----------------------------
(***************************************************************************)
(* The diagnostic snapshots of one incident: Engine.jobs(), the worker     *)
(* function snapshot() and the retention of evidence in maintenance(), all *)
(* of app/netblackbox.py.                                                  *)
(*                                                                         *)
(* The main loop hands due rows of snapshot_jobs to a pool of two threads  *)
(* and records what became of them.  A worker writes into a directory of   *)
(* its own and finishes it with complete.json.  The row, the future in     *)
(* memory and the directory are three records of one job, and the process  *)
(* may die, or see a write fail, between any two of them.                  *)
(***************************************************************************)
EXTENDS Naturals, Sequences, FiniteSets

CONSTANTS
    Offsets,          \* incident.snapshot_offsets_seconds, in ticks
    Recovery,         \* the job scheduled when the incident closes
    NoJob,            \* no job in hand
    Workers,          \* size of the thread pool, 2 in the code
    MaxInterrupted    \* bound: interrupted captures kept per job

ASSUME OffsetsAssumption == Offsets \subseteq Nat /\ Offsets # {} /\ IsFiniteSet(Offsets)
ASSUME RecoveryAssumption == Recovery \notin Offsets
ASSUME NoJobAssumption == NoJob \notin Offsets \cup {Recovery}
ASSUME WorkersAssumption == Workers \in Nat \ {0}
ASSUME InterruptedAssumption == MaxInterrupted \in Nat

Job == Offsets \cup {Recovery}

VARIABLES
    disk,      \* what is committed: the incident and its rows of snapshot_jobs
    work,      \* the same through the agent's connection
    future,    \* Engine.running, and how far each worker thread has come
    dest,      \* the snapshot directory of each job
    kept,      \* how many _interrupted_ directories stand beside it
    pc,        \* where the main loop is
    cur,       \* the job in hand, or NoJob
    left,      \* futures the collecting loop has yet to look at
    batch,     \* rows the dispatching loop has yet to start
    clock,     \* ticks since the incident opened
    closedAt,  \* when it was closed
    retention  \* how far maintenance() has come in removing the incident

vars == <<disk, work, future, dest, kept, pc, cur, left, batch, clock, closedAt, retention>>

-----------------------------------------------------------------------------
Settled == {"done", "failed", "skipped"}

\* `told' counts the SNAPSHOT_COMPLETE, _FAILED and _SKIPPED events of a job.
Row == [status : {"none", "pending", "running"} \cup Settled, told : Nat]
Absent == [status |-> "none", told |-> 0]
Tables == [phase : {"none", "open", "recovered"}, row : [Job -> Row]]
NoIncident == [phase |-> "none", row |-> [j \in Job |-> Absent]]

Horizon == CHOOSE h \in Offsets : \A o \in Offsets : o <= h

Held == {j \in Job : future[j] # "none"}
Working == {j \in Job : future[j] \in {"submitted", "capturing"}}
Alive == pc \notin {"down", "stopping"}

TypeOK ==
    /\ disk \in Tables /\ work \in Tables
    /\ future \in [Job -> {"none", "submitted", "capturing", "ok", "error"}]
    /\ dest \in [Job -> {"none", "partial", "complete", "removed"}]
    /\ kept \in [Job -> Nat]
    /\ pc \in {"idle", "collect", "ack", "dispatch", "submit", "stopping", "down"}
    /\ cur \in Job \cup {NoJob}
    /\ left \subseteq Job
    /\ batch \in Seq(Job)
    /\ clock \in Nat /\ closedAt \in Nat
    /\ retention \in {"off", "checked", "emptied"}

Init ==
    /\ disk = NoIncident /\ work = NoIncident
    /\ future = [j \in Job |-> "none"]
    /\ dest = [j \in Job |-> "none"]
    /\ kept = [j \in Job |-> 0]
    /\ pc = "idle" /\ cur = NoJob /\ left = {} /\ batch = << >>
    /\ clock = 0 /\ closedAt = 0
    /\ retention = "off"

-----------------------------------------------------------------------------
(* The main loop: what process() schedules, and jobs(). *)

time == <<clock, closedAt>>
tree == <<dest, kept>>
loop == <<pc, cur, left, batch>>

Due(j) == IF j = Recovery THEN closedAt ELSE j

\* The incident and its rows are committed together.
OpenIncident ==
    /\ pc = "idle" /\ disk.phase = "none"
    /\ disk' = [phase |-> "open",
                row |-> [j \in Job |-> IF j \in Offsets THEN [Absent EXCEPT !.status = "pending"]
                                       ELSE Absent]]
    /\ work' = disk'
    /\ clock' = 0 /\ closedAt' = 0
    /\ UNCHANGED <<future, tree, loop, retention>>

CloseIncident ==
    /\ pc = "idle" /\ disk.phase = "open"
    /\ disk' = [disk EXCEPT !.phase = "recovered", !.row[Recovery].status = "pending"]
    /\ work' = disk'
    /\ closedAt' = clock
    /\ UNCHANGED <<future, tree, loop, clock, retention>>

BeginJobs ==
    /\ pc = "idle"
    /\ pc' = "collect"
    /\ left' = Held
    /\ UNCHANGED <<disk, work, future, tree, cur, batch, time, retention>>

StillRunning ==
    /\ pc = "collect"
    /\ \E j \in left \cap Working : left' = left \ {j}
    /\ UNCHANGED <<disk, work, future, tree, pc, cur, batch, time, retention>>

\* A row is settled together with its event.
Settle(d, j, status) == [d EXCEPT !.row[j] = [status |-> status, told |-> d.row[j].told + 1]]

\* Mutant of Collect: the future is dropped before the row is committed.
CollectReleasing ==
    /\ pc = "collect"
    /\ \E j \in left \ Working :
        /\ work' = Settle(work, j, IF future[j] = "ok" THEN "done" ELSE "failed")
        /\ future' = [future EXCEPT ![j] = "none"]
        /\ cur' = j
    /\ pc' = "ack"
    /\ UNCHANGED <<disk, tree, left, batch, time, retention>>

Collect ==
    /\ pc = "collect"
    /\ \E j \in left \ Working :
        /\ work' = Settle(work, j, IF future[j] = "ok" THEN "done" ELSE "failed")
        /\ cur' = j
    /\ pc' = "ack"
    /\ UNCHANGED <<disk, future, tree, left, batch, time, retention>>

\* The future is released only after the commit.
Acknowledge ==
    /\ pc = "ack"
    /\ disk' = work
    /\ future' = [future EXCEPT ![cur] = "none"]
    /\ left' = left \ {cur}
    /\ cur' = NoJob
    /\ pc' = "collect"
    /\ UNCHANGED <<work, tree, batch, time, retention>>

Available == Workers - Cardinality(Held)
DueRows == {j \in Job : work.row[j].status = "pending" /\ Due(j) <= clock}

\* ORDER BY due LIMIT available
Selections ==
    LET n == IF Available < Cardinality(DueRows) THEN Available ELSE Cardinality(DueRows)
    IN  {q \in [1..n -> DueRows] :
            /\ \A a, b \in 1..n : a < b => q[a] # q[b] /\ Due(q[a]) <= Due(q[b])
            /\ \A j \in DueRows \ {q[a] : a \in 1..n} : \A a \in 1..n : Due(q[a]) <= Due(j)}

Select ==
    /\ pc = "collect" /\ left = {}
    /\ batch' \in Selections
    /\ pc' = "dispatch"
    /\ UNCHANGED <<disk, work, future, tree, cur, left, time, retention>>

\* Disk or incident pressure, looked at for each row.
Skip ==
    /\ pc = "dispatch" /\ batch # << >>
    /\ work' = Settle(work, Head(batch), "skipped")
    /\ batch' = Tail(batch)
    /\ UNCHANGED <<disk, future, tree, pc, cur, left, time, retention>>

\* The row says `running' before the worker starts.
Dispatch ==
    /\ pc = "dispatch" /\ batch # << >>
    /\ work' = [work EXCEPT !.row[Head(batch)].status = "running"]
    /\ disk' = work'
    /\ cur' = Head(batch)
    /\ batch' = Tail(batch)
    /\ pc' = "submit"
    /\ UNCHANGED <<future, tree, left, time, retention>>

Submit ==
    /\ pc = "submit"
    /\ future' = [future EXCEPT ![cur] = "submitted"]
    /\ cur' = NoJob
    /\ pc' = "dispatch"
    /\ UNCHANGED <<disk, work, tree, left, batch, time, retention>>

EndJobs ==
    /\ pc = "dispatch" /\ batch = << >>
    /\ disk' = work
    /\ pc' = "idle"
    /\ UNCHANGED <<work, future, tree, cur, left, batch, time, retention>>

JobsStep ==
    \/ BeginJobs \/ StillRunning \/ Collect \/ Acknowledge \/ Select
    \/ Skip \/ Dispatch \/ Submit \/ EndJobs

-----------------------------------------------------------------------------
(* snapshot(), on a thread of the pool. *)

main == <<disk, work, loop, time, retention>>

\* Mutant of AlreadyComplete: any directory counts as a finished capture.
AlreadyStarted(j) ==
    /\ future[j] = "submitted"
    /\ dest[j] \in {"partial", "complete"}
    /\ future' = [future EXCEPT ![j] = "ok"]
    /\ UNCHANGED <<tree, main>>

AlreadyComplete(j) ==
    /\ future[j] = "submitted"
    /\ dest[j] = "complete"
    /\ future' = [future EXCEPT ![j] = "ok"]
    /\ UNCHANGED <<tree, main>>

\* Mutant of KeepInterrupted: the retry clears what the interrupted capture left.
ClearInterrupted(j) ==
    /\ future[j] = "submitted"
    /\ dest[j] = "partial"
    /\ dest' = [dest EXCEPT ![j] = "none"]
    /\ UNCHANGED <<kept, future, main>>

\* What an interrupted capture left is renamed, never overwritten.
KeepInterrupted(j) ==
    /\ future[j] = "submitted"
    /\ dest[j] = "partial"
    /\ dest' = [dest EXCEPT ![j] = "none"]
    /\ kept' = [kept EXCEPT ![j] = @ + 1]
    /\ UNCHANGED <<future, main>>

MakeDirectory(j) ==
    /\ future[j] = "submitted"
    /\ dest[j] \in {"none", "removed"}
    /\ dest' = [dest EXCEPT ![j] = "partial"]
    /\ future' = [future EXCEPT ![j] = "capturing"]
    /\ UNCHANGED <<kept, main>>

\* Everything is synced before complete.json appears.
Complete(j) ==
    /\ future[j] = "capturing"
    /\ dest' = [dest EXCEPT ![j] = "complete"]
    /\ future' = [future EXCEPT ![j] = "ok"]
    /\ UNCHANGED <<kept, main>>

\* The last thing that may fail is the sync after complete.json has its name.
CaptureFails(j) ==
    /\ j \in Working
    /\ future' = [future EXCEPT ![j] = "error"]
    /\ \/ UNCHANGED dest
       \/ future[j] = "capturing" /\ dest' = [dest EXCEPT ![j] = "complete"]
    /\ UNCHANGED <<kept, main>>

WorkerStep(j) ==
    \/ AlreadyComplete(j) \/ KeepInterrupted(j) \/ MakeDirectory(j) \/ Complete(j) \/ CaptureFails(j)

-----------------------------------------------------------------------------
(* maintenance(), on its own thread and connection, once the incident is old; *)
(* or as a process of its own, when the administrator calls it.              *)

engine == <<work, future, loop, time>>

\* Mutant of RetentionChecks: jobs that are running do not hold retention back.
RetentionChecksPending ==
    /\ retention = "off"
    /\ disk.phase = "recovered"
    /\ \A j \in Job : disk.row[j].status # "pending"
    /\ retention' = "checked"
    /\ UNCHANGED <<disk, engine, tree>>

RetentionChecks ==
    /\ retention = "off"
    /\ disk.phase = "recovered"
    /\ \A j \in Job : disk.row[j].status \notin {"pending", "running"}
    /\ retention' = "checked"
    /\ UNCHANGED <<disk, engine, tree>>

RetentionEmpties ==
    /\ retention = "checked"
    /\ dest' = [j \in Job |-> "removed"]
    /\ kept' = [j \in Job |-> 0]
    /\ retention' = "emptied"
    /\ UNCHANGED <<disk, engine>>

\* The DELETE waits until the agent has no transaction open.
RetentionForgets ==
    /\ retention = "emptied"
    /\ work = disk
    /\ disk' = NoIncident /\ work' = NoIncident
    /\ dest' = [j \in Job |-> "none"]
    /\ retention' = "off"
    /\ UNCHANGED <<future, loop, kept, time>>

RetentionStep == RetentionChecks \/ RetentionEmpties \/ RetentionForgets

-----------------------------------------------------------------------------
(* Failures, exits and restarts. *)

\* Mutant of WriteFails: no rollback.
WriteFailsKeeping ==
    /\ pc \in {"collect", "ack", "dispatch"}
    /\ pc' = "idle" /\ cur' = NoJob /\ left' = {} /\ batch' = << >>
    /\ UNCHANGED <<disk, work, future, tree, time, retention>>

\* OSError or OperationalError in jobs(): roll back; the futures stay.
WriteFails ==
    /\ pc \in {"collect", "ack", "dispatch"}
    /\ work' = disk
    /\ pc' = "idle" /\ cur' = NoJob /\ left' = {} /\ batch' = << >>
    /\ UNCHANGED <<disk, future, tree, time, retention>>

\* The handler that records a failed capture also catches the error of the
\* statements that record a complete one, and by then the database may answer.
Misread ==
    /\ pc = "collect"
    /\ \E j \in left :
        /\ future[j] = "ok"
        /\ work' = Settle(work, j, "failed")
        /\ cur' = j
    /\ pc' = "ack"
    /\ UNCHANGED <<disk, future, tree, left, batch, time, retention>>

\* Bound: nothing ends the process unless two more interrupted captures may be
\* kept, the one it may leave and the one a worker that is waited for may rename.
MayInterrupt ==
    \A j \in Job : dest[j] = "partial" \/ future[j] # "none" => kept[j] + 2 <= MaxInterrupted

\* SIGTERM between two rounds, or submit() finding no thread to start: the pools
\* are waited for.
LeaveRun ==
    /\ pc \in {"idle", "submit"}
    /\ MayInterrupt
    /\ pc' = "stopping" /\ cur' = NoJob /\ batch' = << >>
    /\ UNCHANGED <<disk, work, future, tree, left, time, retention>>

\* A maintenance of the administrator goes on.
ProcessEnds ==
    /\ future' = [j \in Job |-> "none"]
    /\ retention' \in {"off", retention}
    /\ pc' = "down" /\ cur' = NoJob /\ left' = {} /\ batch' = << >>

\* The results of the workers that were waited for are not recorded: what is
\* left for the next start is the row and the directory.
Stopped ==
    /\ pc = "stopping"
    /\ Working = {}
    /\ ProcessEnds
    /\ disk' = work
    /\ UNCHANGED <<work, tree, time>>

\* SIGKILL, watchdog or power loss
Crash ==
    /\ pc # "down"
    /\ MayInterrupt
    /\ ProcessEnds
    /\ work' = disk
    /\ UNCHANGED <<disk, tree, time>>

\* Mutant of Requeued: running rows are left as they are.
RequeuedNone(d) == d

\* Engine.__init__: running rows are pending again.
Requeued(d) ==
    [d EXCEPT !.row = [j \in Job |-> IF d.row[j].status = "running"
                                     THEN [d.row[j] EXCEPT !.status = "pending"] ELSE d.row[j]]]

Start ==
    /\ pc = "down"
    /\ disk' = Requeued(disk)
    /\ work' = Requeued(disk)
    /\ pc' = "idle"
    /\ UNCHANGED <<future, tree, cur, left, batch, time, retention>>

-----------------------------------------------------------------------------
(* Time.  jobs() reads the clock once, before it starts. *)

Tick ==
    /\ pc \in {"idle", "down"}
    /\ clock < Horizon
    /\ clock' = clock + 1
    /\ UNCHANGED <<disk, work, future, tree, loop, closedAt, retention>>

-----------------------------------------------------------------------------
CalmStep ==
    \/ OpenIncident \/ CloseIncident
    \/ JobsStep
    \/ \E j \in Job : WorkerStep(j)
    \/ RetentionStep
    \/ Stopped \/ Start
    \/ Tick

Failure == WriteFails \/ Misread \/ LeaveRun \/ Crash

Next == CalmStep \/ Failure

Spec == Init /\ [][Next]_vars

\* The main loop goes round every half second, every capture has a deadline, and
\* systemd restarts the agent; these are never enabled together and share a
\* condition.  Nothing is assumed of pressure or of retention.
Fairness ==
    /\ WF_vars(JobsStep \/ Stopped \/ Start)
    /\ \A j \in Job : WF_vars(WorkerStep(j))

FairSpec == Spec /\ Fairness

-----------------------------------------------------------------------------
(* Safety. *)

\* While the agent runs, the rows that say `running' are the futures it holds:
\* no failed write or restart leaves a row that nobody works on, none is worked
\* on twice, and the pool is never given more than it has threads.
RunningHasWorker ==
    Alive =>
        /\ \A j \in Job \ {cur} : disk.row[j].status = "running" <=> future[j] # "none"
        /\ Available >= 0

\* A job reported done has its complete capture on disk until retention removes it.
DoneIsComplete ==
    \A j \in Job : disk.row[j].status = "done" => dest[j] \in {"complete", "removed"}

\* Exactly one event tells how a job ended, through every rollback and restart.
SettledOnce ==
    \A j \in Job : disk.row[j].told = IF disk.row[j].status \in Settled THEN 1 ELSE 0

\* Retention never removes the directory of an incident whose snapshots are
\* being taken or are still to be taken.
RetentionSparesWorkers ==
    retention # "off" => /\ Working = {}
                         /\ \A j \in Job : disk.row[j].status # "pending"

-----------------------------------------------------------------------------
(* The inductive invariant: what the steps rely on. *)

\* The connection is ahead of the database only by the settlement in hand, or by
\* the rows skipped in this call of jobs().
Uncommitted ==
    /\ pc \notin {"ack", "dispatch"} => work = disk
    /\ pc = "ack" =>
        \E status \in {"done", "failed"} :
            /\ work = Settle(disk, cur, status)
            /\ status = "done" => future[cur] = "ok"
    /\ pc = "dispatch" =>
        /\ work.phase = disk.phase
        /\ \A j \in Job : \/ work.row[j] = disk.row[j]
                          \/ /\ disk.row[j].status = "pending"
                             /\ work.row[j] = [status |-> "skipped", told |-> disk.row[j].told + 1]

\* What jobs() looks at is still there when it comes to it.
InHand ==
    /\ pc \in {"collect", "ack"} => left \subseteq Held
    /\ pc = "ack" => cur \in left \ Working
    /\ pc = "submit" => cur \in Job \ Held /\ disk.row[cur].status = "running"
    /\ pc \notin {"ack", "submit"} => cur = NoJob
    /\ pc \notin {"dispatch", "submit"} => batch = << >>
    /\ \A a \in 1..Len(batch) : work.row[batch[a]].status = "pending"
    /\ \A a, b \in 1..Len(batch) : a # b => batch[a] # batch[b]

\* The rows of an incident come and go with it.
Scheduled ==
    /\ disk.phase = "none" => \A j \in Job : disk.row[j] = Absent
    /\ disk.phase = "open" => disk.row[Recovery] = Absent
    /\ SettledOnce

\* The threads of the pool are enough for what is held and what is selected.
Manned ==
    /\ \A j \in Held : disk.row[j].status = "running"
    /\ Alive => \A j \in Job \ {cur} : disk.row[j].status = "running" => j \in Held
    /\ pc = "down" => Held = {}
    /\ Cardinality(Held) + Len(batch) + (IF pc = "submit" THEN 1 ELSE 0) <= Workers

OnDisk ==
    /\ \A j \in Job : /\ future[j] = "ok" => dest[j] = "complete"
                      /\ future[j] = "capturing" => dest[j] = "partial"
    /\ DoneIsComplete

\* Retention is at work only on an incident that nothing more will be done for.
Forgotten ==
    /\ retention # "off" =>
        /\ disk.phase = "recovered"
        /\ \A j \in Job : disk.row[j].status \notin {"pending", "running"}
    /\ retention = "emptied" => \A j \in Job : dest[j] = "removed"

IInv == TypeOK /\ Uncommitted /\ InHand /\ Scheduled /\ Manned /\ OnDisk /\ Forgotten

-----------------------------------------------------------------------------
(* Action properties. *)

\* Evidence is never lost to a retry: an unfinished capture is finished or kept
\* aside, a finished one is never taken again.
EvidenceNeverOverwritten ==
    [][\A j \in Job :
        /\ dest[j] = "partial" /\ dest'[j] # "partial" =>
              dest'[j] = "complete" \/ kept'[j] = kept[j] + 1 \/ retention = "checked"
        /\ dest[j] = "complete" /\ dest'[j] # "complete" => retention = "checked"]_vars

-----------------------------------------------------------------------------
(* Liveness. *)

Owed(j) == disk.row[j].status \in {"pending", "running"} /\ Due(j) <= clock

\* Once failures stop, every due snapshot is taken, fails or is skipped: none is
\* forgotten in a queue, and the retry of an interrupted one goes through.
\* (A rollback that undoes nothing is the end of jobs(), and no failure.)
DueJobsSettle ==
    <>[][Failure => CalmStep]_vars => \A j \in Job : []<>~Owed(j)
===============================================================================
