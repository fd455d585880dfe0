----------------------------- MODULE StorageGuard -----------------------------
(***************************************************************************)
(* The storage guard: cycle() of app/syslog_storage.py, run by a timer     *)
(* every 30 seconds, and everything it shares the receiver with: systemd   *)
(* (auto-restart, boot, the ExecCondition), the administrator, and an      *)
(* upgrade in progress.                                                    *)
(*                                                                         *)
(* The guard pauses the receiver under critical disk pressure and resumes  *)
(* what it paused once space has recovered.  Who owns a stopped receiver   *)
(* is recorded in a marker file, so that a guard that is killed between    *)
(* two steps, or a machine that reboots, continues where it was.           *)
(***************************************************************************)
EXTENDS Naturals

VARIABLES
    receiver,   \* netblackbox-syslog.service as systemd sees it
    marker,     \* state/syslog-storage.json
    fault,      \* does state/syslog-storage-error.json exist?
    level,      \* free space and log budget, as pressure_decision() tells them apart
    upgrade,    \* state/upgrade-in-progress.json: its writer is alive, dead, or no file
    waiting,    \* 300 s have not passed since the last recorded start failure
    pc,         \* where cycle() is; "idle" between two cycles
    running,    \* local of cycle(): receiver_active() at its start
    result,     \* local of cycle(): the marker it will write
    stopped     \* history: who stopped the receiver last, and when the administrator
                \* did: between two cycles, during one, or while the guard owned it

vars == <<receiver, marker, fault, level, upgrade, waiting, pc, running, result, stopped>>

-----------------------------------------------------------------------------
\* `restarting' is systemd's wait before an automatic restart; `starting' is a
\* start whose ExecCondition has passed.  Both are ActiveState=activating.
Receiver == {"active", "inactive", "starting", "restarting"}

\* recovered: above every threshold by the hysteresis margin; band: neither
\* pressure nor recovered.
Level == {"recovered", "band", "warning", "critical"}

\* An absent marker reads as [paused |-> FALSE, resume |-> FALSE, retry |-> FALSE];
\* retry: resume_retry_after lies `waiting' ahead.
Marker == [valid : BOOLEAN, paused : BOOLEAN, resume : BOOLEAN, retry : BOOLEAN]
Unowned == [valid |-> TRUE, paused |-> FALSE, resume |-> FALSE, retry |-> FALSE]
Corrupt == [Unowned EXCEPT !.valid = FALSE]

Owned(m) == m.valid /\ (m.paused \/ m.resume)

PC == {"idle", "load", "fault", "stopFault", "pause", "stop", "stopUnrecorded", "work",
       "decide", "intent", "start", "await", "backoff", "final"}

TypeOK ==
    /\ receiver \in Receiver
    /\ marker \in Marker
    /\ fault \in BOOLEAN
    /\ level \in Level
    /\ upgrade \in {"none", "alive", "dead"}
    /\ waiting \in BOOLEAN
    /\ pc \in PC
    /\ running \in BOOLEAN
    /\ result \in Marker
    /\ stopped \in {"nobody", "guard", "unrecorded", "admin", "adminInCycle", "adminOwned"}

Init ==
    /\ receiver = "active"
    /\ marker = Unowned
    /\ fault = FALSE
    /\ level = "recovered"
    /\ upgrade = "none"
    /\ waiting = FALSE
    /\ pc = "idle"
    /\ running = FALSE
    /\ result = Unowned
    /\ stopped = "nobody"

-----------------------------------------------------------------------------
(* pressure_decision() and the ExecCondition. *)

Pressure(owned) ==
    \/ level \in {"warning", "critical"}
    \/ owned /\ level # "recovered"

\* Mutant: a receiver found running is not paused again by its owner.
MustPauseOnce(owned) == level = "critical" /\ ~owned

MustPause(owned) ==
    \/ level = "critical" /\ ~owned
    \/ owned /\ running /\ Pressure(owned)

\* The upgrade that is marked as in progress still has a process.
UpgradeOwnerAlive == upgrade # "dead"

\* Mutant: a pending resume intent blocks the start it announces.
ReceiverAllowedIfUnowned ==
    /\ UpgradeOwnerAlive /\ ~fault /\ level # "critical"
    /\ marker.valid /\ ~Owned(marker)

\* --receiver-allowed, evaluated by systemd before every start; when its own
\* inventory() fails it refuses, see RestartRefused, BootRefused, RequestRefused.
ReceiverAllowed ==
    /\ UpgradeOwnerAlive
    /\ ~fault
    /\ marker.valid
    /\ level # "critical"
    /\ ~marker.paused

-----------------------------------------------------------------------------
(* cycle(), one step per effect the outside can see. *)

world == <<receiver, level, upgrade, stopped>>
locals == <<running, result>>

\* The locals are dead once the cycle is over.
EndCycle == pc' = "idle" /\ running' = FALSE /\ result' = Unowned

\* A receiver in transition makes receiver_active() raise, and an upgrade in
\* progress turns the cycle into a mere validation: neither goes any further.
Observe ==
    /\ pc = "idle"
    /\ upgrade = "none"
    /\ receiver \in {"active", "inactive"}
    /\ running' = (receiver = "active")
    /\ pc' = "load"
    /\ UNCHANGED <<world, marker, fault, waiting, result>>

LoadRefused ==
    /\ pc = "load"
    /\ fault \/ ~marker.valid
    /\ pc' = "fault"
    /\ UNCHANGED <<world, marker, fault, waiting, locals>>

\* Mutant: resume_pending is not taken for ownership.
LoadForgettingIntent ==
    /\ pc = "load"
    /\ ~fault /\ marker.valid
    /\ result' = [Unowned EXCEPT !.paused = marker.paused \/ (MustPause(marker.paused) /\ running),
                                 !.retry = marker.retry]
    /\ pc' = IF MustPause(marker.paused) THEN "pause" ELSE "work"
    /\ UNCHANGED <<world, marker, fault, waiting, running>>

\* Mutant: a pause takes ownership of a receiver that is stopped already.
LoadTakingStopped ==
    /\ pc = "load"
    /\ ~fault /\ marker.valid
    /\ result' = [Unowned EXCEPT !.paused = Owned(marker) \/ MustPause(Owned(marker)),
                                 !.retry = marker.retry]
    /\ pc' = IF MustPause(Owned(marker)) THEN "pause" ELSE "work"
    /\ UNCHANGED <<world, marker, fault, waiting, running>>

\* Mutant: resume_retry_after is not carried from one cycle to the next.
LoadForgettingRetry ==
    /\ pc = "load"
    /\ ~fault /\ marker.valid
    /\ result' = [Unowned EXCEPT !.paused = Owned(marker) \/ (MustPause(Owned(marker)) /\ running)]
    /\ pc' = IF MustPause(Owned(marker)) THEN "pause" ELSE "work"
    /\ UNCHANGED <<world, marker, fault, waiting, running>>

Load ==
    /\ pc = "load"
    /\ ~fault /\ marker.valid
    /\ result' = [Unowned EXCEPT !.paused = Owned(marker) \/ (MustPause(Owned(marker)) /\ running),
                                 !.retry = marker.retry]
    /\ pc' = IF MustPause(Owned(marker)) THEN "pause" ELSE "work"
    /\ UNCHANGED <<world, marker, fault, waiting, running>>

\* Mutant: the receiver is stopped only when the fault is new.
WriteFaultOnce ==
    /\ pc = "fault"
    /\ fault' = TRUE
    /\ IF running /\ ~fault THEN pc' = "stopFault" /\ UNCHANGED locals ELSE EndCycle
    /\ UNCHANGED <<world, marker, waiting>>

WriteFault ==
    /\ pc = "fault"
    /\ fault' = TRUE
    /\ IF running THEN pc' = "stopFault" /\ UNCHANGED locals ELSE EndCycle
    /\ UNCHANGED <<world, marker, waiting>>

\* The pause is on record before the receiver is stopped.
WritePause ==
    /\ pc = "pause"
    /\ marker' = result
    /\ pc' = IF running THEN "stop" ELSE "work"
    /\ UNCHANGED <<world, fault, waiting, locals>>

\* systemctl stop
StopBy(who) ==
    /\ receiver' = "inactive"
    /\ stopped' = IF receiver = "inactive" THEN stopped ELSE who

Stop ==
    /\ pc = "stop"
    /\ StopBy("guard")
    /\ pc' = "work"
    /\ UNCHANGED <<marker, fault, level, upgrade, waiting, locals>>

StopForFault ==
    /\ pc \in {"stopFault", "stopUnrecorded"}
    /\ StopBy(IF pc = "stopFault" THEN "guard" ELSE "unrecorded")
    /\ EndCycle
    /\ UNCHANGED <<marker, fault, level, upgrade, waiting>>

\* logrotate and prune_archives(): what they free shows as a change of level.
RotateAndPrune ==
    /\ pc = "work"
    /\ pc' = "decide"
    /\ UNCHANGED <<world, marker, fault, waiting, locals>>

Decide ==
    /\ pc = "decide"
    /\ pc' = IF result.paused /\ level = "recovered" /\ ~(result.retry /\ waiting)
             THEN "intent" ELSE "final"
    /\ UNCHANGED <<world, marker, fault, waiting, locals>>

\* A retryable resume intent replaces the pause that the ExecCondition refuses.
WriteIntent ==
    /\ pc = "intent"
    /\ marker' = [result EXCEPT !.paused = FALSE, !.resume = TRUE]
    /\ pc' = "start"
    /\ UNCHANGED <<world, fault, waiting, locals>>

\* systemctl start
RequestStart ==
    /\ pc = "start"
    /\ IF receiver = "active" THEN pc' = "final" /\ result' = Unowned /\ UNCHANGED receiver
       ELSE IF receiver = "starting" \/ ReceiverAllowed
       THEN pc' = "await" /\ receiver' = "starting" /\ UNCHANGED result
       ELSE pc' = "backoff" /\ receiver' = "inactive" /\ UNCHANGED result
    /\ UNCHANGED <<marker, fault, level, upgrade, waiting, running, stopped>>

AwaitStart ==
    /\ pc = "await"
    /\ receiver # "starting"
    /\ IF receiver = "active" THEN pc' = "final" /\ result' = Unowned
       ELSE pc' = "backoff" /\ UNCHANGED result
    /\ UNCHANGED <<world, marker, fault, waiting, running>>

WriteBackoff ==
    /\ pc = "backoff"
    /\ marker' = [Unowned EXCEPT !.paused = TRUE, !.retry = TRUE]
    /\ waiting' = TRUE
    /\ EndCycle
    /\ UNCHANGED <<world, fault>>

WriteFinal ==
    /\ pc = "final"
    /\ marker' = result
    /\ EndCycle
    /\ UNCHANGED <<world, fault, waiting>>

CycleStep ==
    \/ Observe \/ LoadRefused \/ Load \/ WriteFault \/ WritePause \/ Stop \/ StopForFault
    \/ RotateAndPrune \/ Decide \/ WriteIntent \/ RequestStart \/ AwaitStart
    \/ WriteBackoff \/ WriteFinal

-----------------------------------------------------------------------------
(* What may go wrong in a cycle. *)

\* inventory() cannot read or finish its scan.
ScanFails ==
    /\ pc = "load"
    /\ pc' = "fault"
    /\ UNCHANGED <<world, marker, fault, waiting, locals>>

\* A full disk: the finally clauses still stop the receiver that was running.
WriteFails ==
    /\ pc \in {"fault", "pause", "intent", "backoff", "final"}
    /\ IF pc \in {"fault", "pause"} /\ running
       THEN pc' = "stopUnrecorded" /\ UNCHANGED locals
       ELSE EndCycle
    /\ UNCHANGED <<world, marker, fault, waiting>>

\* SIGKILL at TimeoutStartSec, or an exception none of the handlers expects: a
\* failed systemctl stop, logrotate, prune or second inventory.
Dies ==
    /\ pc # "idle"
    /\ EndCycle
    /\ UNCHANGED <<world, marker, fault, waiting>>

\* The start job outlives the 30 s the guard waits for it.
StartTimesOut ==
    /\ pc = "await"
    /\ receiver = "starting"
    /\ pc' = "backoff"
    /\ UNCHANGED <<world, marker, fault, waiting, locals>>

-----------------------------------------------------------------------------
(* systemd and the receiver. *)

guard == <<marker, fault, level, waiting, pc, running, result>>

Starts ==
    /\ receiver' = IF ReceiverAllowed THEN "starting" ELSE "inactive"
    /\ stopped' = IF ReceiverAllowed THEN "nobody" ELSE stopped

ReceiverCrashes ==
    /\ receiver = "active"
    /\ receiver' = "restarting"
    /\ UNCHANGED <<guard, upgrade, stopped>>

StartFails ==
    /\ receiver = "starting"
    /\ receiver' = "restarting"
    /\ UNCHANGED <<guard, upgrade, stopped>>

StartCompletes ==
    /\ receiver = "starting"
    /\ receiver' = "active"
    /\ stopped' = "nobody"
    /\ UNCHANGED <<guard, upgrade>>

\* Restart=always: a refused ExecCondition ends the restarts.
AutoRestart ==
    /\ receiver = "restarting"
    /\ Starts
    /\ UNCHANGED <<guard, upgrade>>

\* The unit is enabled, so every boot tries it; no upgrade survives a boot.
Reboot ==
    /\ EndCycle
    /\ upgrade' = IF upgrade = "alive" THEN "dead" ELSE upgrade
    /\ Starts
    /\ UNCHANGED <<marker, fault, level, waiting>>

\* The inventory() of --receiver-allowed cannot read or finish its scan, so that a
\* start is refused whatever the guard has on record: a restart, the start of a
\* boot, or the guard's own.  (The administrator's leaves things as they are.)
RestartRefused ==
    /\ receiver = "restarting"
    /\ receiver' = "inactive"
    /\ UNCHANGED <<guard, upgrade, stopped>>

BootRefused ==
    /\ EndCycle
    /\ upgrade' = IF upgrade = "alive" THEN "dead" ELSE upgrade
    /\ receiver' = "inactive"
    /\ UNCHANGED <<marker, fault, level, waiting, stopped>>

RequestRefused ==
    /\ pc = "start"
    /\ receiver \in {"inactive", "restarting"}
    /\ receiver' = "inactive"
    /\ pc' = "backoff"
    /\ UNCHANGED <<marker, fault, level, upgrade, waiting, locals, stopped>>

-----------------------------------------------------------------------------
(* The administrator, the upgrade tool, time and the disk. *)

AdminStart ==
    /\ receiver = "inactive"
    /\ ReceiverAllowed
    /\ Starts
    /\ UNCHANGED <<guard, upgrade>>

AdminStop ==
    /\ receiver # "inactive"
    /\ StopBy(CASE Owned(marker) -> "adminOwned"
                [] pc # "idle" /\ ~Owned(marker) -> "adminInCycle"
                [] OTHER -> "admin")
    /\ UNCHANGED <<guard, upgrade>>

\* --clear-error, under the lock that every cycle holds
ClearError ==
    /\ pc = "idle"
    /\ fault
    /\ marker.valid
    /\ level = "recovered"
    /\ fault' = FALSE
    /\ stopped' = IF stopped = "guard" THEN "nobody" ELSE stopped
    /\ UNCHANGED <<receiver, marker, level, upgrade, waiting, pc, running, result>>

\* The marker is damaged between two cycles, and replaced by hand with one that
\* owns nothing.
MarkerDamaged ==
    /\ pc = "idle"
    /\ marker.valid
    /\ marker' = Corrupt
    /\ UNCHANGED <<world, fault, waiting, pc, locals>>

RepairMarker ==
    /\ pc = "idle"
    /\ ~marker.valid
    /\ marker' = Unowned
    /\ waiting' = FALSE
    /\ stopped' = IF stopped = "guard" THEN "nobody" ELSE stopped
    /\ UNCHANGED <<receiver, fault, level, upgrade, pc, locals>>

\* manage.py writes the marker, removes it at the end, dies, or is rolled back.
UpgradeMoves ==
    /\ upgrade' \in CASE upgrade = "none" -> {"alive"}
                      [] upgrade = "alive" -> {"none", "dead"}
                      [] upgrade = "dead" -> {"none"}
    /\ UNCHANGED <<guard, receiver, stopped>>

LevelMoves ==
    /\ level' \in Level \ {level}
    /\ UNCHANGED <<receiver, marker, fault, upgrade, waiting, pc, locals, stopped>>

\* The clock is read once, when a cycle starts.
BackoffElapses ==
    /\ pc = "idle"
    /\ waiting
    /\ waiting' = FALSE
    /\ UNCHANGED <<world, marker, fault, pc, locals>>

-----------------------------------------------------------------------------
\* A quiet day: nothing fails and nobody stops the receiver, though space may
\* come and go, and the administrator may repair and start.
CalmStep ==
    \/ CycleStep
    \/ StartCompletes \/ AutoRestart
    \/ AdminStart \/ ClearError \/ RepairMarker
    \/ LevelMoves \/ BackoffElapses

Disturbance ==
    \/ ScanFails \/ WriteFails \/ Dies \/ StartTimesOut
    \/ ReceiverCrashes \/ StartFails \/ Reboot
    \/ RestartRefused \/ BootRefused \/ RequestRefused
    \/ AdminStop \/ MarkerDamaged \/ UpgradeMoves

Next == CalmStep \/ Disturbance

Spec == Init /\ [][Next]_vars

\* The timer fires every 30 s and a cycle has 60 s, systemd completes its jobs
\* and restarts, and time passes.  Nothing is assumed of the administrator.
Fairness ==
    /\ WF_vars(CycleStep)
    /\ WF_vars(StartCompletes)
    /\ WF_vars(AutoRestart)
    /\ SF_vars(BackoffElapses)

FairSpec == Spec /\ Fairness

-----------------------------------------------------------------------------
(* Safety. *)

\* A receiver the guard stopped always leaves a reason on disk: the marker owns
\* it, or the fault file (or the damaged marker itself) asks for a person.  No
\* crash between any two steps makes the guard forget what it has to resume.
StopsAreAccountedFor == stopped = "guard" => Owned(marker) \/ fault \/ ~marker.valid

-----------------------------------------------------------------------------
(* Action properties. *)

Attempt == pc = "start" /\ pc' # "start" /\ pc' # "idle"

\* The guard never starts a receiver that the administrator stopped between two
\* cycles, when the guard did not own it.
AdminStopRespected == [][Attempt /\ receiver # "active" => stopped # "admin"]_vars

\* Nor one that the administrator stopped during a cycle, without being owned.
StopInCycleRespected ==
    [][Attempt /\ receiver # "active" => stopped \notin {"admin", "adminInCycle"}]_vars

\* After a recorded failure to start, the guard waits its 300 s, whatever cycles,
\* pauses and reboots come in between.
RetryWaits == [][Attempt => ~waiting]_vars

-----------------------------------------------------------------------------
(* Why the safety properties hold: what a cycle under way may rely on. *)

\* A running receiver is nobody's to resume.
RunningIsFree == receiver = "active" => stopped = "nobody"

\* Between two cycles there is nothing to remember.
LocalCopy ==
    /\ result.valid /\ ~result.resume
    /\ pc = "idle" => ~running /\ ~result.paused

\* No stop comes before the record that accounts for it.
RecordBeforeStop ==
    /\ pc = "pause" /\ running => result.paused
    /\ pc = "stop" => marker.valid /\ marker.paused /\ result.paused
    /\ pc = "stopFault" => fault

\* A cycle that will write that it owns nothing has nothing to resume.
NothingToForget ==
    pc \in {"pause", "stop", "work", "decide", "intent", "final"} /\ ~result.paused
        => stopped # "guard"

\* resume_retry_after survives in the marker, or in the local copy of it.
RetryOnRecord ==
    waiting => /\ marker.valid => marker.retry
               /\ pc \in {"pause", "stop", "work", "decide", "final"} => result.retry
               /\ pc \notin {"intent", "start", "await"}

\* What the administrator stopped is neither owned nor about to be.
AdminKeepsOwnership ==
    stopped = "admin" =>
        /\ ~Owned(marker)
        /\ ~running /\ ~result.paused
        /\ pc \notin {"stop", "intent", "start", "await", "backoff"}

IInv ==
    /\ TypeOK
    /\ StopsAreAccountedFor
    /\ RunningIsFree
    /\ LocalCopy
    /\ RecordBeforeStop
    /\ NothingToForget
    /\ RetryOnRecord
    /\ AdminKeepsOwnership

-----------------------------------------------------------------------------
(* Liveness. *)

Undisturbed == <>[][CalmStep]_vars

\* Lasting critical pressure ends with the receiver stopped for good.
PressureStops ==
    Undisturbed /\ <>[](level = "critical" /\ upgrade = "none") => <>[](receiver = "inactive")

\* A fault that stays does as well: the receiver does not run unsupervised.
FaultStops ==
    Undisturbed /\ <>[](fault /\ upgrade = "none") => <>[](receiver = "inactive")

\* What the guard stopped is running again once space has recovered for good.
RecoveryResumes ==
    Undisturbed /\ <>[](level = "recovered" /\ upgrade = "none" /\ ~fault /\ marker.valid)
        => []<>(~Owned(marker) /\ stopped # "guard")
===============================================================================
