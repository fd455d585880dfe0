------------------------------- MODULE AgentLoop -------------------------------
(***************************************************************************)
(* The main loop of the agent, run() of app/netblackbox.py, around the two *)
(* futures it polls: maintenance() (PressureEvents) and heartbeat()        *)
(* (Heartbeat).  A round is sequential, so that a step that fails takes    *)
(* every later step of the round with it; the workers, the guard and the   *)
(* observer go on meanwhile.                                               *)
(***************************************************************************)
EXTENDS Heartbeat

CONSTANT Domain

VARIABLES pressed, fault, told, job   \* of PressureEvents

P == INSTANCE PressureEvents

storage == <<pressed, fault, told, job>>
loop == <<vars, storage>>

LoopInit == Init /\ P!Init

-----------------------------------------------------------------------------
(* A round, in order. *)

RoundWithResult == BeginRound /\ P!MaintenanceDone

RoundWithoutResult ==
    /\ job.at \notin {"done", "failed"}
    /\ BeginRound
    /\ UNCHANGED storage

HostDue == HostPart /\ P!CollectHost

HostNotDue == HostPart /\ UNCHANGED storage

\* maintenance() is submitted after the probes, when it is due and none runs.
MaintenanceDue == ProbePart /\ P!SubmitMaintenance

MaintenanceNotDue == ProbePart /\ UNCHANGED storage

HeartbeatPart ==
    /\ RecordAnswer \/ CommitAttempt \/ Submit \/ EndRound
    /\ UNCHANGED storage

LoopStep ==
    \/ RoundWithResult \/ RoundWithoutResult
    \/ HostDue \/ HostNotDue
    \/ MaintenanceDue \/ MaintenanceNotDue
    \/ HeartbeatPart

-----------------------------------------------------------------------------
(* Beside the loop. *)

AnswerArrives == HeartbeatEnds /\ UNCHANGED storage

ReportArrives == P!StorageReport /\ UNCHANGED vars

TimePasses == Tick /\ UNCHANGED storage

StorageMoves == (P!PressureMoves \/ P!GuardFault) /\ UNCHANGED vars

-----------------------------------------------------------------------------
(* Failures. *)

\* A result that was taken from its future is lost with the commit that fails.
ResultLost == at = "top" /\ CollectionFails /\ P!ResultLost

\* Any other step of the round fails: what it did is rolled back.
RoundFails ==
    /\ CollectionFails \/ AnswerFails \/ AttemptFails
    /\ UNCHANGED storage

MaintenanceFails == P!MaintenanceFails /\ UNCHANGED vars

\* Both futures end with the agent.
BothRestart ==
    /\ AgentRestarts
    /\ P!AgentRestarts \/ (job = P!NoJob /\ UNCHANGED storage)

Disturbance == ResultLost \/ RoundFails \/ MaintenanceFails \/ BothRestart

LoopNext ==
    \/ LoopStep
    \/ AnswerArrives \/ ReportArrives \/ TimePasses \/ StorageMoves
    \/ Disturbance

\* The loop goes round, host samples, probes and maintenance come due again and
\* again, the deadlines end what the workers do, and time passes.
LoopFairness ==
    /\ WF_loop(LoopStep)
    /\ SF_loop(HostDue)
    /\ SF_loop(MaintenanceDue)
    /\ SF_loop((MaintenanceDue \/ MaintenanceNotDue) /\ known')
    /\ WF_loop(AnswerArrives)
    /\ WF_loop(ReportArrives)
    /\ WF_loop(TimePasses)

LoopSpec == LoopInit /\ [][LoopNext]_loop /\ LoopFairness

-----------------------------------------------------------------------------
(* Properties. *)

Undisturbed == <>[][~Disturbance]_loop

\* Pressure that lasts is recorded for its domain in the end, whatever results
\* of maintenance were late or lost (netblackbox.py:494-516, 441-444).
PressureTold ==
    \A d \in Domain : Undisturbed /\ <>[]pressed[d] => <>[]told[d]

\* So is a recovery that lasts.
RecoveryTold ==
    \A d \in Domain :
        Undisturbed /\ <>[](~pressed[d] /\ (d = "syslog" => ~fault)) => <>[]~told[d]

\* When every heartbeat fails from some time on, or none does, that is told in
\* the end, whatever answers and attempts were lost (netblackbox.py:577-590).
AnswersTold ==
    /\ Undisturbed /\ <>[][HeartbeatEnds => ~future'.ok]_loop => <>[](cloudOk = "failed")
    /\ Undisturbed /\ <>[][HeartbeatEnds => future'.ok]_loop => <>[](cloudOk = "ok")
=============================================================================
