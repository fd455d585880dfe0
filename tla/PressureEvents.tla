---------------------------- MODULE PressureEvents ----------------------------
(***************************************************************************)
(* The storage pressure of each domain on its way into the event table of  *)
(* the agent: maintenance() and storage_report() on their own thread,      *)
(* maintenance_done() and collect_host() on the main loop, all of          *)
(* app/netblackbox.py.                                                     *)
(*                                                                         *)
(* Maintenance reports all three domains every maintenance_seconds; for    *)
(* the syslog domain collect_host() does so too, from what the observer    *)
(* made of the guard's files.  Both compare with the same flag in the      *)
(* state table and record STORAGE_PRESSURE or STORAGE_RECOVER when it      *)
(* changes.                                                                *)
(***************************************************************************)
CONSTANT Domain   \* the domains of storage_report(), "syslog" among them

VARIABLES
    pressed,   \* disk and incident: as a scan would find them; syslog: what the
               \* guard wrote into its marker
    fault,     \* does the guard's state/syslog-storage-error.json exist?
    told,      \* <domain>_storage_pressure in the state table: the last event told
    job        \* maintenance_future, and the result it brings

vars == <<pressed, fault, told, job>>

Domains == [Domain -> BOOLEAN]
Calm == [d \in Domain |-> FALSE]
NoJob == [at |-> "none", result |-> Calm]

TypeOK ==
    /\ pressed \in Domains
    /\ fault \in BOOLEAN
    /\ told \in Domains
    /\ job \in [at : {"none", "running", "done", "failed"}, result : Domains]

Init ==
    /\ pressed = Calm
    /\ fault = FALSE
    /\ told = Calm
    /\ job = NoJob

-----------------------------------------------------------------------------
\* run() submits maintenance() when no future is held.
SubmitMaintenance ==
    /\ job.at = "none"
    /\ job' = [job EXCEPT !.at = "running"]
    /\ UNCHANGED <<pressed, fault, told>>

\* storage_report(), the last thing maintenance() does.
StorageReport ==
    /\ job.at = "running"
    /\ job' = [at |-> "done", result |-> pressed]
    /\ UNCHANGED <<pressed, fault, told>>

MaintenanceFails ==
    /\ job.at = "running"
    /\ job' = [job EXCEPT !.at = "failed"]
    /\ UNCHANGED <<pressed, fault, told>>

\* Mutant of MaintenanceDone: only a new pressure is recorded.
MaintenanceDoneRaising ==
    /\ job.at \in {"done", "failed"}
    /\ told' = IF job.at = "done" THEN [d \in Domain |-> told[d] \/ job.result[d]] ELSE told
    /\ job' = NoJob
    /\ UNCHANGED <<pressed, fault>>

\* Mutant of MaintenanceDone: a failed future is kept.
MaintenanceDoneKeeping ==
    /\ job.at \in {"done", "failed"}
    /\ told' = IF job.at = "done" THEN job.result ELSE told
    /\ job' = IF job.at = "done" THEN NoJob ELSE job
    /\ UNCHANGED <<pressed, fault>>

\* One transaction for all domains; a failed maintenance is only noted.
MaintenanceDone ==
    /\ job.at \in {"done", "failed"}
    /\ told' = IF job.at = "done" THEN job.result ELSE told
    /\ job' = NoJob
    /\ UNCHANGED <<pressed, fault>>

\* The future is dropped before its result is committed: a failed write loses it.
ResultLost ==
    /\ job.at \in {"done", "failed"}
    /\ job' = NoJob
    /\ UNCHANGED <<pressed, fault, told>>

\* SyslogObserver.sample() turns a guard error into pressure.
ObservedPressure == pressed["syslog"] \/ fault

CollectHost ==
    /\ told' = [told EXCEPT !["syslog"] = ObservedPressure]
    /\ UNCHANGED <<pressed, fault, job>>

\* The agent ends, is killed and starts again.
AgentRestarts ==
    /\ job # NoJob
    /\ job' = NoJob
    /\ UNCHANGED <<pressed, fault, told>>

\* Space is used and freed, and the guard runs beside the agent.
PressureMoves ==
    /\ \E d \in Domain : pressed' = [pressed EXCEPT ![d] = ~@]
    /\ UNCHANGED <<fault, told, job>>

GuardFault ==
    /\ fault' = ~fault
    /\ UNCHANGED <<pressed, told, job>>

-----------------------------------------------------------------------------
CalmStep ==
    \/ SubmitMaintenance \/ StorageReport \/ MaintenanceDone \/ CollectHost
    \/ PressureMoves \/ GuardFault

Disturbance == MaintenanceFails \/ ResultLost \/ AgentRestarts

Next == CalmStep \/ Disturbance

Spec == Init /\ [][Next]_vars

\* The main loop goes round, and maintenance ends.
Fairness ==
    /\ WF_vars(SubmitMaintenance)
    /\ WF_vars(StorageReport)
    /\ WF_vars(MaintenanceDone)
    /\ WF_vars(CollectHost)

FairSpec == Spec /\ Fairness

-----------------------------------------------------------------------------
(* Liveness. *)

Undisturbed == <>[][CalmStep]_vars

\* A guard error that nobody has resolved is told as pressure until it is.
FaultStaysTold == Undisturbed /\ <>[]fault => <>[]told["syslog"]
===============================================================================
