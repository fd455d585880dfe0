----------------------------- MODULE StorageLevels -----------------------------
(***************************************************************************)
(* The thresholds of the storage guard as numbers: pressure_decision() and *)
(* assess_capacity() of app/syslog_storage.py, over every configuration    *)
(* that validate() of app/config_tools.py accepts.                         *)
(*                                                                         *)
(* StorageGuard knows free space and usage by one of four levels.  Here    *)
(* they are defined, so that it can be shown that the levels are all that  *)
(* the decisions depend on.  Sizes are in MiB; the fractions 0.8 and 0.75  *)
(* of the budget are exact.                                                *)
(***************************************************************************)
EXTENDS Naturals

\* min_free_mb, syslog_stop_free_mb and syslog_budget_mb, as validate() bounds them.
Retention == [minFree : Nat, stopFree : Nat, budget : Nat \ {0}]

InRange(r) ==
    /\ r.minFree \in 128 .. 1048576
    /\ r.stopFree \in 16 .. 1048575
    /\ r.budget \in 32 .. 1048576

Valid(r) == r \in Retention /\ InRange(r) /\ r.stopFree < r.minFree

ResumeMargin == 128

Warning(r, usage, free) == free < r.minFree \/ 5 * usage >= 4 * r.budget

Critical(r, usage, free) == free < r.stopFree \/ usage >= r.budget

Recovered(r, usage, free) == free > r.minFree + ResumeMargin /\ 4 * usage < 3 * r.budget

PressureDecision(r, usage, free, paused) ==
    [pressure |-> \/ Warning(r, usage, free)
                  \/ Critical(r, usage, free)
                  \/ paused /\ ~Recovered(r, usage, free),
     action |-> IF Critical(r, usage, free) /\ ~paused THEN "pause"
                ELSE IF paused /\ Recovered(r, usage, free) THEN "resume"
                ELSE "none"]

\* assess_capacity() raises when this does not hold.
HasCapacity(r, usage, free) == ~Critical(r, usage, free)

LevelOf(r, usage, free) ==
    IF Critical(r, usage, free) THEN "critical"
    ELSE IF Warning(r, usage, free) THEN "warning"
    ELSE IF Recovered(r, usage, free) THEN "recovered"
    ELSE "band"
=============================================================================
