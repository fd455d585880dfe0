---------------------------- MODULE IncidentLedger ----------------------------
(***************************************************************************)
(* What the incident engine promises to readers of its database: incidents *)
(* are opened one at a time, closed once and for all, and forgotten only   *)
(* after they were closed.  Each step is one committed transaction.        *)
(***************************************************************************)
CONSTANTS Incident, NoIncident

VARIABLES
    phase,   \* the life of each incident: "none", "open", "recovered"
    active   \* the open incident, or NoIncident

ledgerVars == <<phase, active>>

Init ==
    /\ phase = [i \in Incident |-> "none"]
    /\ active = NoIncident

Open(i) ==
    /\ active = NoIncident
    /\ phase[i] = "none"
    /\ phase' = [phase EXCEPT ![i] = "open"]
    /\ active' = i

Close ==
    /\ active # NoIncident
    /\ phase' = [phase EXCEPT ![active] = "recovered"]
    /\ active' = NoIncident

Forget(i) ==
    /\ phase[i] = "recovered"
    /\ phase' = [phase EXCEPT ![i] = "none"]
    /\ UNCHANGED active

Next == Close \/ \E i \in Incident : Open(i) \/ Forget(i)

Spec == Init /\ [][Next]_ledgerVars
===============================================================================
