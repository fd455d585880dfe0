------------------------------ MODULE MCAgentLoop ------------------------------
(* Two of the three domains: the syslog domain has two writers, disk and     *)
(* incident have one and are alike.  A round is half as long as the rate     *)
(* limit, as a round of slow probes is.                                      *)
EXTENDS AgentLoop
===============================================================================
