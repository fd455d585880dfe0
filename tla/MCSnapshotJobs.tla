---------------------------- MODULE MCSnapshotJobs ----------------------------
(* Three jobs for two workers: one always waits. *)
EXTENDS SnapshotJobs
===============================================================================
