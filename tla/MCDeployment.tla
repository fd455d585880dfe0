----------------------------- MODULE MCDeployment -----------------------------
(* Deployment has only numbers and strings for its values. *)
EXTENDS Deployment
===============================================================================
