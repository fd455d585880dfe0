------------------------------ MODULE MCIncidents ------------------------------
(* Small instances of Incidents for TLC. *)
EXTENDS Incidents, TLC

CONSTANTS gateway, https, i1, i2

\* Incidents are interchangeable, and so are the probed fields.
Symmetry == Permutations(Incident) \cup Permutations(Fields)
================================================================================
