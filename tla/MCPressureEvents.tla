--------------------------- MODULE MCPressureEvents ---------------------------
(* All three domains, and no bounds. *)
EXTENDS PressureEvents
===============================================================================
