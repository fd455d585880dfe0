--------------------------- MODULE MCSyslogObserver ---------------------------
(* Two processes, each with one or two counted write errors. *)
EXTENDS SyslogObserver
===============================================================================
