------------------------- MODULE MCArchiveRetention -------------------------
(* Two files of one source directory, kept for two days.                    *)
EXTENDS ArchiveRetention
=============================================================================
