---------------------------- MODULE MCStorageGuard ----------------------------
(* The guard has no parameters and no bounds. *)
EXTENDS StorageGuard
===============================================================================
