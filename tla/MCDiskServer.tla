---------------------------- MODULE MCDiskServer ----------------------------
(* Instances of DiskServer for TLC. *)
EXTENDS DiskServer, TLC
=============================================================================
