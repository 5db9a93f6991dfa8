------------------------------ MODULE MCLogIndex ------------------------------
(* LogIndex on small instances: see the MCLogIndex_*.cfg files. *)
EXTENDS LogIndex
=============================================================================
