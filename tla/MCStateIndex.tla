---------------------------- MODULE MCStateIndex ----------------------------
(* StateIndex on small instances: see the MCStateIndex_*.cfg files. *)
EXTENDS StateIndex
=============================================================================
