---------------------------- MODULE MCKeaControl ----------------------------
(* KeaControl on a small instance. *)
EXTENDS KeaControl, TLC

CONSTANTS v4, pathA, pathB

\* One daemon, started with the first file, and a second file to repoint to.
TwoPaths == (pathA :> v4) @@ (pathB :> v4)
StartedWith == v4 :> pathA
=============================================================================
