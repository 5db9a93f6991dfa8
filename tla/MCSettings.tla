----------------------------- MODULE MCSettings -----------------------------
(* Settings on small instances. *)
EXTENDS Settings, TLC

\* Every field is filled in by one form and left blank by another.
SomeForms == {{}, {"paths"}, {"cmd", "ctrl"}, {"cmd", "paths", "ctrl"}}

\* Requests differ only in name.
Symmetry == Permutations(Requests)
=============================================================================
