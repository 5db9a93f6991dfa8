----------------------------- MODULE MCAccounts -----------------------------
(* Accounts on small instances. *)
EXTENDS Accounts, TLC

\* Browsers differ only in name.
Symmetry == Permutations(Browsers)
=============================================================================
