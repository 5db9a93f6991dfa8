--------------------------- MODULE MCConfigStore ---------------------------
(* ConfigStore on small instances: see the MCConfigStore_*.cfg files. *)
EXTENDS ConfigStore, TLC

CONSTANTS v4, v6, pathA, pathB

\* Two daemons, each with one config file.
OnePathEach == (pathA :> v4) @@ (pathB :> v6)

\* One daemon, and a second file to repoint it to.
TwoPaths == (pathA :> v4) @@ (pathB :> v4)

\* Every config file exists from the start, so that no repoint bootstraps one.
FilesExist == Init /\ (\A p \in Paths : file[p] # Absent) /\ [][Next]_vars

\* Requests differ only in name.
Symmetry == Permutations(Requests)
=============================================================================
