---------------------------- MODULE AtomicConfig ----------------------------
(***************************************************************************)
(* What EZ-KEA promises of its config files: each edit is applied once, at *)
(* one instant, to everything the file held; a restore puts back a version *)
(* that was backed up from the same file; a backup is of a version the     *)
(* file really had, or torn by a failing disk; only a failing write or the *)
(* loss of the process damages a file; and a file that is missing when it  *)
(* comes into use is created empty of edits.                               *)
(***************************************************************************)
CONSTANTS Requests, Paths, Faults

VARIABLES
  cfg,      \* cfg[p]: the configuration at path p
  kept,     \* kept[p]: the versions of p in the backup directory
  applied,  \* the edits that have happened
  answered  \* the edits answered with success

vars == <<cfg, kept, applied, answered>>

Whole(S) == [state |-> "whole",   edits |-> S]
Absent   == [state |-> "absent",  edits |-> {}]
Empty    == [state |-> "empty",   edits |-> {}]
Partial  == [state |-> "partial", edits |-> {}]
Skeleton == Whole({})

Init ==
  /\ \E f \in [Paths -> BOOLEAN] :
       cfg = [p \in Paths |-> IF f[p] THEN Whole({p}) ELSE Absent]
  /\ kept = [p \in Paths |-> {}]
  /\ applied = {}
  /\ answered = {}

\* Nothing that the file holds is lost, and the edit is not applied twice.
Edit(p, r) ==
  /\ r \notin applied
  /\ cfg[p] # Partial
  /\ cfg' = [cfg EXCEPT ![p] = Whole(cfg[p].edits \cup {r})]
  /\ applied' = applied \cup {r}
  /\ UNCHANGED <<kept, answered>>

\* Only an edit that has happened is answered with success.
Answer(r) ==
  /\ r \in applied \ answered
  /\ answered' = answered \cup {r}
  /\ UNCHANGED <<cfg, kept, applied>>

\* A backup is taken of the whole file; backups it displaces go.
BackUp(p) ==
  /\ cfg[p] # Absent
  /\ \E S \in SUBSET kept[p] :
       \/ kept' = [kept EXCEPT ![p] = S \cup {cfg[p]}]
       \/ "copy_fails" \in Faults /\ kept' = [kept EXCEPT ![p] = S \cup {Partial}]
  /\ UNCHANGED <<cfg, applied, answered>>

Discard(p) ==
  /\ kept' \in {[kept EXCEPT ![p] = S] : S \in SUBSET kept[p]}
  /\ UNCHANGED <<cfg, applied, answered>>

Restore(p) ==
  /\ cfg' \in {[cfg EXCEPT ![p] = c] : c \in kept[p]}
  /\ UNCHANGED <<kept, applied, answered>>

\* A repoint to a file that does not exist yet bootstraps it.
Create(p) ==
  /\ cfg[p] = Absent
  /\ cfg' = [cfg EXCEPT ![p] = Skeleton]
  /\ UNCHANGED <<kept, applied, answered>>

\* A write that fails half-way, or the loss of the process, after which a
\* file that is missing is created.
Damage ==
  /\ Faults \cap {"write_fails", "crash"} # {}
  /\ \E c \in [Paths -> {Empty, Partial, Skeleton}], S \in SUBSET Paths :
       /\ \A p \in S : c[p] = Skeleton => cfg[p] = Absent
       /\ cfg' = [p \in Paths |-> IF p \in S THEN c[p] ELSE cfg[p]]
  /\ UNCHANGED <<kept, applied, answered>>

Next ==
  \/ \E p \in Paths :
       \/ \E r \in Requests : Edit(p, r)
       \/ BackUp(p) \/ Discard(p) \/ Restore(p) \/ Create(p)
  \/ \E r \in Requests : Answer(r)
  \/ Damage

Spec == Init /\ [][Next]_vars
=============================================================================
