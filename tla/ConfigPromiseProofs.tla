------------------------ MODULE ConfigPromiseProofs ------------------------
(* What EZ-KEA promises of its config files, proved of ConfigStore for any    *)
(* requests, files and failures: nothing that was answered is lost, and edits *)
(* and restores are atomic.                                                   *)
EXTENDS ConfigStoreProofs

-----------------------------------------------------------------------------
(* Answered edits and what they replaced                                      *)
(*                                                                            *)
(* As long as no restore discards edits on purpose, the clock never names two *)
(* backups alike, and as many are kept as requests come.                      *)

NoRestore     == "restore" \notin Kinds
ClockAdvances == Clock = {}
KeepsAll      == Keep = 0 \/ (IsFiniteSet(Requests) /\ Cardinality(Requests) <= Keep)

\* Only edits and the bootstrap of a file that does not exist reach the write;
\* edits write their own edit, and the file is torn while they do.
OnlyEditsWrite ==
  \A r \in Requests :
    /\ pc[r] = "idle" => kind[r] = "view"
    /\ pc[r] \in InFlight => kind[r] \in {"edit", "backup", "repoint"}
    /\ pc[r] \in {"loaded", "prune"} => kind[r] = "edit"
    /\ pc[r] \in {"open", "dump", "close"} => kind[r] \in {"edit", "repoint"}
    /\ pc[r] = "open" /\ kind[r] = "repoint" => file[path[r]] = Absent
    /\ pc[r] \in Cycle /\ kind[r] = "edit" => r \in buf[r].edits
    /\ pc[r] \in {"dump", "close"} => file[path[r]] \in Torn

LEMMA OnlyEditsWriteStep ==
  ASSUME NoRestore, TypeOK, Pinned, CyclesNeverInterleave, OnlyEditsWrite, [Next]_vars
  PROVE  OnlyEditsWrite'
<1> DEFINE Of(r) ==
      /\ pc[r] = "idle" => kind[r] = "view"
      /\ pc[r] \in InFlight => kind[r] \in {"edit", "backup", "repoint"}
      /\ pc[r] \in {"loaded", "prune"} => kind[r] = "edit"
      /\ pc[r] \in {"open", "dump", "close"} => kind[r] \in {"edit", "repoint"}
      /\ pc[r] = "open" /\ kind[r] = "repoint" => file[path[r]] = Absent
      /\ pc[r] \in Cycle /\ kind[r] = "edit" => r \in buf[r].edits
      /\ pc[r] \in {"dump", "close"} => file[path[r]] \in Torn
<1>0. \A r \in Requests : Of(r)
  BY DEF OnlyEditsWrite
<1>q. ASSUME NEW r \in Requests, RequestStep(r), NEW q \in Requests \ {r} PROVE Of(q)'
  <2>1. /\ pc'[q] = pc[q] /\ kind'[q] = kind[q] /\ path'[q] = path[q] /\ buf'[q] = buf[q]
    BY <1>q, OthersKept
  <2>2. ASSUME pc[q] \in {"open", "dump", "close"} PROVE file'[path'[q]] = file[path[q]]
    <3>1. PICK p \in Paths : p = path[q]
      BY DEF TypeOK
    <3>2. ~(pc[r] \in Cycle /\ path[r] = p)
      BY <1>q, <2>2, <3>1 DEF CyclesNeverInterleave, Cycle
    <3>. QED
      BY <1>q, <2>1, <3>1, <3>2, OtherPathsKept
  <2>. QED
    BY <1>0, <2>1, <2>2
<1>r. ASSUME NEW r \in Requests, RequestStep(r), Of(r)' PROVE OnlyEditsWrite'
  BY <1>r, <1>q DEF OnlyEditsWrite
<1> USE DEF InFlight, PCs, Results, Cycle
<1>1. ASSUME NEW r \in Requests, View(r) \/ Arrive(r) PROVE Of(r)'
  <2>1. CASE View(r)
    <3>1. pc'[r] \in Results
      BY <2>1 DEF View, TypeOK, Goto
    <3>. QED
      BY <3>1
  <2>2. CASE Arrive(r)
    <3>1. pc'[r] = "wait" /\ kind'[r] \in Kinds \ {"view"}
      BY <2>2 DEF Arrive, TypeOK, Goto
    <3>2. kind'[r] \in {"edit", "backup", "repoint"}
      BY <3>1, ConfigStoreAssumption DEF NoRestore, ConfigStoreAssumption, AllKinds
    <3>. QED
      BY <3>1, <3>2
  <2>. QED
    BY <1>1, <2>1, <2>2
<1>2. ASSUME NEW r \in Requests, Acquire(r) \/ Refuse(r) PROVE Of(r)'
  BY <1>2, <1>0 DEF Acquire, Refuse, TypeOK, Goto, Finish, request
<1>3. ASSUME NEW r \in Requests, Load(r) PROVE Of(r)'
  BY <1>3, <1>0 DEF Load, TypeOK, Goto, Finish, Whole, LoadJson
<1>4. ASSUME NEW r \in Requests, BeginSave(r) PROVE Of(r)'
  BY <1>4, <1>0 DEF BeginSave, TypeOK, Goto
<1>5. ASSUME NEW r \in Requests, CopyBackup(r) \/ CopyFails(r) \/ Prune(r) PROVE Of(r)'
  BY <1>5, <1>0 DEF CopyBackup, CopyFails, Prune, TypeOK, Goto, Finish, request
<1>6. ASSUME NEW r \in Requests, SaveOpen(r) \/ SaveDump(r) PROVE Of(r)'
  BY <1>6, <1>0 DEF SaveOpen, SaveDump, TypeOK, Goto, Torn, request
<1>7. ASSUME NEW r \in Requests, SaveClose(r) \/ SaveFails(r) \/ Respond(r) PROVE Of(r)'
  BY <1>7, <1>0 DEF SaveClose, SaveFails, Respond, TypeOK, Goto, Finish, request
<1>8. ASSUME NEW r \in Requests,
             \/ RestorePick(r) \/ RepointCheck(r) \/ RepointPersist(r)
             \/ RepointPersistFails(r) \/ RepointSwitch(r)
      PROVE  Of(r)'
  <2>1. pc[r] \in InFlight /\ kind[r] # "restore" /\ kind'[r] = kind[r]
    BY <1>8, <1>0 DEF RestorePick, RepointCheck, RepointPersist, RepointPersistFails, RepointSwitch, request
  <2>2. pc'[r] \in Results \cup {"persist", "switch", "boot"}
    BY <1>8, <2>1 DEF RestorePick, RepointCheck, RepointPersist, RepointPersistFails, RepointSwitch, TypeOK, Goto, Finish
  <2>. QED
    BY <1>0, <2>1, <2>2
<1>b. ASSUME NEW r \in Requests, Bootstrap(r) PROVE Of(r)'
  <2>1. /\ pc[r] = "boot" /\ kind[r] = "repoint" /\ kind'[r] = kind[r]
        /\ path'[r] = path[r] /\ file' = file
    BY <1>b DEF Bootstrap, Pinned, disk
  <2>2. pc'[r] = "ok" \/ (pc'[r] = "open" /\ file[path[r]] = Absent)
    BY <1>b, <2>1 DEF Bootstrap, TypeOK, Goto, Finish, Pinned
  <2>. QED
    BY <1>0, <2>1, <2>2
<1>9. CASE Crash
  BY <1>9, <1>0 DEF OnlyEditsWrite, Crash, Restart, TypeOK, request
<1>10. CASE Quiescent \/ UNCHANGED vars
  <2>1. UNCHANGED vars
    BY <1>10 DEF Quiescent
  <2>. QED
    BY <1>0, <2>1 DEF OnlyEditsWrite, vars, disk, request
<1>. QED
  BY <1>r, <1>1, <1>2, <1>3, <1>4, <1>5, <1>6, <1>7, <1>8, <1>b, <1>9, <1>10
     DEF Next, Serve, RequestStep

\* Each request makes one backup at most.
Copied == {r \in Requests : pc[r] \in {"prune", "open", "dump", "close"} \cup Over}

CountedBackups ==
  IsFiniteSet(Requests) =>
    IsFiniteSet(backups) /\ Cardinality(backups) <= Cardinality(Copied)

\* A request that has made its backup is never counted again.
LEMMA CopiedGrows ==
  ASSUME TypeOK, Pinned, [Next]_vars
  PROVE  /\ Copied \subseteq Copied'
         /\ \A r \in Requests : (CopyBackup(r) \/ CopyFails(r)) =>
              r \notin Copied /\ r \in Copied'
<1>1. ASSUME NEW r \in Requests, NEW q \in Requests, RequestStep(r), q \in Copied PROVE q \in Copied'
  <2>1. CASE q # r
    BY <1>1, <2>1, OthersKept DEF Copied
  <2>3. CASE q = r /\ pc[r] = "answer"
    BY <1>1, <2>3, AnswerKept DEF Copied, Over, Results
  <2>2. CASE q = r /\ pc[r] # "answer"
    <3>1. CycleStep(r) /\ pc[r] \in {"prune", "open", "dump", "close"}
      BY <1>1, <2>2, CycleKept DEF Copied, Cycle, Over, Results
    <3>2. \/ Prune(r) \/ SaveOpen(r) \/ SaveDump(r) \/ SaveClose(r) \/ SaveFails(r)
      BY <3>1 DEF CycleStep, Refuse, BeginSave, CopyBackup, CopyFails
    <3>. QED
      BY <2>2, <3>2 DEF Prune, SaveOpen, SaveDump, SaveClose, SaveFails, Copied, TypeOK,
                        Goto, Finish, Over, Results
  <2>. QED
    BY <2>1, <2>2, <2>3
<1>2. Crash => Copied \subseteq Copied'
  BY DEF Crash, Restart, Copied, TypeOK, InFlight, PCs, Over, Results
<1>3. Quiescent \/ UNCHANGED vars => Copied \subseteq Copied'
  BY DEF Quiescent, vars, Copied
<1>4. Copied \subseteq Copied'
  BY <1>1, <1>2, <1>3 DEF Next, RequestStep, Copied
<1>5. ASSUME NEW r \in Requests, CopyBackup(r) \/ CopyFails(r)
      PROVE  r \notin Copied /\ r \in Copied'
  BY <1>5 DEF CopyBackup, CopyFails, Copied, TypeOK, Goto, Finish, Over, Results
<1>. QED
  BY <1>4, <1>5

\* A step adds one backup at most, and then by a request that copies.
LEMMA BackupsGrow ==
  ASSUME [Next]_vars
  PROVE  \/ backups' \subseteq backups
         \/ \E r \in Requests : /\ CopyBackup(r) \/ CopyFails(r)
                                /\ \E b : backups' \subseteq backups \cup {b}
  BY DEF Next, Serve, View, Arrive, Acquire, Load, Refuse, BeginSave, CopyBackup, CopyFails,
         Prune, SaveOpen, SaveDump, SaveClose, SaveFails, Respond, RestorePick, RepointCheck,
         RepointPersist, RepointPersistFails, RepointSwitch, Bootstrap, Crash, Restart, Quiescent, vars, disk,
         WithBackup

LEMMA CountedBackupsStep ==
  ASSUME TypeOK, Pinned, CountedBackups, [Next]_vars
  PROVE  CountedBackups'
<1> SUFFICES ASSUME IsFiniteSet(Requests)
             PROVE  IsFiniteSet(backups') /\ Cardinality(backups') <= Cardinality(Copied')
  BY DEF CountedBackups
<1>1. IsFiniteSet(backups) /\ Cardinality(backups) <= Cardinality(Copied)
  BY DEF CountedBackups
<1>2. Copied \in SUBSET Copied' /\ Copied' \in SUBSET Requests
  BY CopiedGrows DEF Copied
<1>3. IsFiniteSet(Copied') /\ IsFiniteSet(Copied)
  BY <1>2, FS_Subset
<1>4. /\ Cardinality(backups) \in Nat /\ Cardinality(Copied) \in Nat
      /\ Cardinality(Copied') \in Nat /\ Cardinality(Copied) <= Cardinality(Copied')
  BY <1>1, <1>2, <1>3, FS_CardinalityType, FS_Subset
<1>5. CASE backups' \subseteq backups
  <2>1. backups' \in SUBSET backups
    BY <1>5
  <2>2. /\ IsFiniteSet(backups') /\ Cardinality(backups') <= Cardinality(backups)
        /\ Cardinality(backups') \in Nat
    BY <1>1, <2>1, FS_Subset, FS_CardinalityType
  <2>. QED
    BY <1>1, <1>4, <2>2
<1>6. ASSUME NEW r \in Requests, CopyBackup(r) \/ CopyFails(r),
             NEW b, backups' \subseteq backups \cup {b}
      PROVE  IsFiniteSet(backups') /\ Cardinality(backups') <= Cardinality(Copied')
  <2>1. /\ IsFiniteSet(backups \cup {b})
        /\ Cardinality(backups \cup {b}) <= Cardinality(backups) + 1
    <3>1. /\ IsFiniteSet(backups \cup {b})
          /\ Cardinality(backups \cup {b}) =
               IF b \in backups THEN Cardinality(backups) ELSE Cardinality(backups) + 1
      BY <1>1, FS_AddElement
    <3>. QED
      BY <1>4, <3>1
  <2>2. backups' \in SUBSET (backups \cup {b})
    BY <1>6
  <2>3. IsFiniteSet(backups') /\ Cardinality(backups') <= Cardinality(backups \cup {b})
    BY <2>1, <2>2, FS_Subset
  <2>4. r \notin Copied /\ r \in Copied'
    BY <1>6, CopiedGrows
  <2>5. Cardinality(Copied) # Cardinality(Copied')
    BY <1>2, <1>3, <2>4, FS_Subset
  <2>6. Cardinality(backups') \in Nat /\ Cardinality(backups \cup {b}) \in Nat
    BY <2>1, <2>3, FS_CardinalityType
  <2>. QED
    BY <1>1, <1>4, <2>1, <2>3, <2>5, <2>6
<1>. QED
  BY <1>5, <1>6, BackupsGrow

\* Then there is never a backup to prune.
LEMMA NothingStale ==
  ASSUME KeepsAll, TypeOK, CountedBackups, NEW p
  PROVE  Stale(p) = {}
<1> SUFFICES ASSUME Keep > 0, NEW b \in BackupsOf(p),
                    Cardinality({c \in BackupsOf(p) : c.stamp > b.stamp}) >= Keep
             PROVE  FALSE
  BY DEF Stale
<1> DEFINE later == {c \in BackupsOf(p) : c.stamp > b.stamp}
<1>1. IsFiniteSet(Requests) /\ Cardinality(Requests) <= Keep /\ Keep \in Nat
  BY ConfigStoreAssumption DEF KeepsAll, ConfigStoreAssumption
<1>2. IsFiniteSet(backups) /\ Cardinality(backups) <= Cardinality(Copied)
  BY <1>1 DEF CountedBackups
<1>3. Copied \in SUBSET Requests
  BY DEF Copied
<1>4. Cardinality(Copied) <= Cardinality(Requests) /\ IsFiniteSet(Copied)
  BY <1>1, <1>3, FS_Subset
<1>5. b \in backups /\ b.stamp \in Nat
  BY DEF BackupsOf, TypeOK
<1>6. later \in SUBSET (backups \ {b})
  BY <1>5 DEF BackupsOf
<1>7. IsFiniteSet(backups \ {b}) /\ Cardinality(backups \ {b}) = Cardinality(backups) - 1
  BY <1>2, <1>5, FS_RemoveElement
<1>8. IsFiniteSet(later) /\ Cardinality(later) <= Cardinality(backups \ {b})
  BY <1>6, <1>7, FS_Subset
<1>9. /\ Cardinality(later) \in Nat /\ Cardinality(backups) \in Nat
      /\ Cardinality(Copied) \in Nat /\ Cardinality(Requests) \in Nat
  BY <1>1, <1>2, <1>4, <1>8, FS_CardinalityType
<1>10. Cardinality(later) >= Keep
  OBVIOUS
<1> HIDE DEF later
<1>. QED
  BY <1>1, <1>2, <1>4, <1>7, <1>8, <1>9, <1>10

\* Backups are never removed or replaced.
LEMMA BackupsStay ==
  ASSUME KeepsAll, ClockAdvances, TypeOK, CountedBackups, BackedUp, [Next]_vars
  PROVE  backups \subseteq backups'
<1>1. \A t \in ClockReadings : t = now + 1
  BY DEF ClockReadings, ClockAdvances
<1>2. \A b \in backups : b.stamp <= now /\ b.stamp \in Nat /\ now \in Nat
  BY DEF BackedUp, TypeOK
<1>3. ASSUME NEW p, NEW t \in ClockReadings, NEW c PROVE backups \subseteq WithBackup(p, t, c)
  <2>1. \A b \in backups : b.stamp # t
    BY <1>1, <1>2
  <2>. QED
    BY <2>1 DEF WithBackup
<1>4. \A r \in Requests : CopyBackup(r) \/ CopyFails(r) => backups \subseteq backups'
  BY <1>3 DEF CopyBackup, CopyFails
<1>5. \A r \in Requests : Prune(r) => backups' = backups
  BY NothingStale DEF Prune
<1>. QED
  BY <1>4, <1>5 DEF Next, Serve, View, Arrive, Acquire, Load, Refuse, BeginSave, SaveOpen,
     SaveDump, SaveClose, SaveFails, Respond, RestorePick, RepointCheck, RepointPersist,
     RepointPersistFails, RepointSwitch, Bootstrap, Crash, Restart, Quiescent, vars, disk

\* What holds together: the last two are the theorems' own invariants.
Lasting ==
  /\ OnlyEditsWrite
  /\ CountedBackups
  /\ EveryReplacedVersionKept
  /\ \A r \in Requests : Written(r) =>
       \/ r \in file[path[r]].edits
       \/ \E b \in BackupsOf(path[r]) : r \in b.content.edits

\* An edit written in full stays as it was, and is written by closing its file.
LEMMA WrittenStays ==
  ASSUME TypeOK, Pinned, NoRestore, OnlyEditsWrite, NEW q \in Requests, RequestStep(q),
         NEW r \in Requests, Written(r)'
  PROVE  /\ path'[r] = path[r] /\ kind[r] = "edit" /\ before'[r] = before[r]
         /\ \/ Written(r) /\ (r # q \/ UNCHANGED <<file, backups>>)
            \/ SaveClose(r) /\ r = q
<1>1. CASE r # q
  BY <1>1, OthersKept DEF Written
<1>2. CASE r = q
  <2>1. pc[r] # "idle"
    BY <1>2 DEF RequestStep, Serve, View, Arrive, Acquire, Load, Refuse, BeginSave, CopyBackup,
         CopyFails, Prune, SaveOpen, SaveDump, SaveClose, SaveFails, Respond, RestorePick,
         RepointCheck, RepointPersist, RepointPersistFails, RepointSwitch, Bootstrap,
         OnlyEditsWrite, TypeOK, Goto, Finish, Written
  <2>2. ~Bootstrap(r)
    BY <1>2 DEF Bootstrap, Pinned, InFlight, PCs, Results, Written
  <2>3. SaveClose(r) \/ Respond(r)
    BY <1>2, <2>1, <2>2 DEF RequestStep, Serve, View, Arrive, Acquire, Load, Refuse, BeginSave,
         CopyBackup, CopyFails, Prune, SaveOpen, SaveDump, SaveFails, RestorePick,
         RepointCheck, RepointPersist, RepointPersistFails, RepointSwitch, TypeOK, Goto, Finish,
         request, Written
  <2>. QED
    BY <1>2, <2>3 DEF SaveClose, Respond, request, disk, Written
<1>. QED
  BY <1>1, <1>2

LEMMA LastingStep ==
  ASSUME NoRestore, ClockAdvances, KeepsAll, TypeOK, Pinned,
         CyclesNeverInterleave, BackedUp, Lasting, [Next]_vars
  PROVE  Lasting'
<1> DEFINE InBackup(r) == \E b \in BackupsOf(path[r]) : r \in b.content.edits
           Survives(r) == r \in file[path[r]].edits \/ InBackup(r)
<1>1. OnlyEditsWrite' /\ CountedBackups'
  BY OnlyEditsWriteStep, CountedBackupsStep DEF Lasting
<1>2. backups \subseteq backups'
  BY BackupsStay DEF Lasting
<1>s. ASSUME EveryReplacedVersionKept', \A r \in Requests : Written(r)' => Survives(r)'
      PROVE  Lasting'
  BY <1>1, <1>s DEF Lasting
<1>3. ASSUME NEW q \in Requests, RequestStep(q) PROVE Lasting'
  <2>1. EveryReplacedVersionKept'
    <3> SUFFICES ASSUME NEW r \in Requests, Written(r)', before'[r].state = "whole"
                 PROVE  (\E b \in BackupsOf(path[r]) : b.content = before[r])'
      BY DEF EveryReplacedVersionKept
    <3>1. /\ path'[r] = path[r] /\ before'[r] = before[r] /\ kind[r] = "edit"
          /\ Written(r) \/ SaveClose(r)
      BY <1>3, WrittenStays DEF Lasting
    <3>2. CASE Written(r)
      BY <1>2, <3>1, <3>2 DEF Lasting, EveryReplacedVersionKept, BackupsOf
    <3>3. CASE SaveClose(r)
      <4>1. before[r] # Absent
        BY <3>1 DEF Absent
      <4>2. \E b \in Newest(path[r]) : b.content = before[r]
        BY <3>1, <3>3, <4>1 DEF SaveClose, BackedUp, Recoverable
      <4>. QED
        BY <1>2, <3>1, <4>2 DEF Newest, BackupsOf
    <3>. QED
      BY <3>1, <3>2, <3>3
  <2>2. ASSUME NEW r \in Requests, Written(r)' PROVE Survives(r)'
    <3>1. /\ path'[r] = path[r] /\ kind[r] = "edit"
          /\ \/ Written(r) /\ (r # q \/ UNCHANGED <<file, backups>>)
             \/ SaveClose(r) /\ r = q
      BY <1>3, <2>2, WrittenStays DEF Lasting
    <3>2. CASE SaveClose(r) /\ r = q
      <4>1. \A x \in Requests \ {r} : ~(pc[x] \in {"dump", "close"} /\ path[x] = path[r])
        BY <3>2 DEF CyclesNeverInterleave, SaveClose, Cycle
      <4>2. file' = [file EXCEPT ![path[r]] = buf[r]]
        BY <3>2, <4>1 DEF SaveClose
      <4>3. r \in buf[r].edits
        BY <3>1, <3>2 DEF Lasting, OnlyEditsWrite, SaveClose, Cycle
      <4>. QED
        BY <3>1, <4>2, <4>3 DEF TypeOK
    <3>4. CASE Written(r) /\ UNCHANGED <<file, backups>>
      BY <3>1, <3>4 DEF Lasting, BackupsOf
    <3>3. CASE Written(r) /\ r # q
      <4>1. InBackup(r) => InBackup(r)'
        BY <1>2, <3>1 DEF BackupsOf
      <4>2. PICK p \in Paths : p = path[r]
        BY DEF TypeOK
      <4>3. CASE file'[p] = file[p]
        BY <3>1, <3>3, <4>1, <4>2, <4>3 DEF Lasting
      <4>4. CASE file'[p] # file[p] /\ r \in file[p].edits
        <5>1. pc[q] \in Cycle /\ path[q] = p
          BY <1>3, <4>4, OtherPathsKept
        <5>2. SaveOpen(q) \/ SaveDump(q) \/ SaveClose(q)
          BY <1>3, <4>4, <5>1, CycleKept DEF CycleStep, Refuse, BeginSave, CopyBackup, CopyFails,
             Prune, SaveFails, disk
        <5>3. SaveOpen(q) /\ kind[q] = "edit"
          <6>1. \A c \in Torn : c.edits = {}
            BY NoEdits
          <6>2. file[p].edits # Absent.edits
            BY <4>4, NoEdits
          <6>. QED
            BY <4>4, <5>1, <5>2, <6>1, <6>2 DEF Lasting, OnlyEditsWrite, SaveOpen, SaveDump, SaveClose
        <5>4. file[p] # Absent
          BY <4>4, NoEdits
        <5>5. \E b \in Newest(p) : b.content = file[p]
          BY <5>1, <5>3, <5>4 DEF BackedUp, SaveOpen
        <5>6. InBackup(r)
          BY <4>2, <4>4, <5>5 DEF Newest
        <5>. QED
          BY <4>1, <5>6
      <4>5. CASE r \notin file[p].edits
        BY <3>1, <3>3, <4>1, <4>2, <4>5 DEF Lasting
      <4>. QED
        BY <4>3, <4>4, <4>5
    <3>. QED
      BY <3>1, <3>2, <3>3, <3>4
  <2>. QED
    BY <1>s, <2>1, <2>2
<1>4. CASE Crash
  <2>1. /\ UNCHANGED <<backups, kind, path, before>>
        /\ \A r \in Requests : Written(r)' => Written(r)
        /\ \A p \in Paths : file[p].edits \subseteq file'[p].edits
    BY <1>4, NoEdits DEF Crash, Restart, request, TypeOK, Written
  <2>2. EveryReplacedVersionKept'
    BY <2>1 DEF Lasting, EveryReplacedVersionKept, BackupsOf
  <2>3. ASSUME NEW r \in Requests, Written(r)' PROVE Survives(r)'
    BY <2>1, <2>3 DEF Lasting, BackupsOf, TypeOK
  <2>. QED
    BY <1>s, <2>2, <2>3
<1>5. CASE Quiescent \/ UNCHANGED vars
  <2>1. UNCHANGED <<file, backups, pc, kind, path, before>>
    BY <1>5 DEF Quiescent, vars, disk, request
  <2>2. EveryReplacedVersionKept'
    BY <2>1 DEF Lasting, EveryReplacedVersionKept, BackupsOf, Written
  <2>3. ASSUME NEW r \in Requests, Written(r)' PROVE Survives(r)'
    BY <2>1, <2>3 DEF Lasting, BackupsOf, Written
  <2>. QED
    BY <1>s, <2>2, <2>3
<1>. QED
  BY <1>3, <1>4, <1>5 DEF Next, RequestStep

LEMMA AlwaysLasting ==
  ASSUME NoRestore, ClockAdvances, KeepsAll
  PROVE  Spec /\ []RepointsAlone => []Lasting
<1>1. Init => Lasting
  <2>1. Init => CountedBackups
    <3> SUFFICES ASSUME Init, IsFiniteSet(Requests)
                 PROVE  IsFiniteSet(backups) /\ Cardinality(backups) <= Cardinality(Copied)
      BY DEF CountedBackups
    <3>1. Copied \in SUBSET Requests
      BY DEF Copied
    <3>2. Cardinality(Copied) \in Nat
      BY <3>1, FS_Subset, FS_CardinalityType
    <3>. QED
      BY <3>2, FS_EmptySet DEF Init
  <2>. QED
    BY <2>1 DEF Init, Lasting, OnlyEditsWrite, EveryReplacedVersionKept, InFlight, PCs,
                Results, Cycle, Written
<1>2. Init => BackedUp
  BY DEF Init, BackedUp, Recoverable
<1>3. NeverSetBack
  BY DEF NeverSetBack, ClockAdvances
<1>4. TypeOK /\ Pinned /\ CyclesNeverInterleave /\ BackedUp /\ [Next]_vars => BackedUp'
  BY <1>3, BackedUpStep
<1>5. /\ TypeOK /\ Pinned /\ CyclesNeverInterleave /\ BackedUp /\ Lasting /\ [Next]_vars
      => Lasting'
  BY LastingStep
<1>. QED
  BY <1>1, <1>2, <1>4, <1>5, TypeCorrect, AlwaysPinned, NoInterleaving, PTL DEF Spec

\* An edit written in full, answered or not yet, is never lost for good, however many writes are
\* torn, fail or die, and wherever EZ-KEA is repointed meanwhile: it is in the
\* file, or in a backup of it (save_kea_config, bootstrap_config).
THEOREM AnsweredEditsLast ==
  ASSUME NoRestore, ClockAdvances, KeepsAll
  PROVE  Spec /\ []RepointsAlone => []AnsweredEditsSurvive
<1>1. Lasting => AnsweredEditsSurvive
  BY DEF Lasting, AnsweredEditsSurvive
<1>. QED
  BY <1>1, AlwaysLasting, PTL

\* And what each of them replaced is in the backup directory (README.md:132).
THEOREM ReplacedVersionsLast ==
  ASSUME NoRestore, ClockAdvances, KeepsAll
  PROVE  Spec /\ []RepointsAlone => []EveryReplacedVersionKept
<1>1. Lasting => EveryReplacedVersionKept
  BY DEF Lasting
<1>. QED
  BY <1>1, AlwaysLasting, PTL

\* In particular, as long as nobody repoints.
COROLLARY LastingWithoutRepoints ==
  ASSUME NoRepoint, NoRestore, ClockAdvances, KeepsAll
  PROVE  Spec => [](AnsweredEditsSurvive /\ EveryReplacedVersionKept)
  BY AnsweredEditsLast, ReplacedVersionsLast, NoRepointIsAlone, PTL

-----------------------------------------------------------------------------
(* Atomicity: the requests implement AtomicConfig                            *)

\* The versions of p in the backup directory.
VersionsKept(p) == {b.content : b \in BackupsOf(p)}

\* What r's write replaces.
Replaced(r) == IF pc[r] \in {"dump", "close"} THEN before[r] ELSE file[path[r]]

\* Where a request stands in its cycle: an edit is about to write what its file
\* held and itself, a restore a backup of its file, a repoint the skeleton to a
\* file that is missing; whoever writes has torn it.
InCycle(r) ==
  /\ pc[r] = "idle" => kind[r] = "view"
  /\ pc[r] \in {"loaded", "prune"} => kind[r] = "edit"
  /\ pc[r] = "copy" => kind[r] \in {"edit", "backup"}
  /\ pc[r] \in {"open", "dump", "close"} => kind[r] \in {"edit", "restore", "repoint"}
  /\ pc[r] \in {"dump", "close"} => file[path[r]] \in Torn
  /\ pc[r] \in Cycle /\ kind[r] = "edit" =>
       Replaced(r) # Partial /\ buf[r] = Whole(Replaced(r).edits \cup {r})
  /\ pc[r] \in Cycle /\ kind[r] = "restore" => buf[r] \in VersionsKept(path[r])
  /\ pc[r] \in Cycle /\ kind[r] = "repoint" => Replaced(r) = Absent /\ buf[r] = Skeleton

WritesInPlace == \A r \in Requests : InCycle(r)

LEMMA StatesDiffer ==
  /\ Absent # Empty /\ Absent # Partial /\ Empty # Partial
  /\ \A S : Whole(S) # Absent /\ Whole(S) # Empty /\ Whole(S) # Partial
  /\ Absent \notin Torn
  BY DEF Absent, Empty, Partial, Whole, Torn

\* Another request's step does not disturb a request's cycle.
LEMMA InCycleOthers ==
  ASSUME TypeOK, Pinned, CyclesNeverInterleave, NEW r \in Requests, RequestStep(r),
         NEW q \in Requests \ {r}, InCycle(q)
  PROVE  InCycle(q)'
<1>1. /\ pc'[q] = pc[q] /\ kind'[q] = kind[q] /\ path'[q] = path[q] /\ buf'[q] = buf[q]
      /\ before'[q] = before[q]
  BY OthersKept
<1>2. CASE pc[q] \in Cycle
  <2>1. PICK p \in Paths : p = path[q]
    BY DEF TypeOK
  <2>2. file'[p] = file[p] /\ BackupsOf(p)' = BackupsOf(p)
    BY <1>2, <2>1, OtherPathsKept DEF CyclesNeverInterleave
  <2>3. Replaced(q)' = Replaced(q) /\ VersionsKept(p)' = VersionsKept(p)
    BY <1>1, <2>1, <2>2 DEF Replaced, VersionsKept
  <2>. QED
    BY <1>1, <2>1, <2>2, <2>3 DEF InCycle, VersionsKept
<1>3. CASE pc[q] \notin Cycle
  BY <1>1, <1>3 DEF InCycle, Cycle
<1>. QED
  BY <1>2, <1>3

\* A request's own step takes it to the next stage.
LEMMA InCycleOwn ==
  ASSUME TypeOK, Pinned, CyclesNeverInterleave, NEW r \in Requests, RequestStep(r),
         InCycle(r)
  PROVE  InCycle(r)'
<1> USE DEF InFlight, PCs, Results, Cycle
<1>1. CASE View(r) \/ Arrive(r)
  BY <1>1 DEF View, Arrive, TypeOK, Goto, InCycle
<1>2. CASE Acquire(r)
  BY <1>2 DEF Acquire, TypeOK, Goto, InCycle, request, Pinned
<1>3. CASE Load(r)
  <2>1. /\ path'[r] = conf[ver[r]] /\ kind'[r] = "edit" /\ UNCHANGED file
        /\ pc'[r] \in {"loaded", "failed"}
        /\ pc'[r] = "loaded" => /\ file[conf[ver[r]]].state # "partial"
                                /\ buf'[r] = Whole(file[conf[ver[r]]].edits \cup {r})
    BY <1>3 DEF Load, TypeOK, Goto, Finish, Parses, LoadJson, Whole, disk
  <2>. QED
    BY <2>1 DEF InCycle, Replaced, Partial
<1>4. CASE Refuse(r) \/ SaveFails(r)
  BY <1>4 DEF Refuse, SaveFails, TypeOK, Finish, InCycle
<1>5. CASE BeginSave(r)
  <2>1. /\ path'[r] = path[r] /\ UNCHANGED <<file, kind, buf>>
        /\ pc'[r] \in {"copy", "open"}
    BY <1>5 DEF BeginSave, TypeOK, Goto, Pinned, disk
  <2>. QED
    BY <1>5, <2>1 DEF BeginSave, InCycle, Replaced
<1>6. CASE CopyBackup(r) \/ CopyFails(r)
  <2>1. /\ UNCHANGED <<file, kind, buf, path>> /\ pc[r] = "copy"
        /\ pc'[r] \in {"answer"} \cup Results \/ (pc'[r] = "prune" /\ kind[r] = "edit")
    BY <1>6 DEF CopyBackup, CopyFails, TypeOK, Goto, Finish, request
  <2>. QED
    BY <2>1 DEF InCycle, Replaced
<1>7. CASE Prune(r)
  <2>1. UNCHANGED <<file, kind, buf, path>> /\ pc[r] = "prune" /\ pc'[r] = "open"
    BY <1>7 DEF Prune, TypeOK, Goto, request
  <2>. QED
    BY <2>1 DEF InCycle, Replaced
<1>8. CASE SaveOpen(r)
  <2>1. /\ UNCHANGED <<backups, kind, buf, path>> /\ pc[r] = "open" /\ pc'[r] = "dump"
        /\ before'[r] = file[path[r]] /\ file'[path[r]] = Empty
    BY <1>8 DEF SaveOpen, TypeOK, Goto
  <2>. QED
    BY <2>1 DEF InCycle, Replaced, Torn, VersionsKept, BackupsOf
<1>9. CASE SaveDump(r)
  <2>1. /\ UNCHANGED <<backups, kind, buf, path, before>> /\ pc[r] = "dump" /\ pc'[r] = "close"
        /\ file'[path[r]] \in Torn
    BY <1>9 DEF SaveDump, TypeOK, Goto, request
  <2>. QED
    BY <2>1 DEF InCycle, Replaced, VersionsKept, BackupsOf
<1>10. CASE SaveClose(r) \/ Respond(r)
  BY <1>10 DEF SaveClose, Respond, TypeOK, Goto, Finish, InCycle
<1>11. CASE RestorePick(r)
  <2>1. /\ UNCHANGED <<backups, kind, path>> /\ kind[r] = "restore"
        /\ \/ pc'[r] = "refused"
           \/ pc'[r] = "open" /\ \E b \in Newest(path[r]) : buf'[r] = b.content
    BY <1>11 DEF RestorePick, TypeOK, Goto, Finish, disk
  <2>. QED
    BY <2>1 DEF InCycle, VersionsKept, BackupsOf, Newest
<1>12. CASE RepointCheck(r) \/ RepointPersist(r) \/ RepointPersistFails(r) \/ RepointSwitch(r)
  <2>1. pc'[r] \in Results \cup {"persist", "switch", "boot"}
    BY <1>12 DEF RepointCheck, RepointPersist, RepointPersistFails, RepointSwitch, TypeOK, Goto, Finish
  <2>. QED
    BY <2>1 DEF InCycle
<1>13. CASE Bootstrap(r)
  <2>1. /\ kind'[r] = "repoint" /\ path'[r] = target[r] /\ UNCHANGED file
        /\ \/ pc'[r] = "ok"
           \/ pc'[r] = "open" /\ file[target[r]] = Absent /\ buf'[r] = Skeleton
    BY <1>13 DEF Bootstrap, TypeOK, Goto, Finish, Pinned, disk
  <2>. QED
    BY <2>1 DEF InCycle, Replaced
<1>. QED
  BY <1>1, <1>2, <1>3, <1>4, <1>5, <1>6, <1>7, <1>8, <1>9, <1>10, <1>11, <1>12,
     <1>13 DEF RequestStep, Serve

\* A restart creates the files in use that are missing, and changes no other.
LEMMA OnlyBootstrapped ==
  ASSUME TypeOK, Restart
  PROVE  /\ UNCHANGED backups
         /\ \A p \in Paths : \/ file'[p] = file[p]
                             \/ file[p] = Absent /\ file'[p] = Skeleton
  BY DEF Restart, TypeOK

LEMMA WritesInPlaceStep ==
  ASSUME TypeOK, Pinned, CyclesNeverInterleave, WritesInPlace, [Next]_vars
  PROVE  WritesInPlace'
<1>1. ASSUME NEW r \in Requests, RequestStep(r) PROVE WritesInPlace'
  BY <1>1, InCycleOthers, InCycleOwn DEF WritesInPlace
<1>2. CASE Crash
  <2>1. ASSUME NEW r \in Requests PROVE InCycle(r)'
    <3>1. (pc'[r] = pc[r] \/ pc'[r] \in {"dead", "cut"}) /\ pc'[r] \notin Cycle
      BY <1>2 DEF Crash, Restart, TypeOK, InFlight, PCs, Results, Cycle
    <3>2. UNCHANGED kind
      BY <1>2 DEF Crash, Restart, request
    <3>. QED
      BY <3>1, <3>2 DEF WritesInPlace, InCycle, Cycle
  <2>. QED
    BY <2>1 DEF WritesInPlace
<1>3. CASE Quiescent \/ UNCHANGED vars
  <2>1. UNCHANGED vars
    BY <1>3 DEF Quiescent
  <2>. QED
    BY <2>1 DEF WritesInPlace, InCycle, Replaced, VersionsKept, BackupsOf, vars,
                disk, process, request
<1>. QED
  BY <1>1, <1>2, <1>3 DEF Next, RequestStep

LEMMA AlwaysInPlace == Spec /\ []RepointsAlone => []WritesInPlace
<1>1. Init => WritesInPlace
  BY DEF Init, WritesInPlace, InCycle, Cycle
<1>2. /\ TypeOK /\ Pinned /\ CyclesNeverInterleave /\ WritesInPlace /\ [Next]_vars
      => WritesInPlace'
  BY WritesInPlaceStep
<1>. QED
  BY <1>1, <1>2, TypeCorrect, AlwaysPinned, NoInterleaving, PTL DEF Spec

\* With one writer at most, a file counts as what the writer replaces, or itself.
LEMMA SettledIs ==
  ASSUME CyclesNeverInterleave
  PROVE  /\ \A p : (\A r \in Requests : ~Writing(r, p)) => Settled(p) = file[p]
         /\ \A p, r : r \in Requests /\ Writing(r, p) => Settled(p) = before[r]
<1>1. \A p, r, q : (r \in Requests /\ q \in Requests /\ Writing(r, p) /\ Writing(q, p)) => r = q
  BY DEF CyclesNeverInterleave, Writing, Cycle
<1>2. ASSUME NEW p, NEW r \in Requests, Writing(r, p) PROVE Settled(p) = before[r]
  <2>1. (CHOOSE q \in Requests : Writing(q, p)) = r
    BY <1>1, <1>2
  <2>. QED
    BY <1>2, <2>1 DEF Settled
<1>3. ASSUME NEW p, \A r \in Requests : ~Writing(r, p) PROVE Settled(p) = file[p]
  BY <1>3 DEF Settled
<1>. QED
  BY <1>2, <1>3

\* The same in the next state.
LEMMA SettledIsNext ==
  ASSUME CyclesNeverInterleave'
  PROVE  /\ \A p : (\A r \in Requests : ~Writing(r, p)') => Settled(p)' = file'[p]
         /\ \A p, r : r \in Requests /\ Writing(r, p)' => Settled(p)' = before'[r]
<1>1. \A p, r, q : (r \in Requests /\ q \in Requests /\ Writing(r, p)' /\ Writing(q, p)')
                     => r = q
  BY DEF CyclesNeverInterleave, Writing, Cycle
<1>2. ASSUME NEW p, NEW r \in Requests, Writing(r, p)' PROVE Settled(p)' = before'[r]
  <2>1. (CHOOSE q \in Requests : Writing(q, p)') = r
    BY <1>1, <1>2
  <2>. QED
    BY <1>2, <2>1 DEF Settled
<1>3. ASSUME NEW p, \A r \in Requests : ~Writing(r, p)' PROVE Settled(p)' = file'[p]
  BY <1>3 DEF Settled
<1>. QED
  BY <1>2, <1>3

\* A step changes at most the file its request's cycle works on.
LEMMA SettledElsewhere ==
  ASSUME TypeOK, Pinned, CyclesNeverInterleave, CyclesNeverInterleave',
         NEW r \in Requests, RequestStep(r), NEW p \in Paths, ~(pc[r] \in Cycle /\ path[r] = p)
  PROVE  Settled(p)' = Settled(p) /\ VersionsKept(p)' = VersionsKept(p)
<1>1. file'[p] = file[p] /\ BackupsOf(p)' = BackupsOf(p)
  BY OtherPathsKept
<1>2. \A q \in Requests \ {r} : Writing(q, p)' = Writing(q, p) /\ before'[q] = before[q]
  BY OthersKept DEF Writing
<1>3. ~Writing(r, p)
  BY DEF Writing, Cycle
<1>4. ~Writing(r, p)'
  <2>1. CASE pc[r] \in Cycle
    BY <2>1, CycleKept DEF Writing
  <2>2. CASE pc[r] \notin Cycle
    <3>1. pc'[r] \notin {"dump", "close"}
      BY <2>2 DEF RequestStep, Serve, View, Arrive, Acquire, Load, Refuse, BeginSave, CopyBackup,
           CopyFails, Prune, SaveOpen, SaveDump, SaveClose, SaveFails, Respond, RestorePick,
           RepointCheck, RepointPersist, RepointPersistFails, RepointSwitch, Bootstrap, TypeOK, Goto, Finish, Cycle
    <3>. QED
      BY <3>1 DEF Writing
  <2>. QED
    BY <2>1, <2>2
<1>5. Settled(p)' = Settled(p)
  <2>1. CASE \E q \in Requests : Writing(q, p)
    <3>1. PICK q \in Requests : Writing(q, p)
      BY <2>1
    <3>2. Writing(q, p)' /\ before'[q] = before[q]
      BY <1>2, <1>3, <3>1
    <3>. QED
      BY <3>1, <3>2, SettledIs, SettledIsNext
  <2>2. CASE \A q \in Requests : ~Writing(q, p)
    <3>1. \A q \in Requests : ~Writing(q, p)'
      BY <1>2, <1>4, <2>2
    <3>. QED
      BY <1>1, <2>2, <3>1, SettledIs, SettledIsNext
  <2>. QED
    BY <2>1, <2>2
<1>. QED
  BY <1>1, <1>5 DEF VersionsKept

\* The abstract state.
AtomicCfg  == [p \in Paths |-> Settled(p)]
AtomicKept == [p \in Paths |-> VersionsKept(p)]
Applied    == {r \in Requests : Written(r)}
Answered   == {r \in Requests : kind[r] = "edit" /\ pc[r] = "ok"}

LEMMA AbstractVars ==
  Abstract!vars = <<AtomicCfg, AtomicKept, Applied, Answered>>
  BY DEF Abstract!vars, AtomicCfg, AtomicKept, Applied, Answered, VersionsKept

\* Each abstract action, of the abstract state.
LEMMA AbstractActions ==
  ASSUME NEW p \in Paths
  PROVE  /\ \A r \in Requests :
              (/\ r \notin Applied
               /\ Settled(p) # Partial
               /\ AtomicCfg' = [AtomicCfg EXCEPT ![p] = Whole(Settled(p).edits \cup {r})]
               /\ Applied' = Applied \cup {r} /\ Answered' = Answered
               /\ AtomicKept' = AtomicKept) => Abstract!Next
         /\ \A S \in SUBSET VersionsKept(p) :
              (/\ Settled(p) # Absent
               /\ \/ AtomicKept' = [AtomicKept EXCEPT ![p] = S \cup {Settled(p)}]
                  \/ /\ "copy_fails" \in Faults
                     /\ AtomicKept' = [AtomicKept EXCEPT ![p] = S \cup {Partial}]
               /\ AtomicCfg' = AtomicCfg /\ UNCHANGED <<Applied, Answered>>) => Abstract!Next
         /\ \A S \in SUBSET VersionsKept(p) :
              (/\ AtomicKept' = [AtomicKept EXCEPT ![p] = S]
               /\ AtomicCfg' = AtomicCfg /\ UNCHANGED <<Applied, Answered>>) => Abstract!Next
         /\ \A c \in VersionsKept(p) :
              (/\ AtomicCfg' = [AtomicCfg EXCEPT ![p] = c]
               /\ AtomicKept' = AtomicKept /\ UNCHANGED <<Applied, Answered>>) => Abstract!Next
         /\ (/\ Settled(p) = Absent
             /\ AtomicCfg' = [AtomicCfg EXCEPT ![p] = Skeleton]
             /\ AtomicKept' = AtomicKept /\ UNCHANGED <<Applied, Answered>>) => Abstract!Next
<1> DEFINE kept == [x \in Paths |-> {b.content : b \in BackupsOf(x)}]
<1>1. /\ AtomicKept = kept /\ kept' = AtomicKept'
      /\ kept[p] = VersionsKept(p) /\ AtomicCfg[p] = Settled(p)
  BY DEF AtomicKept, VersionsKept, AtomicCfg
<1>2. ASSUME NEW r \in Requests, r \notin Applied, Settled(p) # Partial,
             AtomicCfg' = [AtomicCfg EXCEPT ![p] = Whole(Settled(p).edits \cup {r})],
             Applied' = Applied \cup {r}, Answered' = Answered, AtomicKept' = AtomicKept
      PROVE  Abstract!Next
  <2>1. Abstract!Edit(p, r)
    BY <1>1, <1>2 DEF Abstract!Edit, AtomicCfg, Applied, Answered, Abstract!Whole, Abstract!Partial,
                      Whole, Partial
  <2>. QED
    BY <2>1 DEF Abstract!Next
<1>3. ASSUME NEW S \in SUBSET VersionsKept(p), Settled(p) # Absent,
             \/ AtomicKept' = [AtomicKept EXCEPT ![p] = S \cup {Settled(p)}]
             \/ /\ "copy_fails" \in Faults
                /\ AtomicKept' = [AtomicKept EXCEPT ![p] = S \cup {Partial}],
             AtomicCfg' = AtomicCfg, UNCHANGED <<Applied, Answered>>
      PROVE  Abstract!Next
  <2>1. Abstract!BackUp(p)
    BY <1>1, <1>3 DEF Abstract!BackUp, AtomicCfg, Applied, Answered, Abstract!Absent, Abstract!Partial,
                      Absent, Partial
  <2>. QED
    BY <2>1 DEF Abstract!Next
<1>4. ASSUME NEW S \in SUBSET VersionsKept(p),
             AtomicKept' = [AtomicKept EXCEPT ![p] = S],
             AtomicCfg' = AtomicCfg, UNCHANGED <<Applied, Answered>>
      PROVE  Abstract!Next
  <2>0. kept' = [kept EXCEPT ![p] = S] /\ S \in SUBSET kept[p]
    BY <1>1, <1>4
  <2>1. Abstract!Discard(p)
    BY <2>0, <1>4 DEF Abstract!Discard, AtomicCfg, Applied, Answered
  <2>. QED
    BY <2>1 DEF Abstract!Next
<1>5. ASSUME NEW c \in VersionsKept(p), AtomicCfg' = [AtomicCfg EXCEPT ![p] = c],
             AtomicKept' = AtomicKept, UNCHANGED <<Applied, Answered>>
      PROVE  Abstract!Next
  <2>1. Abstract!Restore(p)
    BY <1>1, <1>5 DEF Abstract!Restore, AtomicCfg, Applied, Answered
  <2>. QED
    BY <2>1 DEF Abstract!Next
<1>6. ASSUME Settled(p) = Absent, AtomicCfg' = [AtomicCfg EXCEPT ![p] = Skeleton],
             AtomicKept' = AtomicKept, UNCHANGED <<Applied, Answered>>
      PROVE  Abstract!Next
  <2>1. Abstract!Create(p)
    BY <1>1, <1>6 DEF Abstract!Create, AtomicCfg, Applied, Answered, Abstract!Absent, Abstract!Skeleton,
                      Abstract!Whole, Absent, Skeleton, Whole
  <2>. QED
    BY <2>1 DEF Abstract!Next
<1>. QED
  BY <1>2, <1>3, <1>4, <1>5, <1>6

\* Files torn where a write failed or where the process was lost, and files that
\* were missing created after it.
LEMMA AbstractDamage ==
  ASSUME Faults \cap {"write_fails", "crash"} # {},
         \A p \in Paths : \/ Settled(p)' = Settled(p)
                          \/ Settled(p)' \in Torn
                          \/ Settled(p) = Absent /\ Settled(p)' = Skeleton,
         AtomicKept' = AtomicKept, UNCHANGED <<Applied, Answered>>
  PROVE  Abstract!Next
<1> DEFINE S == {p \in Paths : Settled(p)' # Settled(p)}
           c == [p \in Paths |-> IF p \in S THEN Settled(p)' ELSE Empty]
<1>1. c \in [Paths -> {Empty, Partial, Skeleton}] /\ S \in SUBSET Paths
  BY DEF Torn
<1>2. \A p \in S : c[p] = Skeleton => AtomicCfg[p] = Absent
  <2>1. Skeleton \notin Torn
    BY StatesDiffer DEF Torn, Skeleton
  <2>. QED
    BY <2>1 DEF AtomicCfg
<1>3. AtomicCfg' = [p \in Paths |-> IF p \in S THEN c[p] ELSE AtomicCfg[p]]
  BY DEF AtomicCfg
<1> HIDE DEF S, c
<1>4. Abstract!Damage
  BY <1>1, <1>2, <1>3 DEF Abstract!Damage, AtomicCfg, AtomicKept, VersionsKept, Applied, Answered,
     Abstract!Empty, Abstract!Partial, Abstract!Absent, Abstract!Skeleton, Abstract!Whole,
     Empty, Partial, Absent, Skeleton, Whole
<1>. QED
  BY <1>4 DEF Abstract!Next

\* Which files and which answers a step of one request can touch.
LEMMA StepTouches ==
  ASSUME TypeOK, Pinned, CyclesNeverInterleave, CyclesNeverInterleave', WritesInPlace,
         NEW r \in Requests, RequestStep(r), NEW p \in Paths, p = path[r]
  PROVE  /\ AtomicCfg' = [AtomicCfg EXCEPT ![p] = Settled(p)']
         /\ AtomicKept' = [AtomicKept EXCEPT ![p] = VersionsKept(p)']
         /\ pc[r] \notin Cycle => AtomicCfg' = AtomicCfg /\ AtomicKept' = AtomicKept
         /\ ~SaveClose(r) => Applied' = Applied
         /\ SaveClose(r) =>
              Applied' = IF kind[r] = "edit" THEN Applied \cup {r} ELSE Applied
         /\ pc[r] # "answer" => Answered' = Answered
         /\ Respond(r) =>
              Answered' = IF kind[r] = "edit" THEN Answered \cup {r} ELSE Answered
<1>1. \A x \in Paths : ~(pc[r] \in Cycle /\ path[r] = x) =>
        Settled(x)' = Settled(x) /\ VersionsKept(x)' = VersionsKept(x)
  BY SettledElsewhere
<1>2. \A q \in Requests \ {r} : pc'[q] = pc[q] /\ kind'[q] = kind[q]
  BY OthersKept
<1>b. Bootstrap(r) => pc[r] = "boot" /\ kind[r] # "edit" /\ kind'[r] # "edit"
  BY DEF Bootstrap, Pinned, InFlight, PCs, Results
<1>3. ASSUME ~SaveClose(r), ~Respond(r) PROVE ~Written(r) /\ ~Written(r)'
  <2> USE DEF Written, TypeOK, Goto, Finish, request, Results
  <2>1. CASE View(r) \/ Arrive(r)
    BY <2>1 DEF View, Arrive, WritesInPlace, InCycle
  <2>2. CASE Acquire(r) \/ Load(r) \/ Refuse(r) \/ BeginSave(r)
    BY <2>2 DEF Acquire, Load, Refuse, BeginSave
  <2>3. CASE CopyBackup(r) \/ CopyFails(r) \/ Prune(r)
    BY <2>3 DEF CopyBackup, CopyFails, Prune
  <2>4. CASE SaveOpen(r) \/ SaveDump(r) \/ SaveFails(r) \/ RestorePick(r)
    BY <2>4 DEF SaveOpen, SaveDump, SaveFails, RestorePick
  <2>5. CASE RepointCheck(r) \/ RepointPersist(r) \/ RepointPersistFails(r) \/ RepointSwitch(r)
    BY <2>5 DEF RepointCheck, RepointPersist, RepointPersistFails, RepointSwitch
  <2>6. CASE Bootstrap(r)
    BY <1>b, <2>6 DEF Bootstrap
  <2>. QED
    BY <1>3, <2>1, <2>2, <2>3, <2>4, <2>5, <2>6 DEF RequestStep, Serve
<1>4. SaveClose(r) => pc[r] = "close" /\ pc'[r] = "answer" /\ kind'[r] = kind[r]
  BY DEF SaveClose, TypeOK, Goto, request
<1>5. Respond(r) => pc[r] = "answer" /\ pc'[r] = "ok" /\ kind'[r] = kind[r]
  BY DEF Respond, TypeOK, Finish, request
<1>6. /\ ~SaveClose(r) => Applied' = Applied
      /\ SaveClose(r) => Applied' = IF kind[r] = "edit" THEN Applied \cup {r} ELSE Applied
  BY <1>2, <1>3, <1>4, <1>5 DEF Applied, Written
<1>7. /\ pc[r] # "answer" => Answered' = Answered
      /\ Respond(r) => Answered' = IF kind[r] = "edit" THEN Answered \cup {r} ELSE Answered
  BY <1>2, <1>3, <1>4, <1>5 DEF Answered, Written
<1>. QED
  BY <1>1, <1>6, <1>7 DEF AtomicCfg, AtomicKept

LEMMA StepImplements ==
  ASSUME TypeOK, Pinned, CyclesNeverInterleave, CyclesNeverInterleave',
         WritesInPlace, [Next]_vars
  PROVE  [Abstract!Next]_(Abstract!vars)
<1> DEFINE Same == /\ AtomicCfg' = AtomicCfg /\ AtomicKept' = AtomicKept
                  /\ Applied' = Applied /\ Answered' = Answered
<1>s. Same => [Abstract!Next]_(Abstract!vars)
  BY AbstractVars DEF Abstract!vars, AtomicCfg, AtomicKept, Applied, Answered, VersionsKept
<1>1. ASSUME NEW r \in Requests, RequestStep(r) PROVE [Abstract!Next]_(Abstract!vars)
  <2>p. PICK p \in Paths : p = path[r]
    BY DEF TypeOK
  <2>t. /\ AtomicCfg' = [AtomicCfg EXCEPT ![p] = Settled(p)']
        /\ AtomicKept' = [AtomicKept EXCEPT ![p] = VersionsKept(p)']
        /\ pc[r] \notin Cycle => AtomicCfg' = AtomicCfg /\ AtomicKept' = AtomicKept
        /\ ~SaveClose(r) => Applied' = Applied
        /\ SaveClose(r) =>
             Applied' = IF kind[r] = "edit" THEN Applied \cup {r} ELSE Applied
        /\ pc[r] # "answer" => Answered' = Answered
        /\ Respond(r) =>
             Answered' = IF kind[r] = "edit" THEN Answered \cup {r} ELSE Answered
    BY <1>1, <2>p, StepTouches
  <2>c. AtomicCfg[p] = Settled(p) /\ AtomicKept[p] = VersionsKept(p)
    BY DEF AtomicCfg, AtomicKept
  <2>n. Settled(p)' = Settled(p) => AtomicCfg' = AtomicCfg
    BY <2>t, <2>c DEF AtomicCfg
  <2>k. backups' = backups => VersionsKept(p)' = VersionsKept(p) /\ AtomicKept' = AtomicKept
    BY <2>t, <2>c DEF AtomicKept, VersionsKept, BackupsOf
  <2>q. pc[r] \in Cycle => \A q \in Requests \ {r} : ~Writing(q, p) /\ ~Writing(q, p)'
    BY <1>1, <2>p, OthersKept DEF CyclesNeverInterleave, Writing, Cycle
  <2>w. /\ Writing(r, p) => Settled(p) = before[r]
        /\ pc[r] \in Cycle /\ ~Writing(r, p) => Settled(p) = file[p]
        /\ Writing(r, p)' => Settled(p)' = before'[r]
        /\ pc[r] \in Cycle /\ ~Writing(r, p)' => Settled(p)' = file'[p]
    BY <2>q, SettledIs, SettledIsNext
  <2>i. InCycle(r)
    BY DEF WritesInPlace
  <2> HIDE DEF Same
  <2>1. CASE pc[r] \notin Cycle
    <3>1. ~SaveClose(r)
      BY <2>1 DEF SaveClose, Cycle
    <3>2. CASE Answered' = Answered
      BY <2>1, <2>t, <3>1, <3>2, <1>s DEF Same
    <3>3. CASE Answered' # Answered
      <4>1. pc[r] = "answer" /\ Respond(r)
        BY <1>1, <2>t, <3>3, AnswerKept
      <4>2. r \in Applied \ Answered /\ Answered' = Answered \cup {r}
        BY <2>t, <3>3, <4>1 DEF Applied, Answered, Written
      <4>3. Abstract!Answer(r)
        BY <2>1, <2>t, <3>1, <4>2 DEF Abstract!Answer, AtomicCfg, AtomicKept, VersionsKept,
                                      Applied, Answered
      <4>. QED
        BY <4>3 DEF Abstract!Next
    <3>. QED
      BY <3>2, <3>3
  <2>2. CASE Refuse(r) \/ BeginSave(r)
    <3>1. /\ pc[r] = "loaded" /\ UNCHANGED <<file, backups>>
          /\ pc'[r] \notin {"dump", "close"}
      BY <2>2 DEF Refuse, BeginSave, TypeOK, Goto, Finish, disk
    <3>. QED
      BY <3>1, <2>t, <2>n, <2>k, <2>w, <1>s DEF Same, Writing, Cycle, SaveClose
  <2>3. CASE CopyBackup(r) \/ CopyFails(r)
    <3>1. /\ pc[r] = "copy" /\ UNCHANGED file /\ pc'[r] \notin {"dump", "close"}
      BY <2>3 DEF CopyBackup, CopyFails, TypeOK, Goto, Finish
    <3>2. Settled(p) = file[p] /\ AtomicCfg' = AtomicCfg /\ UNCHANGED <<Applied, Answered>>
      BY <3>1, <2>t, <2>n, <2>w DEF Writing, Cycle, SaveClose
    <3>3. CASE backups' = backups
      BY <3>2, <3>3, <2>k, <1>s DEF Same
    <3>4. ASSUME NEW s, NEW c, backups' = WithBackup(p, s, c), file[p] # Absent,
                 c = file[p] \/ (c = Partial /\ "copy_fails" \in Faults)
          PROVE  [Abstract!Next]_(Abstract!vars)
      <4> DEFINE S == {b.content : b \in {x \in BackupsOf(p) : x.stamp # s}}
      <4>1. S \in SUBSET VersionsKept(p)
        BY DEF VersionsKept
      <4>2. VersionsKept(p)' = S \cup {c}
        <5> DEFINE new == [path |-> p, stamp |-> s, content |-> c]
        <5>1. BackupsOf(p)' = {x \in BackupsOf(p) : x.stamp # s} \cup {new}
          BY <3>4 DEF BackupsOf, WithBackup
        <5>2. new.content = c
          OBVIOUS
        <5> HIDE DEF new
        <5>3. VersionsKept(p)' =
                {b.content : b \in {x \in BackupsOf(p) : x.stamp # s} \cup {new}}
          BY <5>1 DEF VersionsKept
        <5>. QED
          BY <5>2, <5>3
      <4> HIDE DEF S
      <4>. QED
        BY <3>2, <3>4, <2>t, <4>1, <4>2, AbstractActions
    <3>. QED
      BY <2>3, <2>p, <3>3, <3>4 DEF CopyBackup, CopyFails
  <2>4. CASE Prune(r)
    <3>1. /\ pc[r] = "prune" /\ UNCHANGED file /\ pc'[r] = "open"
          /\ backups' \subseteq backups
      BY <2>4 DEF Prune, TypeOK, Goto
    <3>2. VersionsKept(p)' \in SUBSET VersionsKept(p)
      BY <3>1 DEF VersionsKept, BackupsOf
    <3>3. AtomicCfg' = AtomicCfg /\ UNCHANGED <<Applied, Answered>>
      BY <3>1, <2>t, <2>n, <2>w DEF Writing, Cycle, SaveClose
    <3>. QED
      BY <2>t, <3>2, <3>3, AbstractActions
  <2>5. CASE SaveOpen(r) \/ SaveDump(r)
    <3>1. /\ pc[r] \in {"open", "dump"} /\ UNCHANGED <<backups, path>>
          /\ pc'[r] \in {"dump", "close"}
          /\ before'[r] = IF pc[r] = "open" THEN file[p] ELSE before[r]
      BY <2>5, <2>p DEF SaveOpen, SaveDump, TypeOK, Goto, request
    <3>. QED
      BY <3>1, <2>p, <2>t, <2>n, <2>k, <2>w, <1>s DEF Same, Writing, Cycle, SaveClose
  <2>6. CASE SaveFails(r)
    <3>1. /\ pc[r] \in {"open", "dump", "close"} /\ UNCHANGED <<file, backups>>
          /\ pc'[r] = "failed" /\ "write_fails" \in Faults
      BY <2>6 DEF SaveFails, TypeOK, Finish, disk
    <3>2. /\ UNCHANGED <<Applied, Answered>> /\ AtomicKept' = AtomicKept
          /\ Settled(p)' = file[p]
      <4>1. ~SaveClose(r)
        BY <3>1 DEF SaveClose, TypeOK, Goto
      <4>. QED
        BY <3>1, <4>1, <2>t, <2>k, <2>w DEF Writing, Cycle
    <3>3. CASE pc[r] = "open"
      BY <3>1, <3>2, <3>3, <2>n, <2>w, <1>s DEF Same, Writing, Cycle
    <3>4. CASE pc[r] \in {"dump", "close"}
      <4>1. Settled(p)' \in Torn
        BY <3>2, <3>4, <2>i, <2>p DEF InCycle
      <4>2. \A x \in Paths \ {p} : Settled(x)' = Settled(x)
        BY <1>1, <2>p, SettledElsewhere
      <4>. QED
        BY <3>1, <3>2, <4>1, <4>2, AbstractDamage
    <3>. QED
      BY <3>1, <3>3, <3>4
  <2>7. CASE SaveClose(r)
    <3>1. /\ pc[r] = "close" /\ pc'[r] = "answer" /\ UNCHANGED backups
          /\ file'[p] = buf[r]
      <4>1. ~\E q \in Requests \ {r} : pc[q] \in {"dump", "close"} /\ path[q] = path[r]
        BY <2>7, <2>p, <2>q DEF SaveClose, Writing, Cycle
      <4>. QED
        BY <2>7, <2>p, <4>1 DEF SaveClose, TypeOK, Goto
    <3>2. /\ Settled(p)' = buf[r] /\ Settled(p) = before[r] /\ AtomicKept' = AtomicKept
          /\ Answered' = Answered
      BY <3>1, <2>p, <2>w, <2>k, <2>t DEF Writing, Cycle
    <3>3. CASE kind[r] = "edit"
      <4>1. Settled(p) # Partial /\ buf[r] = Whole(Settled(p).edits \cup {r})
        BY <3>1, <3>2, <3>3, <2>i DEF InCycle, Replaced, Cycle
      <4>2. r \notin Applied
        BY <3>1 DEF Applied, Written
      <4>. QED
        BY <2>7, <3>2, <3>3, <4>1, <4>2, <2>t, AbstractActions
    <3>4. CASE kind[r] = "restore"
      <4>1. buf[r] \in VersionsKept(p)
        BY <3>1, <3>4, <2>i, <2>p DEF InCycle, Cycle
      <4>. QED
        BY <2>7, <3>2, <3>4, <4>1, <2>t, AbstractActions
    <3>5. CASE kind[r] = "repoint"
      <4>1. Settled(p) = Absent /\ buf[r] = Skeleton
        BY <3>1, <3>2, <3>5, <2>i DEF InCycle, Replaced, Cycle
      <4>. QED
        BY <2>7, <3>2, <3>5, <4>1, <2>t, AbstractActions
    <3>. QED
      BY <3>1, <3>3, <3>4, <3>5, <2>i DEF InCycle
  <2>8. CASE pc[r] \in Cycle
    <3>1. CycleStep(r)
      BY <1>1, <2>8, CycleKept
    <3>. QED
      BY <3>1, <2>2, <2>3, <2>4, <2>5, <2>6, <2>7 DEF CycleStep
  <2>. QED
    BY <2>1, <2>8
<1>2. CASE Crash
  <2>1. /\ "crash" \in Faults /\ UNCHANGED backups
        /\ \A p \in Paths : \/ file'[p] = file[p]
                            \/ file[p] = Absent /\ file'[p] = Skeleton
    BY <1>2, OnlyBootstrapped DEF Crash
  <2>2. \A r \in Requests : /\ pc'[r] \notin InFlight /\ (pc'[r] = "ok" <=> pc[r] = "ok")
                            /\ (Written(r)' <=> Written(r)) /\ kind'[r] = kind[r]
    BY <1>2 DEF Crash, Restart, TypeOK, InFlight, PCs, Results, request, Written
  <2>3. AtomicKept' = AtomicKept /\ UNCHANGED <<Applied, Answered>>
    BY <2>1, <2>2 DEF AtomicKept, VersionsKept, BackupsOf, Applied, Answered
  <2>4. ASSUME NEW p \in Paths
        PROVE  \/ Settled(p)' = Settled(p)
               \/ Settled(p)' \in Torn
               \/ Settled(p) = Absent /\ Settled(p)' = Skeleton
    <3>1. Settled(p)' = file'[p]
      BY <2>2, SettledIsNext DEF Writing, InFlight, PCs, Results
    <3>2. CASE \E r \in Requests : Writing(r, p)
      <4>1. file[p] \in Torn
        BY <3>2 DEF WritesInPlace, InCycle, Writing
      <4>. QED
        BY <2>1, <3>1, <4>1, StatesDiffer
    <3>3. CASE \A r \in Requests : ~Writing(r, p)
      BY <2>1, <3>1, <3>3, SettledIs
    <3>. QED
      BY <3>2, <3>3
  <2>. QED
    BY <2>1, <2>3, <2>4, AbstractDamage
<1>3. CASE Quiescent \/ UNCHANGED vars
  <2>1. UNCHANGED vars
    BY <1>3 DEF Quiescent
  <2>. QED
    BY <2>1, <1>s DEF vars, disk, request, AtomicCfg, AtomicKept, Applied, Answered, Written,
                      Settled, Writing, VersionsKept, BackupsOf
<1>. QED
  BY <1>1, <1>2, <1>3 DEF Next, RequestStep

LEMMA InitImplements ==
  ASSUME Init, CyclesNeverInterleave
  PROVE  Abstract!Init
<1>1. \A p \in Paths : Settled(p) = file[p] /\ VersionsKept(p) = {}
  BY SettledIs DEF Init, Writing, VersionsKept, BackupsOf
<1>2. AtomicCfg = file /\ AtomicKept = [p \in Paths |-> {}] /\ Applied = {} /\ Answered = {}
  BY <1>1 DEF AtomicCfg, AtomicKept, Applied, Answered, Written, Init
<1>. QED
  BY <1>2 DEF Abstract!Init, AtomicCfg, AtomicKept, VersionsKept, Applied, Answered, Init,
              Abstract!Whole, Abstract!Absent, Whole, Absent

\* The files behave as if each edit, each restore and each bootstrap happened at
\* one instant on the whole file, whatever the interleaving, the failures and the
\* clock, as long as every repoint is alone while it switches.
THEOREM AtomicEdits == Spec /\ []RepointsAlone => ImplementsAtomicConfig
<1>1. /\ TypeOK /\ Pinned /\ CyclesNeverInterleave /\ CyclesNeverInterleave'
      /\ WritesInPlace /\ [Next]_vars
      => [Abstract!Next]_(Abstract!vars)
  BY StepImplements
<1>2. Init /\ CyclesNeverInterleave => Abstract!Init
  BY InitImplements
<1>. QED
  BY <1>1, <1>2, TypeCorrect, AlwaysPinned, NoInterleaving, AlwaysInPlace, PTL
     DEF Spec, ImplementsAtomicConfig, Abstract!Spec

\* In particular, as long as nobody repoints.
COROLLARY AtomicEditsWithoutRepoints ==
  ASSUME NoRepoint
  PROVE  Spec => ImplementsAtomicConfig
  BY AtomicEdits, NoRepointIsAlone, PTL
=============================================================================
