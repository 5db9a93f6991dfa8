--------------------------- MODULE KeaControlProofs ---------------------------
(* Theorems about KeaControl, for any requests, applies, files and failures. *)
EXTENDS KeaControl, ConfigStoreProofs

-----------------------------------------------------------------------------
(* The shape of a step *)

\* A step of the composition is a step of one request on the files, or of one
\* apply, or of Kea, or the loss of the process.
LEMMA KeaSteps ==
  ASSUME [KeaNext]_<<vars, ctrl>>
  PROVE  \/ \E r \in Requests : (View(r) \/ Arrive(r) \/ Serve(r)) /\ Edit
         \/ \E a \in Applies : ArriveApply(a) \/ ServeApply(a) \/ Reload(a)
         \/ LoseProcess
         \/ UNCHANGED <<vars, ctrl>>
  BY DEF KeaNext, Edit, AllAnswered

\* An apply, and Kea, change nothing of the store.
LEMMA ApplyLeavesStore ==
  ASSUME NEW a \in Applies, ArriveApply(a) \/ ServeApply(a) \/ Reload(a)
  PROVE  UNCHANGED vars
  BY DEF ArriveApply, ServeApply, Test, Signal, FindSocket, SendReload, Answer, TimeOut, Reload

-----------------------------------------------------------------------------
(* Type correctness *)

LEMMA TouchType ==
  ASSUME KeaTypeOK, Touch
  PROVE  touched' \in [Applies -> BOOLEAN]
<1>1. \A a \in Applies : touched[a] \in BOOLEAN
  BY DEF KeaTypeOK
<1>. QED
  BY <1>1, Zenon DEF Touch

\* Every variable of the composition keeps its type, whatever the constants.
THEOREM KeaTypeCorrect == KeaSpec => []KeaTypeOK
<1>1. Init /\ KeaInit => KeaTypeOK
  <2> SUFFICES ASSUME Init, KeaInit PROVE KeaTypeOK
    OBVIOUS
  <2>1. TypeOK
    BY InitType
  <2>2. running \in [Versions -> Content]
    <3>1. \A v \in Versions : file[KeaFile[v]] \in Content
      BY <2>1, KeaControlAssumption DEF KeaControlAssumption, TypeOK
    <3>. QED
      BY <3>1, ContentTypes DEF KeaInit
  <2>3. aver \in [Applies -> Versions]
    BY ConfigStoreAssumption DEF KeaInit, ConfigStoreAssumption
  <2>. QED
    BY <2>1, <2>2, <2>3 DEF KeaInit, KeaTypeOK, APCs, Verdicts
<1>2. KeaTypeOK /\ [KeaNext]_<<vars, ctrl>> => KeaTypeOK'
  <2> SUFFICES ASSUME KeaTypeOK, [KeaNext]_<<vars, ctrl>> PROVE KeaTypeOK'
    OBVIOUS
  <2> USE DEF ctrl, kea
  <2>1. ASSUME NEW r \in Requests, View(r) \/ Arrive(r) \/ Serve(r), Edit PROVE KeaTypeOK'
    <3>1. TypeOK'
      BY <2>1, TypeStep DEF KeaTypeOK, Next
    <3>2. touched' \in [Applies -> BOOLEAN]
      BY <2>1, TouchType DEF Edit
    <3>. QED
      BY <2>1, <3>1, <3>2 DEF Edit, KeaTypeOK
  <2>2. ASSUME NEW a \in Applies, ArriveApply(a) \/ ServeApply(a) \/ Reload(a)
        PROVE  KeaTypeOK'
    <3>1. TypeOK'
      BY <2>2, ApplyLeavesStore, TypeStep DEF KeaTypeOK
    <3>2. CASE ArriveApply(a)
      <4>1. PICK v \in Versions :
              /\ aver' = [aver EXCEPT ![a] = v]
              /\ touched' = [touched EXCEPT ![a] = conf[v] # KeaFile[v]]
        BY <3>2 DEF ArriveApply
      <4>2. (conf[v] # KeaFile[v]) \in BOOLEAN
        OBVIOUS
      <4>3. touched' \in [Applies -> BOOLEAN]
        BY <4>1, <4>2, Zenon DEF KeaTypeOK
      <4>4. aver' \in [Applies -> Versions]
        BY <4>1 DEF KeaTypeOK
      <4>. QED
        BY <3>1, <3>2, <4>3, <4>4 DEF ArriveApply, KeaTypeOK, Step, APCs
    <3>3. CASE Test(a) \/ FindSocket(a) \/ Answer(a) \/ TimeOut(a)
      BY <3>1, <3>3 DEF Test, FindSocket, Answer, TimeOut, KeaTypeOK, Step, APCs, Results
    <3>4. CASE Signal(a) \/ SendReload(a)
      BY <3>1, <3>4 DEF Signal, SendReload, KeaTypeOK, Step, APCs, Results
    <3>5. CASE Reload(a)
      <4>1. file[KeaFile[aver[a]]] \in Content
        BY KeaControlAssumption DEF KeaControlAssumption, KeaTypeOK, TypeOK
      <4>. QED
        BY <3>1, <3>5, <4>1 DEF Reload, KeaTypeOK, Verdicts
    <3>. QED
      BY <2>2, <3>2, <3>3, <3>4, <3>5 DEF ServeApply
  <2>3. CASE LoseProcess
    <3>1. TypeOK' /\ touched' \in [Applies -> BOOLEAN]
      BY <2>3, RestartType, TouchType DEF LoseProcess, KeaTypeOK
    <3>. QED
      BY <2>3, <3>1 DEF LoseProcess, KeaTypeOK, APCs, Results
  <2>4. CASE UNCHANGED <<vars, ctrl>>
    <3>1. TypeOK'
      BY <2>4, TypeStep DEF KeaTypeOK
    <3>. QED
      BY <2>4, <3>1 DEF KeaTypeOK
  <2>. QED
    BY <2>1, <2>2, <2>3, <2>4, KeaSteps
<1>. QED
  BY <1>1, <1>2, PTL DEF KeaSpec

-----------------------------------------------------------------------------
(* What an apply that answers "reloaded" has seen *)

\* Until its command is sent, an apply has no verdict and Kea nothing of it to do.
Unsent ==
  \A a \in Applies :
    apc[a] \in {"idle", "test", "reload", "send"} => a \notin queued /\ verdict[a] = "none"

\* Kea runs its file as long as nobody touches it after it loaded it for an apply.
LoadedRuns ==
  \A a \in Applies :
    (apc[a] = "sent" /\ verdict[a] = "loaded" /\ ~touched[a])
      => running[aver[a]] = file[KeaFile[aver[a]]]

\* A step that leaves Kea and the applies alone, but for the note that its file was
\* touched and the end of some.
LEMMA TouchKeeps ==
  ASSUME KeaTypeOK, Unsent, LoadedRuns, Touch, UNCHANGED <<kea, aver>>,
         \A a \in Applies : apc'[a] = apc[a] \/ apc'[a] = "dead"
  PROVE  Unsent' /\ LoadedRuns'
<1>1. Unsent'
  BY DEF Unsent, kea
<1>2. ASSUME NEW a \in Applies, apc'[a] = "sent", ~touched'[a]
      PROVE  ~touched[a] /\ apc[a] = "sent"
             /\ file'[KeaFile[aver[a]]] = file[KeaFile[aver[a]]]
  BY <1>2 DEF Touch, Applying
<1>3. LoadedRuns'
  BY <1>2 DEF LoadedRuns, kea
<1>. QED
  BY <1>1, <1>3

LEMMA AppliedStep ==
  ASSUME KeaTypeOK, Unsent, LoadedRuns, [KeaNext]_<<vars, ctrl>>
  PROVE  /\ Unsent' /\ LoadedRuns'
         /\ \A a \in Applies :
              (apc[a] = "sent" /\ apc'[a] = "ok" /\ ~touched[a])
                => running[aver[a]] = file[KeaFile[aver[a]]]
<1> DEFINE Runs == \A a \in Applies :
                     (apc[a] = "sent" /\ apc'[a] = "ok" /\ ~touched[a])
                       => running[aver[a]] = file[KeaFile[aver[a]]]
<1> USE DEF ctrl, kea
<1>1. CASE Edit
  BY <1>1, TouchKeeps DEF Edit
<1>2. ASSUME NEW a \in Applies, ArriveApply(a) \/ ServeApply(a) \/ Reload(a)
      PROVE  Unsent' /\ LoadedRuns' /\ Runs
  <2>0. file' = file
    BY <1>2, ApplyLeavesStore DEF vars, disk
  <2>1. CASE ArriveApply(a)
    <3>1. \A b \in Applies \ {a} : aver'[b] = aver[b] /\ touched'[b] = touched[b]
      BY <2>1 DEF ArriveApply, KeaTypeOK
    <3>2. /\ apc'[a] = "test" /\ apc[a] = "idle"
          /\ \A b \in Applies \ {a} : apc'[b] = apc[b]
          /\ UNCHANGED kea
      BY <2>1 DEF ArriveApply, Step, KeaTypeOK
    <3>. QED
      BY <2>0, <3>1, <3>2 DEF Unsent, LoadedRuns
  <2>2. CASE Test(a) \/ FindSocket(a)
    BY <2>0, <2>2 DEF Test, FindSocket, Step, KeaTypeOK, Unsent, LoadedRuns
  <2>3. CASE Signal(a) \/ SendReload(a)
    BY <2>0, <2>3 DEF Signal, SendReload, Step, KeaTypeOK, Unsent, LoadedRuns
  <2>4. CASE Answer(a) \/ TimeOut(a)
    <3>1. apc'[a] = "ok" => verdict[a] = "loaded"
      BY <2>4 DEF Answer, TimeOut, Step, KeaTypeOK
    <3>2. /\ apc[a] = "sent" /\ apc'[a] \in {"ok", "failed"}
          /\ \A b \in Applies \ {a} : apc'[b] = apc[b]
          /\ UNCHANGED <<kea, aver, touched>>
      BY <2>4 DEF Answer, TimeOut, Step, KeaTypeOK
    <3>. QED
      BY <2>0, <3>1, <3>2 DEF Unsent, LoadedRuns
  <2>5. CASE Reload(a)
    <3>1. /\ a \in queued /\ queued' \subseteq queued /\ UNCHANGED <<apc, aver, touched>>
          /\ \A b \in Applies \ {a} : verdict'[b] = verdict[b]
      BY <2>5 DEF Reload, KeaTypeOK
    <3>2. /\ \A v \in Versions :
               running'[v] = running[v] \/ running'[v] = file[KeaFile[v]]
          /\ verdict'[a] = "loaded" => running'[aver[a]] = file[KeaFile[aver[a]]]
      BY <2>5 DEF Reload, KeaTypeOK, Verdicts
    <3>3. \A b \in Applies : aver[b] \in Versions
      BY DEF KeaTypeOK
    <3>. QED
      BY <2>0, <3>1, <3>2, <3>3 DEF Unsent, LoadedRuns
  <2>. QED
    BY <1>2, <2>1, <2>2, <2>3, <2>4, <2>5 DEF ServeApply
<1>3. CASE LoseProcess
  <2>1. \A a \in Applies : apc'[a] = apc[a] \/ apc'[a] = "dead"
    BY <1>3 DEF LoseProcess
  <2>2. \A a \in Applies : apc[a] = "sent" => apc'[a] = "dead"
    BY <1>3 DEF LoseProcess, Applying
  <2>. QED
    BY <1>3, <2>1, <2>2, TouchKeeps DEF LoseProcess
<1>4. CASE UNCHANGED <<vars, ctrl>>
  BY <1>4 DEF Unsent, LoadedRuns, vars, disk
<1>. QED
  BY <1>1, <1>2, <1>3, <1>4, KeaSteps

\* An apply that answers over the control socket that Kea was reloaded is right,
\* unless somebody touched the file or the pointer meanwhile: whatever saves,
\* restores, repoints and failures interleave with it.
THEOREM ReloadedMeansRunning == KeaSpec => AppliedMeansRunning
<1>1. Init /\ KeaInit => Unsent /\ LoadedRuns
  BY DEF KeaInit, Unsent, LoadedRuns
<1>2. KeaTypeOK /\ Unsent /\ LoadedRuns /\ [KeaNext]_<<vars, ctrl>>
        => /\ Unsent' /\ LoadedRuns'
           /\ [\A a \in Applies :
                 (apc[a] = "sent" /\ apc'[a] = "ok" /\ ~touched[a])
                   => running[aver[a]] = file[KeaFile[aver[a]]]]_<<vars, ctrl>>
  BY AppliedStep
<1>. QED
  BY <1>1, <1>2, KeaTypeCorrect, PTL DEF KeaSpec, AppliedMeansRunning

-----------------------------------------------------------------------------
(* What Kea ever runs *)

Stored == {r \in Requests : Written(r)}

\* Its own edit, while the request is making one.
Own(r) == IF kind[r] = "edit" THEN {r} ELSE {}

\* The edits in c are the requests of S and what the file held at the start.
EditsWithin(c, S) == c.edits \cap Requests \subseteq S

\* Files and backups hold edits written in full only; a configuration in memory,
\* the request's own as well.
StoredWritten ==
  /\ \A r \in Requests : pc[r] = "idle" => kind[r] # "edit"
  /\ \A p \in Paths : EditsWithin(file[p], Stored)
  /\ \A b \in backups : EditsWithin(b.content, Stored)
  /\ \A r \in Requests : EditsWithin(buf[r], Stored \cup Own(r))

\* A configuration that holds no edits is within any set.
LEMMA NothingWithin ==
  \A S : /\ EditsWithin(Absent, S) /\ EditsWithin(Empty, S) /\ EditsWithin(Partial, S)
         /\ EditsWithin(Skeleton, S)
         /\ \A c \in Torn : EditsWithin(c, S)
  BY DEF EditsWithin, Absent, Empty, Partial, Skeleton, Whole, Torn

\* What a step of a request does to files, backups and what it has in memory.
StoreStep(r) ==
  /\ Stored \subseteq Stored'
  /\ \A q \in Requests : /\ Own(q) \subseteq Own(q)'
                         /\ pc'[q] = "idle" => pc[q] = "idle" /\ kind'[q] = kind[q]
  /\ \A p \in Paths : \/ file'[p] = file[p]
                      \/ file'[p] \in Torn
                      \/ file'[p] = buf[r] /\ Own(r) \subseteq Stored'
  /\ \A b \in backups' : b \in backups \/ b.content = Partial \/ b.content = file[path[r]]
  /\ \A q \in Requests : \/ buf'[q] = buf[q]
                         \/ EditsWithin(buf'[q], Stored \cup Own(q)')

LEMMA StoreShape ==
  ASSUME TypeOK, StoredWritten, NEW r \in Requests, View(r) \/ Arrive(r) \/ Serve(r)
  PROVE  StoreStep(r)
<1>1. /\ Stored \subseteq Stored'
      /\ \A q \in Requests : /\ Own(q) \subseteq Own(q)'
                             /\ pc'[q] = "idle" => pc[q] = "idle" /\ kind'[q] = kind[q]
  <2>1. \A q \in Requests \ {r} : pc'[q] = pc[q] /\ kind'[q] = kind[q]
    BY OthersKept DEF RequestStep
  <2>2. CASE View(r) \/ Arrive(r)
    <3>1. pc[r] = "idle" /\ pc'[r] # "idle" /\ kind[r] # "edit"
      BY <2>2 DEF View, Arrive, StoredWritten, Goto, TypeOK
    <3>. QED
      BY <2>1, <3>1 DEF Stored, Written, Own
  <2>3. CASE Serve(r)
    <3>1. /\ pc[r] \notin {"idle", "cut", "ok"} /\ pc'[r] # "idle"
          /\ pc[r] = "answer" => pc'[r] = "ok"
      <4>1. CASE Acquire(r)
        BY <4>1 DEF Acquire, Goto, TypeOK
      <4>2. CASE ~Acquire(r)
        BY <2>3, <4>2, ServeShape, AnswerKept
           DEF RequestStep, Goto, Finish, TypeOK, Holding, InFlight, PCs, Results
      <4>. QED
        BY <4>1, <4>2
    <3>2. kind'[r] = kind[r] \/ kind'[r] = "edit"
      BY <2>3 DEF Serve, Acquire, Load, Refuse, BeginSave, CopyBackup, CopyFails, Prune, SaveOpen,
         SaveDump, SaveClose, SaveFails, Respond, RestorePick, RepointCheck, RepointPersist,
         RepointPersistFails, RepointSwitch, Bootstrap, request, TypeOK
    <3>. QED
      BY <2>1, <3>1, <3>2 DEF Stored, Written, Own
  <2>. QED
    BY <2>2, <2>3
<1>. USE DEF disk, process, request
<1>2. ASSUME UNCHANGED <<file, backups, buf>> PROVE StoreStep(r)
  BY <1>1, <1>2 DEF StoreStep
<1>3. CASE View(r)
  <2>1. UNCHANGED <<file, backups>>
    BY <1>3 DEF View
  <2>2. PICK v \in Versions : UNCHANGED buf \/ buf' = [buf EXCEPT ![r] = LoadJson(file[conf[v]])]
    BY <1>3 DEF View
  <2>3. EditsWithin(LoadJson(file[conf[v]]), Stored \cup Own(r)')
    BY DEF TypeOK, StoredWritten, EditsWithin, LoadJson, Whole
  <2>. QED
    BY <1>1, <2>1, <2>2, <2>3 DEF StoreStep, TypeOK
<1>4. CASE Load(r)
  <2>1. UNCHANGED <<file, backups>>
    BY <1>4 DEF Load
  <2>2. \/ UNCHANGED buf
        \/ buf' = [buf EXCEPT ![r] = Whole(LoadJson(file[conf[ver[r]]]).edits \cup {r})]
    BY <1>4 DEF Load
  <2>3. Own(r)' = {r}
    BY <1>4 DEF Load, Own, TypeOK
  <2>4. EditsWithin(Whole(LoadJson(file[conf[ver[r]]]).edits \cup {r}), Stored \cup Own(r)')
    BY <2>3 DEF TypeOK, StoredWritten, EditsWithin, LoadJson, Whole
  <2>. QED
    BY <1>1, <2>1, <2>2, <2>4 DEF StoreStep, TypeOK
<1>5. CASE CopyBackup(r) \/ CopyFails(r)
  <2>1. UNCHANGED <<file, buf>>
    BY <1>5 DEF CopyBackup, CopyFails
  <2>2. \A p, t, c : \A b \in WithBackup(p, t, c) : b \in backups \/ b.content = c
    BY DEF WithBackup
  <2>3. \/ UNCHANGED backups
        \/ \E t \in ClockReadings : \/ backups' = WithBackup(path[r], t, file[path[r]])
                                    \/ backups' = WithBackup(path[r], t, Partial)
    BY <1>5 DEF CopyBackup, CopyFails
  <2>. QED
    BY <1>1, <2>1, <2>2, <2>3 DEF StoreStep
<1>6. CASE Prune(r)
  BY <1>1, <1>6 DEF Prune, StoreStep
<1>7. CASE SaveOpen(r) \/ SaveDump(r)
  BY <1>1, <1>7 DEF SaveOpen, SaveDump, StoreStep, TypeOK, Torn
<1>8. CASE SaveClose(r)
  <2>1. Own(r) \subseteq Stored'
    BY <1>8 DEF SaveClose, Goto, Stored, Own, Written, TypeOK
  <2>2. \A p \in Paths : file'[p] = file[p] \/ file'[p] = buf[r] \/ file'[p] = Partial
    BY <1>8 DEF SaveClose, TypeOK
  <2>. QED
    BY <1>1, <1>8, <2>1, <2>2 DEF SaveClose, StoreStep, Torn
<1>9. CASE RestorePick(r)
  <2>1. \A b \in Newest(path[r]) : EditsWithin(b.content, Stored \cup Own(r)')
    BY DEF Newest, BackupsOf, StoredWritten, EditsWithin
  <2>2. /\ UNCHANGED <<file, backups>>
        /\ \/ UNCHANGED buf
           \/ \E b \in Newest(path[r]) : buf' = [buf EXCEPT ![r] = b.content]
    BY <1>9 DEF RestorePick
  <2>. QED
    BY <1>1, <2>1, <2>2 DEF StoreStep, TypeOK
<1>10. CASE Bootstrap(r)
  BY <1>1, <1>10, NothingWithin DEF Bootstrap, StoreStep, TypeOK
<1>11. CASE \/ Arrive(r) \/ Acquire(r) \/ Refuse(r) \/ BeginSave(r) \/ SaveFails(r) \/ Respond(r)
            \/ RepointCheck(r) \/ RepointPersist(r) \/ RepointPersistFails(r) \/ RepointSwitch(r)
  BY <1>2, <1>11 DEF Arrive, Acquire, Refuse, BeginSave, SaveFails, Respond, RepointCheck,
                     RepointPersist, RepointPersistFails, RepointSwitch
<1>. QED
  BY <1>3, <1>4, <1>5, <1>6, <1>7, <1>8, <1>9, <1>10, <1>11 DEF Serve

\* The inductive invariant of the next theorem.
RunsWritten == StoredWritten /\ \A v \in Versions : EditsWithin(running[v], Stored)

LEMMA StoreStays ==
  ASSUME TypeOK, RunsWritten, UNCHANGED running, NEW r \in Requests, StoreStep(r)
  PROVE  RunsWritten'
<1>1. \A c : /\ EditsWithin(c, Stored) => EditsWithin(c, Stored')
             /\ Own(r) \subseteq Stored' /\ EditsWithin(c, Stored \cup Own(r))
                  => EditsWithin(c, Stored')
  BY DEF StoreStep, EditsWithin
<1>6. \A q \in Requests : \A c :
        /\ EditsWithin(c, Stored \cup Own(q)) => EditsWithin(c, Stored' \cup Own(q)')
        /\ EditsWithin(c, Stored \cup Own(q)') => EditsWithin(c, Stored' \cup Own(q)')
  BY DEF StoreStep, EditsWithin
<1>2. \A p \in Paths : EditsWithin(file'[p], Stored')
  BY <1>1, NothingWithin DEF RunsWritten, StoredWritten, StoreStep
<1>3. \A b \in backups' : EditsWithin(b.content, Stored')
  <2>1. path[r] \in Paths
    BY DEF TypeOK
  <2>. QED
    BY <1>1, <2>1, NothingWithin DEF RunsWritten, StoredWritten, StoreStep
<1>4. \A q \in Requests : EditsWithin(buf'[q], Stored' \cup Own(q)')
  BY <1>6 DEF RunsWritten, StoredWritten, StoreStep
<1>7. \A q \in Requests : pc'[q] = "idle" => kind'[q] # "edit"
  BY DEF RunsWritten, StoredWritten, StoreStep
<1>5. \A v \in Versions : EditsWithin(running'[v], Stored')
  BY <1>1 DEF RunsWritten
<1>. QED
  BY <1>2, <1>3, <1>4, <1>5, <1>7 DEF RunsWritten, StoredWritten, EditsWithin

\* Whatever moment of a save Kea reads its file at, it only ever runs edits that
\* were written in full: with any requests, repoints included, and any failures,
\* no edit that was refused or whose write was torn reaches the network.
THEOREM RunsOnlyWritten == KeaSpec => []OnlyWrittenEditsRun
<1>1. Init /\ KeaInit => RunsWritten
  <2> SUFFICES ASSUME Init, KeaInit PROVE RunsWritten
    OBVIOUS
  <2>1. \A p \in Paths : EditsWithin(file[p], Stored)
    <3>1. PICK f \in [Paths -> BOOLEAN] :
            file = [p \in Paths |-> IF f[p] THEN Whole({p}) ELSE Absent]
      BY DEF Init
    <3>2. \A p \in Paths : EditsWithin(Whole({p}), Stored)
      BY ConfigStoreAssumption DEF ConfigStoreAssumption, EditsWithin, Whole
    <3>. QED
      BY <3>1, <3>2, NothingWithin
  <2>2. \A v \in Versions : EditsWithin(running[v], Stored)
    BY <2>1, NothingWithin, KeaControlAssumption DEF KeaInit, KeaControlAssumption
  <2>3. backups = {} /\ \A r \in Requests : EditsWithin(buf[r], Stored \cup Own(r))
    BY NothingWithin DEF Init
  <2>. QED
    BY <2>1, <2>2, <2>3 DEF RunsWritten, StoredWritten, Init
<1>2. KeaTypeOK /\ RunsWritten /\ [KeaNext]_<<vars, ctrl>> => RunsWritten'
  <2> SUFFICES ASSUME KeaTypeOK, RunsWritten, [KeaNext]_<<vars, ctrl>> PROVE RunsWritten'
    OBVIOUS
  <2>0. TypeOK
    BY DEF KeaTypeOK
  <2>1. ASSUME NEW r \in Requests, View(r) \/ Arrive(r) \/ Serve(r), Edit PROVE RunsWritten'
    <3>1. StoreStep(r)
      BY <2>0, <2>1, StoreShape DEF RunsWritten
    <3>. QED
      BY <2>0, <2>1, <3>1, StoreStays DEF Edit, kea
  <2>2. ASSUME NEW a \in Applies, ArriveApply(a) \/ ServeApply(a) \/ Reload(a)
        PROVE  RunsWritten'
    <3>1. UNCHANGED <<file, backups, buf, pc, kind>>
      BY <2>2, ApplyLeavesStore DEF vars, disk, request
    <3>2. \A v \in Versions : running'[v] = running[v] \/ running'[v] = file[KeaFile[v]]
      BY <2>2 DEF ArriveApply, ServeApply, Test, Signal, FindSocket, SendReload, Answer,
                  TimeOut, Reload, kea, KeaTypeOK
    <3>3. \A v \in Versions : EditsWithin(running'[v], Stored)
      BY <3>2, KeaControlAssumption DEF KeaControlAssumption, RunsWritten, StoredWritten
    <3>. QED
      BY <3>1, <3>3 DEF RunsWritten, StoredWritten, EditsWithin, Stored, Written, Own
  <2>3. CASE LoseProcess
    <3>1. /\ Stored' = Stored /\ UNCHANGED kind
          /\ \A r \in Requests : pc'[r] = "idle" => pc[r] = "idle"
      BY <2>0, <2>3 DEF LoseProcess, Restart, request, Stored, Written, InFlight, PCs, Results, TypeOK
    <3>2. \A p \in Paths : file'[p] = file[p] \/ file'[p] = Skeleton
      BY <2>3 DEF LoseProcess, Restart
    <3>3. UNCHANGED <<backups, buf, running>>
      BY <2>3 DEF LoseProcess, Restart, request, kea
    <3>4. \A p \in Paths : EditsWithin(file'[p], Stored)
      BY <3>2, NothingWithin DEF RunsWritten, StoredWritten
    <3>. QED
      BY <3>1, <3>3, <3>4 DEF RunsWritten, StoredWritten, EditsWithin, Own
  <2>4. CASE UNCHANGED <<vars, ctrl>>
    BY <2>4 DEF RunsWritten, StoredWritten, EditsWithin, Stored, Written, Own, vars, ctrl, kea,
                disk, request
  <2>. QED
    BY <2>1, <2>2, <2>3, <2>4, KeaSteps
<1>3. RunsWritten => OnlyWrittenEditsRun
  BY DEF RunsWritten, EditsWithin, Stored, OnlyWrittenEditsRun
<1>. QED
  BY <1>1, <1>2, <1>3, KeaTypeCorrect, PTL DEF KeaSpec
=============================================================================
