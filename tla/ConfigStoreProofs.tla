------------------------- MODULE ConfigStoreProofs -------------------------
(* Theorems about ConfigStore, for any requests, files and failures. *)
EXTENDS ConfigStore, FiniteSetTheorems, WellFoundedInduction, TLAPS

-----------------------------------------------------------------------------
(* What the helpers return *)

\* A reading of the clock is a second.
LEMMA ReadingsAreSeconds ==
  ASSUME now \in Nat, NEW t \in ClockReadings
  PROVE  t \in Nat
  BY DEF ClockReadings

\* Adding a backup keeps the directory a set of backups.
LEMMA WithBackupType ==
  ASSUME backups \subseteq [path : Paths, stamp : Nat, content : Content],
         NEW p \in Paths, NEW t \in Nat, NEW c \in Content
  PROVE  WithBackup(p, t, c)
           \subseteq [path : Paths, stamp : Nat, content : Content]
  BY DEF WithBackup

\* The contents that the code writes are contents.
LEMMA ContentTypes ==
  /\ Absent \in Content /\ Empty \in Content /\ Partial \in Content
  /\ Skeleton \in Content
  /\ Torn \subseteq Content
  /\ \A p \in Paths : Whole({p}) \in Content
  BY DEF Absent, Empty, Partial, Skeleton, Torn, Whole, Content, Token

\* Ending a request keeps the lock table and the program counters well formed.
LEMMA FinishType ==
  ASSUME TypeOK, NEW r \in Requests, NEW w \in Results, Finish(r, w)
  PROVE  /\ pc' \in [Requests -> PCs]
         /\ owner' \in [Paths -> Requests \cup {NoRequest}]
  BY DEF TypeOK, Finish, PCs

LEMMA GotoType ==
  ASSUME TypeOK, NEW r \in Requests, NEW l \in PCs, Goto(r, l)
  PROVE  pc' \in [Requests -> PCs]
  BY DEF TypeOK, Goto

-----------------------------------------------------------------------------
(* Type correctness *)

LEMMA TypeStep ==
  ASSUME TypeOK, [Next]_vars
  PROVE  TypeOK'
<1>1. ASSUME NEW r \in Requests, View(r) PROVE TypeOK'
  <2>1. PICK v \in Versions :
          /\ ver' = [ver EXCEPT ![r] = v]
          /\ path' = [path EXCEPT ![r] = conf[v]]
          /\ \/ buf' = [buf EXCEPT ![r] = LoadJson(file[conf[v]])]
             \/ UNCHANGED buf
          /\ Goto(r, "ok") \/ Goto(r, "failed")
    BY <1>1 DEF View
  <2>2. LoadJson(file[conf[v]]) \in Content
    BY DEF TypeOK, LoadJson, Whole, Content
  <2>3. pc' \in [Requests -> PCs]
    BY <2>1, GotoType DEF PCs, Results
  <2>4. /\ ver' \in [Requests -> Versions]
        /\ path' \in [Requests -> Paths]
        /\ buf' \in [Requests -> Content]
    BY <2>1, <2>2 DEF TypeOK
  <2>5. UNCHANGED <<file, backups, saved, now, conf, owner, kind, lockPath, target, before>>
    BY <1>1 DEF View, disk, process
  <2>. QED
    BY <2>3, <2>4, <2>5 DEF TypeOK
<1>2. ASSUME NEW r \in Requests, Arrive(r) PROVE TypeOK'
  <2>1. PICK k \in Kinds \ {"view"}, v \in Versions, p \in Paths :
          /\ kind' = [kind EXCEPT ![r] = k]
          /\ ver' = [ver EXCEPT ![r] = v]
          /\ lockPath' = [lockPath EXCEPT ![r] = conf[v]]
          /\ path' = [path EXCEPT ![r] = conf[v]]
          /\ target' = [target EXCEPT ![r] = p]
    <3>1. \A k, v : v \in Versions => Targets(k, v) \subseteq Paths
      BY DEF TypeOK, Targets
    <3>. QED
      BY <1>2, <3>1 DEF Arrive
  <2>2. /\ kind' \in [Requests -> AllKinds]
        /\ ver' \in [Requests -> Versions]
        /\ lockPath' \in [Requests -> Paths]
        /\ path' \in [Requests -> Paths]
        /\ target' \in [Requests -> Paths]
    BY <2>1, ConfigStoreAssumption DEF TypeOK, ConfigStoreAssumption
  <2>3. pc' \in [Requests -> PCs]
    BY <1>2, GotoType DEF Arrive, PCs
  <2>4. UNCHANGED <<file, backups, saved, now, conf, owner, buf, before>>
    BY <1>2 DEF Arrive, disk, process
  <2>. QED
    BY <2>2, <2>3, <2>4 DEF TypeOK
<1>3. ASSUME NEW r \in Requests, Acquire(r) PROVE TypeOK'
  BY <1>3 DEF Acquire, TypeOK, disk, request, PCs, Goto
<1>4. ASSUME NEW r \in Requests, Load(r) PROVE TypeOK'
  <2>1. Whole(LoadJson(file[conf[ver[r]]]).edits \cup {r}) \in Content
    BY DEF TypeOK, Content, Token, Whole, LoadJson
  <2>2. pc' \in [Requests -> PCs] /\ owner' \in [Paths -> Requests \cup {NoRequest}]
    BY <1>4, GotoType, FinishType DEF Load, TypeOK, PCs, Results
  <2>. QED
    BY <1>4, <2>1, <2>2 DEF Load, TypeOK, disk, AllKinds
<1>5. ASSUME NEW r \in Requests, Refuse(r) PROVE TypeOK'
  BY <1>5 DEF Refuse, TypeOK, disk, request, PCs, Results, Finish
<1>6. ASSUME NEW r \in Requests, BeginSave(r) PROVE TypeOK'
  BY <1>6 DEF BeginSave, TypeOK, disk, process, PCs, Goto
<1>7. ASSUME NEW r \in Requests, CopyBackup(r) PROVE TypeOK'
  <2>1. now' \in Nat /\ backups' \subseteq [path : Paths, stamp : Nat, content : Content]
    <3>1. file[path[r]] \in Content /\ path[r] \in Paths
      BY DEF TypeOK
    <3>2. \A t \in ClockReadings, c \in Content :
            /\ t \in Nat
            /\ WithBackup(path[r], t, c)
                 \subseteq [path : Paths, stamp : Nat, content : Content]
      BY <3>1, ReadingsAreSeconds, WithBackupType DEF TypeOK
    <3>. QED
      BY <1>7, <3>1, <3>2, ContentTypes DEF CopyBackup, TypeOK
  <2>2. pc' \in [Requests -> PCs]
    BY <1>7, GotoType DEF CopyBackup, PCs
  <2>. QED
    BY <1>7, <2>1, <2>2 DEF CopyBackup, TypeOK, process, request
<1>8. ASSUME NEW r \in Requests, CopyFails(r) PROVE TypeOK'
  <2>1. now' \in Nat /\ backups' \subseteq [path : Paths, stamp : Nat, content : Content]
    <3>1. file[path[r]] \in Content /\ path[r] \in Paths
      BY DEF TypeOK
    <3>2. \A t \in ClockReadings, c \in Content :
            /\ t \in Nat
            /\ WithBackup(path[r], t, c)
                 \subseteq [path : Paths, stamp : Nat, content : Content]
      BY <3>1, ReadingsAreSeconds, WithBackupType DEF TypeOK
    <3>. QED
      BY <1>8, <3>1, <3>2, ContentTypes DEF CopyFails, TypeOK
  <2>2. pc' \in [Requests -> PCs] /\ owner' \in [Paths -> Requests \cup {NoRequest}]
    BY <1>8, FinishType DEF CopyFails, TypeOK, Results
  <2>. QED
    BY <1>8, <2>1, <2>2 DEF CopyFails, TypeOK, request
<1>9. ASSUME NEW r \in Requests, Prune(r) PROVE TypeOK'
  BY <1>9 DEF Prune, TypeOK, process, request, PCs, Goto
<1>10. ASSUME NEW r \in Requests, SaveOpen(r) PROVE TypeOK'
  BY <1>10, ContentTypes DEF SaveOpen, TypeOK, process, PCs, Goto
<1>11. ASSUME NEW r \in Requests, SaveDump(r) PROVE TypeOK'
  BY <1>11, ContentTypes DEF SaveDump, TypeOK, process, request, PCs, Goto
<1>12. ASSUME NEW r \in Requests, SaveClose(r) PROVE TypeOK'
  BY <1>12, ContentTypes DEF SaveClose, TypeOK, process, request, PCs, Goto
<1>13. ASSUME NEW r \in Requests, SaveFails(r) PROVE TypeOK'
  BY <1>13 DEF SaveFails, TypeOK, disk, request, PCs, Results, Finish
<1>14. ASSUME NEW r \in Requests, RestorePick(r) PROVE TypeOK'
  <2>1. \A b \in Newest(path[r]) : b.content \in Content
    BY DEF TypeOK, Newest, BackupsOf
  <2>. QED
    BY <1>14, <2>1 DEF RestorePick, TypeOK, disk, PCs, Results, Goto, Finish
<1>15. ASSUME NEW r \in Requests, RepointCheck(r) PROVE TypeOK'
  BY <1>15 DEF RepointCheck, TypeOK, disk, request, PCs, Results, Goto, Finish
<1>16. ASSUME NEW r \in Requests, RepointPersist(r) PROVE TypeOK'
  BY <1>16 DEF RepointPersist, TypeOK, process, request, PCs, Goto
<1>17. ASSUME NEW r \in Requests, RepointSwitch(r) PROVE TypeOK'
  BY <1>17 DEF RepointSwitch, TypeOK, disk, PCs, Goto
<1>18. ASSUME NEW r \in Requests, Bootstrap(r) PROVE TypeOK'
  <2>1. buf' \in [Requests -> Content]
    BY <1>18, ContentTypes DEF Bootstrap, TypeOK
  <2>2. pc' \in [Requests -> PCs] /\ owner' \in [Paths -> Requests \cup {NoRequest}]
    BY <1>18, GotoType, FinishType DEF Bootstrap, TypeOK, PCs, Results
  <2>. QED
    BY <1>18, <2>1, <2>2 DEF Bootstrap, TypeOK, disk
<1>19. CASE Crash
  BY <1>19, ContentTypes DEF Crash, Restart, TypeOK, request, PCs, Results
<1>21. ASSUME NEW r \in Requests, Respond(r) PROVE TypeOK'
  BY <1>21 DEF Respond, TypeOK, disk, request, PCs, Results, Finish
<1>22. ASSUME NEW r \in Requests, RepointPersistFails(r) PROVE TypeOK'
  BY <1>22 DEF RepointPersistFails, AnyPointers, TypeOK, request, PCs, Results, Finish
<1>20. CASE Quiescent \/ UNCHANGED vars
  BY <1>20 DEF Quiescent, TypeOK, vars, disk, process, request
<1>. QED
  BY <1>1, <1>2, <1>3, <1>4, <1>5, <1>6, <1>7, <1>8, <1>9, <1>10, <1>11, <1>12,
     <1>13, <1>14, <1>15, <1>16, <1>17, <1>18, <1>19, <1>20, <1>21, <1>22 DEF Next, Serve

\* A restart keeps the types too, whether or not a request was in flight.
LEMMA RestartType ==
  ASSUME TypeOK, Restart
  PROVE  TypeOK'
  BY ContentTypes DEF Restart, TypeOK, request, PCs, Results

LEMMA InitType ==
  ASSUME Init
  PROVE  TypeOK
<1>1. PICK f \in [Paths -> BOOLEAN] :
        file = [p \in Paths |-> IF f[p] THEN Whole({p}) ELSE Absent]
  BY DEF Init
<1>2. file \in [Paths -> Content]
  BY <1>1, ContentTypes
<1>3. conf \in [Versions -> Paths] /\ saved \in [Versions -> Paths]
  BY DEF Init
<1>4. ver \in [Requests -> Versions]
  BY ConfigStoreAssumption DEF Init, ConfigStoreAssumption
<1>. QED
  BY <1>2, <1>3, <1>4, ContentTypes DEF Init, TypeOK, PCs, AllKinds

\* Every variable keeps its type, whatever the constants.
THEOREM TypeCorrect == Spec => []TypeOK
  BY InitType, TypeStep, PTL DEF Spec

-----------------------------------------------------------------------------
(* Locks *)

\* Serving a request either takes its lock, or goes on holding it, or ends the
\* request and releases it.
LEMMA ServeShape ==
  ASSUME NEW r \in Requests, Serve(r)
  PROVE  \/ Acquire(r)
         \/ /\ pc[r] \in Holding
            /\ UNCHANGED lockPath
            /\ \/ \E l \in Holding : Goto(r, l) /\ UNCHANGED owner
               \/ \E w \in Results : Finish(r, w)
<1> DEFINE Shape == /\ pc[r] \in Holding
                   /\ UNCHANGED lockPath
                   /\ \/ \E l \in Holding : Goto(r, l) /\ UNCHANGED owner
                      \/ \E w \in Results : Finish(r, w)
<1> USE DEF Holding, InFlight, PCs, Results
<1>1. Load(r) \/ Refuse(r) \/ BeginSave(r) => Shape
  BY DEF Load, Refuse, BeginSave, request, process
<1>2. CopyBackup(r) \/ CopyFails(r) \/ Prune(r) => Shape
  BY DEF CopyBackup, CopyFails, Prune, request, process
<1>3. SaveOpen(r) \/ SaveDump(r) \/ SaveClose(r) \/ SaveFails(r) => Shape
  BY DEF SaveOpen, SaveDump, SaveClose, SaveFails, request, process
<1>4. Respond(r) \/ RestorePick(r) \/ RepointCheck(r) \/ RepointPersist(r) => Shape
  BY DEF Respond, RestorePick, RepointCheck, RepointPersist, request, process
<1>5. RepointPersistFails(r) \/ RepointSwitch(r) \/ Bootstrap(r) => Shape
  BY DEF RepointPersistFails, RepointSwitch, Bootstrap, request, process
<1>. QED
  BY <1>1, <1>2, <1>3, <1>4, <1>5 DEF Serve

LEMMA LockHeldStep ==
  ASSUME TypeOK, LockHeld, [Next]_vars
  PROVE  LockHeld'
<1>1. ASSUME NEW r \in Requests, View(r) \/ Arrive(r) PROVE LockHeld'
  <2>1. /\ pc[r] = "idle" /\ pc'[r] \notin Holding /\ UNCHANGED owner
        /\ \A q \in Requests \ {r} : pc'[q] = pc[q] /\ lockPath'[q] = lockPath[q]
    BY <1>1 DEF View, Arrive, process, Goto, TypeOK, Holding, InFlight, PCs, Results
  <2>. QED BY <2>1 DEF LockHeld
<1>2. ASSUME NEW r \in Requests, Acquire(r) PROVE LockHeld'
  <2>1. /\ owner[lockPath[r]] = NoRequest /\ UNCHANGED lockPath
        /\ owner' = [owner EXCEPT ![lockPath[r]] = r]
        /\ \A q \in Requests \ {r} : pc'[q] = pc[q]
    BY <1>2 DEF Acquire, Goto, TypeOK, request
  <2>2. owner'[lockPath[r]] = r
    BY <2>1 DEF TypeOK
  <2>3. \A q \in Requests \ {r} : pc[q] \in Holding => lockPath[q] # lockPath[r]
    BY <2>1, ConfigStoreAssumption DEF LockHeld, ConfigStoreAssumption
  <2>. QED
    BY <2>1, <2>2, <2>3 DEF LockHeld, TypeOK
<1>3. ASSUME NEW r \in Requests, pc[r] \in Holding, UNCHANGED lockPath,
             NEW l \in Holding, Goto(r, l), UNCHANGED owner
      PROVE  LockHeld'
  BY <1>3 DEF Goto, LockHeld, TypeOK
<1>4. ASSUME NEW r \in Requests, pc[r] \in Holding, UNCHANGED lockPath,
             NEW w \in Results, Finish(r, w)
      PROVE  LockHeld'
  <2>1. pc'[r] \notin Holding /\ \A q \in Requests \ {r} : pc'[q] = pc[q]
    BY <1>4 DEF Finish, TypeOK, Holding, InFlight
  <2>2. \A q \in Requests \ {r} : pc[q] \in Holding => lockPath[q] # lockPath[r]
    BY <1>4 DEF LockHeld
  <2>. QED
    BY <1>4, <2>1, <2>2 DEF Finish, LockHeld, TypeOK
<1>5. CASE Crash
  BY <1>5 DEF Crash, Restart, LockHeld, Holding, InFlight, TypeOK, PCs, Results
<1>6. CASE Quiescent \/ UNCHANGED vars
  BY <1>6 DEF Quiescent, LockHeld, vars, process, request
<1>. QED
  BY <1>1, <1>2, <1>3, <1>4, <1>5, <1>6, ServeShape DEF Next

\* At every instant, with any kind of request and any failure, a request that
\* has passed its wait owns the lock it asked for: no two of them ever hold the
\* lock of the same path (config_lock).
THEOREM LocksExclude == Spec => []LockHeld
<1>1. Init => LockHeld
  BY DEF Init, LockHeld, Holding, InFlight, Results
<1>. QED
  BY <1>1, LockHeldStep, TypeCorrect, PTL DEF Spec

-----------------------------------------------------------------------------
(* A step of one request leaves the others alone *)

RequestStep(r) == View(r) \/ Arrive(r) \/ Serve(r)

\* A step of one request touches the locals of no other.
LEMMA OthersKept ==
  ASSUME TypeOK, NEW r \in Requests, RequestStep(r), NEW q \in Requests \ {r}
  PROVE  /\ pc'[q] = pc[q] /\ kind'[q] = kind[q] /\ ver'[q] = ver[q]
         /\ path'[q] = path[q] /\ target'[q] = target[q] /\ lockPath'[q] = lockPath[q]
         /\ buf'[q] = buf[q] /\ before'[q] = before[q]
<1> DEFINE Kept == /\ pc'[q] = pc[q] /\ kind'[q] = kind[q] /\ ver'[q] = ver[q]
                   /\ path'[q] = path[q] /\ target'[q] = target[q]
                   /\ lockPath'[q] = lockPath[q]
                   /\ buf'[q] = buf[q] /\ before'[q] = before[q]
<1> USE DEF TypeOK, Goto, Finish, disk, process, request
<1>1. View(r) \/ Arrive(r) => Kept
  BY DEF View, Arrive
<1>2. Acquire(r) \/ Load(r) \/ Refuse(r) \/ BeginSave(r) => Kept
  BY DEF Acquire, Load, Refuse, BeginSave
<1>3. CopyBackup(r) \/ CopyFails(r) \/ Prune(r) => Kept
  BY DEF CopyBackup, CopyFails, Prune
<1>4. SaveOpen(r) \/ SaveDump(r) \/ SaveClose(r) \/ SaveFails(r) => Kept
  BY DEF SaveOpen, SaveDump, SaveClose, SaveFails
<1>5. Respond(r) \/ RestorePick(r) \/ RepointCheck(r) \/ RepointPersist(r) => Kept
  BY DEF Respond, RestorePick, RepointCheck, RepointPersist
<1>6. RepointPersistFails(r) \/ RepointSwitch(r) \/ Bootstrap(r) => Kept
  BY DEF RepointPersistFails, RepointSwitch, Bootstrap
<1>. QED
  BY <1>1, <1>2, <1>3, <1>4, <1>5, <1>6 DEF RequestStep, Serve

-----------------------------------------------------------------------------
(* As long as a repoint is not in the middle of other requests *)

LEMMA PinnedStep ==
  ASSUME RepointsAlone, TypeOK, Pinned, [Next]_vars
  PROVE  Pinned'
<1> DEFINE Pointers == \A v \in Versions : VersionOf[conf[v]] = v /\ VersionOf[saved[v]] = v
           Of(r) == pc[r] \in InFlight =>
                      /\ kind[r] # "view"
                      /\ pc[r] \in {"persist", "switch", "boot"} => kind[r] = "repoint"
                      /\ pc[r] \in {"loaded", "copy", "prune"} => kind[r] # "repoint"
                      /\ VersionOf[target[r]] = ver[r]
                      /\ path[r] = conf[ver[r]]
                      /\ pc[r] = "boot" => path[r] = target[r]
                      /\ (Switching(r) /\ pc[r] # "switch") \/ lockPath[r] = path[r]
<1>0. Pointers /\ \A r \in Requests : Of(r)
  BY DEF Pinned
<1>p. Pointers' /\ (\A r \in Requests : Of(r)') => Pinned'
  BY DEF Pinned

\* Another request's step, unless it moves the pointer, leaves a request as it was.
<1>q. ASSUME NEW r \in Requests, RequestStep(r), NEW q \in Requests \ {r},
             pc[q] \in InFlight => conf'[ver[q]] = conf[ver[q]]
      PROVE  Of(q)'
  <2>1. /\ pc'[q] = pc[q] /\ kind'[q] = kind[q] /\ ver'[q] = ver[q]
        /\ path'[q] = path[q] /\ target'[q] = target[q] /\ lockPath'[q] = lockPath[q]
    BY <1>q, OthersKept
  <2>2. Switching(q)' <=> Switching(q)
    BY <2>1 DEF Switching
  <2>3. Of(q)
    BY <1>0
  <2>. QED
    BY <1>q, <2>1, <2>2, <2>3
<1>r. ASSUME NEW r \in Requests, RequestStep(r), UNCHANGED conf, Pointers', Of(r)'
      PROVE  Pinned'
  BY <1>p, <1>q, <1>r

\* The steps that persist or move no pointer.
<1>u. ASSUME NEW r \in Requests, RequestStep(r), UNCHANGED <<conf, saved>>, Of(r)'
      PROVE  Pinned'
  BY <1>0, <1>r, <1>u
<1> USE DEF InFlight, PCs, Results
<1>1. ASSUME NEW r \in Requests, View(r) PROVE Pinned'
  <2>1. pc'[r] \in Results /\ UNCHANGED <<conf, saved>>
    BY <1>1 DEF View, TypeOK, Goto, disk, process
  <2>. QED
    BY <1>1, <1>u, <2>1 DEF RequestStep
<1>2. ASSUME NEW r \in Requests, Arrive(r) PROVE Pinned'
  <2>1. PICK k \in Kinds \ {"view"}, v \in Versions : \E p \in Targets(k, v) :
          /\ kind' = [kind EXCEPT ![r] = k]
          /\ ver' = [ver EXCEPT ![r] = v]
          /\ lockPath' = [lockPath EXCEPT ![r] = conf[v]]
          /\ path' = [path EXCEPT ![r] = conf[v]]
          /\ target' = [target EXCEPT ![r] = p]
    BY <1>2 DEF Arrive
  <2>2. \A p \in Targets(k, v) : VersionOf[p] = v
    BY <1>0 DEF Targets
  <2>3. UNCHANGED <<conf, saved>> /\ pc'[r] = "wait"
    BY <1>2 DEF Arrive, disk, process, Goto, TypeOK
  <2>4. Of(r)'
    BY <2>1, <2>2, <2>3 DEF TypeOK
  <2>. QED
    BY <1>2, <1>u, <2>3, <2>4 DEF RequestStep
<1>3. ASSUME NEW r \in Requests,
             Acquire(r) \/ Refuse(r) \/ Prune(r) \/ CopyBackup(r) \/ CopyFails(r)
      PROVE  Pinned'
  <2>1. Of(r)' /\ UNCHANGED <<conf, saved>>
    BY <1>0, <1>3 DEF Acquire, Refuse, Prune, CopyBackup, CopyFails, TypeOK, Goto, Finish,
                      disk, process, request, Switching
  <2>. QED
    BY <1>3, <1>u, <2>1 DEF RequestStep, Serve
<1>4. ASSUME NEW r \in Requests, Load(r) \/ BeginSave(r) PROVE Pinned'
  <2>1. Of(r)' /\ UNCHANGED <<conf, saved>>
    BY <1>0, <1>4 DEF Load, BeginSave, TypeOK, Goto, Finish, disk, process, Switching
  <2>. QED
    BY <1>4, <1>u, <2>1 DEF RequestStep, Serve
<1>5. ASSUME NEW r \in Requests,
             SaveOpen(r) \/ SaveDump(r) \/ SaveClose(r) \/ SaveFails(r) \/ Respond(r)
      PROVE  Pinned'
  <2>1. Of(r)' /\ UNCHANGED <<conf, saved>>
    BY <1>0, <1>5 DEF SaveOpen, SaveDump, SaveClose, SaveFails, Respond, TypeOK, Goto, Finish,
                      disk, process, request, Switching
  <2>. QED
    BY <1>5, <1>u, <2>1 DEF RequestStep, Serve
<1>6. ASSUME NEW r \in Requests, RestorePick(r) \/ RepointCheck(r) \/ Bootstrap(r)
      PROVE  Pinned'
  <2>1. Of(r)' /\ UNCHANGED <<conf, saved>>
    BY <1>0, <1>6 DEF RestorePick, RepointCheck, Bootstrap, TypeOK, Goto, Finish,
                      disk, process, request, Switching
  <2>. QED
    BY <1>6, <1>u, <2>1 DEF RequestStep, Serve
<1>7. ASSUME NEW r \in Requests, RepointPersist(r) PROVE Pinned'
  <2>1. Of(r)' /\ UNCHANGED conf
    BY <1>0, <1>7 DEF RepointPersist, TypeOK, Goto, process, request, Switching
  <2>2. saved' = [saved EXCEPT ![ver[r]] = target[r]] /\ VersionOf[target[r]] = ver[r]
    BY <1>0, <1>7 DEF RepointPersist
  <2>3. Pointers'
    BY <1>0, <2>1, <2>2 DEF TypeOK
  <2>. QED
    BY <1>7, <1>r, <2>1, <2>3 DEF RequestStep, Serve
<1>11. ASSUME NEW r \in Requests, RepointPersistFails(r) PROVE Pinned'
  <2>1. pc'[r] \in Results /\ UNCHANGED conf
    BY <1>11 DEF RepointPersistFails, TypeOK, Finish
  <2>2. Pointers'
    BY <1>0, <1>11, <2>1 DEF RepointPersistFails, AnyPointers
  <2>. QED
    BY <1>11, <1>r, <2>1, <2>2 DEF RequestStep, Serve
<1>8. ASSUME NEW r \in Requests, RepointSwitch(r) PROVE Pinned'
  <2>1. /\ pc[r] = "switch" /\ pc'[r] = "boot" /\ kind[r] = "repoint"
        /\ VersionOf[target[r]] = ver[r]
        /\ conf' = [conf EXCEPT ![ver[r]] = target[r]]
        /\ path' = [path EXCEPT ![r] = target[r]]
        /\ UNCHANGED <<saved, kind, ver, target, lockPath>>
    BY <1>0, <1>8 DEF RepointSwitch, TypeOK, Goto, disk
  <2>2. Pointers'
    BY <1>0, <2>1 DEF TypeOK
  <2>3. Of(r)'
    BY <2>1 DEF TypeOK, Switching
  <2>4. ASSUME NEW q \in Requests \ {r}, pc[q] \in InFlight PROVE conf'[ver[q]] = conf[ver[q]]
    <3>1. ver[q] # ver[r]
      BY <2>1, <2>4 DEF RepointsAlone, Switching
    <3>. QED
      BY <2>1, <3>1 DEF TypeOK
  <2>5. RequestStep(r)
    BY <1>8 DEF RequestStep, Serve
  <2>6. \A q \in Requests \ {r} : Of(q)'
    BY <1>q, <2>4, <2>5
  <2>. QED
    BY <1>p, <2>2, <2>3, <2>6
<1>9. CASE Crash
  <2>1. conf' = saved /\ saved' = saved /\ \A r \in Requests : pc'[r] \notin InFlight
    BY <1>9 DEF Crash, Restart, TypeOK
  <2>. QED
    BY <1>0, <1>p, <2>1
<1>10. CASE Quiescent \/ UNCHANGED vars
  <2>1. UNCHANGED <<conf, saved, pc, kind, ver, lockPath, path, target>>
    BY <1>10 DEF Quiescent, vars, disk, process, request
  <2>. QED
    BY <2>1 DEF Pinned, Switching
<1>. QED
  BY <1>1, <1>2, <1>3, <1>4, <1>5, <1>6, <1>7, <1>8, <1>9, <1>10, <1>11 DEF Next, Serve

LEMMA AlwaysPinned == Spec /\ []RepointsAlone => []Pinned
<1>1. Init => Pinned
  BY DEF Init, Pinned, InFlight, Results
<1>2. RepointsAlone /\ TypeOK /\ Pinned /\ [Next]_vars => Pinned'
  BY PinnedStep
<1>. QED
  BY <1>1, <1>2, TypeCorrect, PTL DEF Spec

LEMMA HeldAndPinned ==
  ASSUME TypeOK, RepointsAlone, LockHeld, Pinned
  PROVE  CyclesNeverInterleave
<1> SUFFICES ASSUME NEW r \in Requests, NEW q \in Requests, r # q,
                    pc[r] \in Cycle, pc[q] \in Cycle
             PROVE  path[r] # path[q]
  BY DEF CyclesNeverInterleave
<1> USE DEF Cycle, Holding, InFlight, PCs, Results
<1>1. /\ VersionOf[path[r]] = ver[r] /\ VersionOf[path[q]] = ver[q]
      /\ Switching(r) \/ lockPath[r] = path[r]
      /\ Switching(q) \/ lockPath[q] = path[q]
  BY DEF Pinned, TypeOK
<1>2. CASE Switching(r) \/ Switching(q)
  <2>1. ver[r] # ver[q]
    BY <1>2 DEF RepointsAlone
  <2>. QED
    BY <1>1, <2>1
<1>3. CASE ~Switching(r) /\ ~Switching(q)
  <2>1. owner[lockPath[r]] = r /\ owner[lockPath[q]] = q
    BY DEF LockHeld
  <2>. QED
    BY <1>1, <1>3, <2>1
<1>. QED
  BY <1>2, <1>3

\* No two requests are between the load and the end of the save of the same file,
\* whatever fails, as long as every repoint is alone while it switches: requests
\* that wait through a repoint are the only way round config_lock.
THEOREM NoInterleaving == Spec /\ []RepointsAlone => []CyclesNeverInterleave
  BY LocksExclude, AlwaysPinned, HeldAndPinned, TypeCorrect, PTL

-----------------------------------------------------------------------------
(* As long as nobody repoints EZ-KEA at another file *)

NoRepoint == "repoint" \notin Kinds

\* A request is of a kind that arrives, or has turned into an edit.
LEMMA NoneRepoints ==
  ASSUME NoRepoint, TypeOK, \A r \in Requests : kind[r] # "repoint", [Next]_vars
  PROVE  \A r \in Requests : kind'[r] # "repoint"
<1>1. ASSUME NEW r \in Requests, View(r) \/ Serve(r) PROVE \A q \in Requests : kind'[q] # "repoint"
  <2>1. Load(r) \/ UNCHANGED kind
    BY <1>1 DEF View, Serve, Acquire, Refuse, BeginSave, CopyBackup, CopyFails, Prune, SaveOpen,
         SaveDump, SaveClose, SaveFails, Respond, RestorePick, RepointCheck, RepointPersist,
         RepointPersistFails, RepointSwitch, Bootstrap, request
  <2>. QED
    BY <2>1 DEF Load, TypeOK
<1>2. ASSUME NEW r \in Requests, Arrive(r) PROVE \A q \in Requests : kind'[q] # "repoint"
  BY <1>2 DEF Arrive, NoRepoint, TypeOK
<1>3. Crash \/ Quiescent \/ UNCHANGED vars => UNCHANGED kind
  BY DEF Crash, Restart, Quiescent, vars, request
<1>. QED
  BY <1>1, <1>2, <1>3 DEF Next

LEMMA NoRepointIsAlone ==
  ASSUME NoRepoint
  PROVE  Spec => []RepointsAlone
<1> DEFINE None == \A r \in Requests : kind[r] # "repoint"
<1>1. Init => None
  BY DEF Init
<1>2. TypeOK /\ None /\ [Next]_vars => None'
  BY NoneRepoints
<1>3. None => RepointsAlone
  BY DEF RepointsAlone, Switching
<1> HIDE DEF None
<1>. QED
  BY <1>1, <1>2, <1>3, TypeCorrect, PTL DEF Spec

\* In particular, as long as nobody repoints.
COROLLARY NoInterleavingWithoutRepoints ==
  ASSUME NoRepoint
  PROVE  Spec => []CyclesNeverInterleave
  BY NoInterleaving, NoRepointIsAlone, PTL

-----------------------------------------------------------------------------
(* What a step leaves alone *)

\* The steps of a request in its load-to-save cycle.
CycleStep(r) ==
  \/ Refuse(r) \/ BeginSave(r) \/ CopyBackup(r) \/ CopyFails(r) \/ Prune(r)
  \/ SaveOpen(r) \/ SaveDump(r) \/ SaveClose(r) \/ SaveFails(r)

\* The work is done: the answer is due, or has been given.
Over == {"answer"} \cup Results

\* Once in its cycle a request stays with its path and what it will write, and
\* leaves the cycle only for its answer, after which it does nothing.
LEMMA CycleKept ==
  ASSUME TypeOK, Pinned, NEW r \in Requests, RequestStep(r), pc[r] \in Cycle \cup Results
  PROVE  /\ CycleStep(r) /\ pc[r] \in Cycle
         /\ pc'[r] \in Cycle \cup Over
         /\ path'[r] = path[r] /\ kind'[r] = kind[r] /\ buf'[r] = buf[r]
<1>1. CycleStep(r) /\ pc[r] \in Cycle
  BY DEF RequestStep, Serve, CycleStep, View, Arrive, Acquire, Load, Refuse, BeginSave, CopyBackup,
         CopyFails, Prune, SaveOpen, SaveDump, SaveClose, SaveFails, Respond, RestorePick,
         RepointCheck, RepointPersist, RepointPersistFails, RepointSwitch, Bootstrap, Cycle, Results
<1> DEFINE Goal == /\ pc'[r] \in Cycle \cup Over
                   /\ path'[r] = path[r] /\ kind'[r] = kind[r] /\ buf'[r] = buf[r]
<1> USE DEF TypeOK, Goto, Finish, disk, process, request, Cycle, Results, Over
<1>2. BeginSave(r) => Goal
  <2>1. path[r] = conf[ver[r]]
    BY <1>1 DEF Pinned, InFlight, PCs
  <2>. QED
    BY <2>1 DEF BeginSave
<1>3. Refuse(r) \/ CopyBackup(r) \/ CopyFails(r) \/ Prune(r) => Goal
  BY DEF Refuse, CopyBackup, CopyFails, Prune
<1>4. SaveOpen(r) \/ SaveDump(r) \/ SaveClose(r) \/ SaveFails(r) => Goal
  BY DEF SaveOpen, SaveDump, SaveClose, SaveFails
<1>. QED
  BY <1>1, <1>2, <1>3, <1>4 DEF CycleStep

\* All that is left of a request that has its answer due is to give it.
LEMMA AnswerKept ==
  ASSUME TypeOK, NEW r \in Requests, RequestStep(r), pc[r] = "answer"
  PROVE  /\ Respond(r) /\ pc'[r] = "ok"
         /\ path'[r] = path[r] /\ kind'[r] = kind[r] /\ before'[r] = before[r]
<1>1. Respond(r)
  BY DEF RequestStep, Serve, View, Arrive, Acquire, Load, Refuse, BeginSave, CopyBackup,
         CopyFails, Prune, SaveOpen, SaveDump, SaveClose, SaveFails, RestorePick,
         RepointCheck, RepointPersist, RepointPersistFails, RepointSwitch, Bootstrap
<1>. QED
  BY <1>1 DEF Respond, TypeOK, Finish, request

\* What belonged to a path belongs to it for ever.
LEMMA BelongingStays ==
  ASSUME TypeOK, Pinned, [Next]_vars, NEW t, NEW p \in Paths, BelongsTo(t, p)
  PROVE  BelongsTo(t, p)'
<1>1. CASE t = p
  BY <1>1 DEF BelongsTo
<1>2. CASE t \in Requests /\ path[t] = p /\ pc[t] \in Cycle \cup Over
  <2>1. ASSUME NEW r \in Requests, RequestStep(r) PROVE path'[t] = path[t] /\ pc'[t] \in Cycle \cup Over
    <3>1. CASE t # r
      BY <1>2, <2>1, <3>1, OthersKept
    <3>2. CASE t = r /\ pc[t] = "answer"
      BY <2>1, <3>2, AnswerKept DEF Over, Results
    <3>3. CASE t = r /\ pc[t] \in Cycle \cup Results
      BY <2>1, <3>3, CycleKept
    <3>. QED
      BY <1>2, <3>1, <3>2, <3>3 DEF Over
  <2>2. CASE Crash
    BY <1>2, <2>2 DEF Crash, Restart, request, Cycle, Results, Over, InFlight, TypeOK, BelongsTo
  <2>3. CASE Quiescent \/ UNCHANGED vars
    BY <1>2, <2>3 DEF Quiescent, vars, request, BelongsTo
  <2>. QED
    BY <1>2, <2>1, <2>2, <2>3 DEF Next, RequestStep, BelongsTo, Over
<1>. QED
  BY <1>1, <1>2 DEF BelongsTo, Over

-----------------------------------------------------------------------------
(* Files never mix *)

\* A request that has read nothing has nothing to write.
UnreadIsSkeleton == \A r \in Requests : pc[r] \in {"idle", "wait"} => buf[r].edits = {}

\* The three parts of OnlyOwnEdits.
FilesOwn   == \A p \in Paths : \A t \in file[p].edits : BelongsTo(t, p)
BackupsOwn == \A b \in backups : \A t \in b.content.edits : BelongsTo(t, b.path)
BuffersOwn == \A r \in Requests : pc[r] \in Cycle =>
                \A t \in buf[r].edits : BelongsTo(t, path[r])

\* What the code writes to a file without having read anything.
LEMMA NoEdits ==
  /\ Absent.edits = {} /\ Empty.edits = {} /\ Partial.edits = {} /\ Skeleton.edits = {}
  /\ \A c \in Torn : c.edits = {}
  /\ \A S : Whole(S).edits = S
  BY DEF Absent, Empty, Partial, Skeleton, Torn, Whole

\* A new content of one file, of which every edit belongs there.
LEMMA FileOwn ==
  ASSUME TypeOK, Pinned, [Next]_vars, OnlyOwnEdits,
         NEW v \in Paths, NEW c, file' = [file EXCEPT ![v] = c],
         \A t \in c.edits : BelongsTo(t, v)
  PROVE  FilesOwn'
<1>1. ASSUME NEW p \in Paths, NEW t \in file'[p].edits PROVE BelongsTo(t, p)
  BY <1>1 DEF OnlyOwnEdits, TypeOK
<1>2. ASSUME NEW p \in Paths, NEW t \in file'[p].edits PROVE BelongsTo(t, p)'
  BY <1>1, <1>2, BelongingStays
<1>. QED
  BY <1>2 DEF FilesOwn

\* A new backup of one path, of which every edit belongs there.
LEMMA BackupOwn ==
  ASSUME TypeOK, Pinned, [Next]_vars, OnlyOwnEdits,
         NEW v \in Paths, NEW c, NEW s, backups' \subseteq WithBackup(v, s, c),
         \A t \in c.edits : BelongsTo(t, v)
  PROVE  BackupsOwn'
<1>1. ASSUME NEW b \in backups', NEW t \in b.content.edits
      PROVE  b.path \in Paths /\ BelongsTo(t, b.path)
  BY <1>1 DEF OnlyOwnEdits, TypeOK, WithBackup
<1>2. ASSUME NEW b \in backups', NEW t \in b.content.edits PROVE BelongsTo(t, b.path)'
  BY <1>1, <1>2, BelongingStays
<1>. QED
  BY <1>2 DEF BackupsOwn

\* What is unchanged goes on belonging.
LEMMA StillOwn ==
  ASSUME TypeOK, Pinned, [Next]_vars, OnlyOwnEdits
  PROVE  /\ UNCHANGED file => FilesOwn'
         /\ backups' \subseteq backups => BackupsOwn'
<1>1. ASSUME UNCHANGED file, NEW p \in Paths, NEW t \in file'[p].edits
      PROVE  BelongsTo(t, p)'
  BY <1>1, BelongingStays DEF OnlyOwnEdits
<1>2. ASSUME backups' \subseteq backups, NEW b \in backups', NEW t \in b.content.edits
      PROVE  BelongsTo(t, b.path)'
  <2>1. b.path \in Paths /\ BelongsTo(t, b.path)
    BY <1>2 DEF OnlyOwnEdits, TypeOK
  <2>. QED
    BY <2>1, BelongingStays
<1>. QED
  BY <1>1, <1>2 DEF FilesOwn, BackupsOwn

\* A request that enters its cycle has in memory what it loaded, its own edit,
\* the backup it restores, or nothing.
LEMMA BufferOwn ==
  ASSUME TypeOK, Pinned, [Next]_vars, OnlyOwnEdits, UnreadIsSkeleton,
         NEW r \in Requests, RequestStep(r)
  PROVE  BuffersOwn' /\ UnreadIsSkeleton'
<1>1. ASSUME NEW q \in Requests, pc[q] \in Cycle
      PROVE  \A t \in buf'[q].edits : BelongsTo(t, path[q])'
  <2>1. path'[q] = path[q] /\ buf'[q] = buf[q]
    BY <1>1, OthersKept, CycleKept
  <2>2. PICK p \in Paths : p = path[q]
    BY DEF TypeOK
  <2>3. ASSUME NEW t \in buf[q].edits PROVE BelongsTo(t, p)'
    BY <1>1, <2>2, BelongingStays DEF OnlyOwnEdits
  <2>. QED
    BY <2>1, <2>2, <2>3
<1>2. ASSUME pc[r] \notin Cycle, pc'[r] \in Cycle
      PROVE  \A t \in buf'[r].edits : BelongsTo(t, path[r])'
  <2>1. pc[r] \notin Results
    BY <1>2, CycleKept
  <2>2. \/ Acquire(r) \/ Load(r) \/ RestorePick(r) \/ Bootstrap(r)
    BY <1>2, <2>1 DEF RequestStep, Serve, View, Arrive, Refuse, BeginSave, CopyBackup,
         CopyFails, Prune, SaveOpen, SaveDump, SaveClose, SaveFails, Respond,
         RepointCheck, RepointPersist, RepointPersistFails, RepointSwitch, Cycle, Results,
         TypeOK, Goto, Finish
  <2>3. CASE Acquire(r)
    <3>1. buf'[r].edits = {}
      BY <2>3 DEF Acquire, UnreadIsSkeleton, request
    <3>. QED
      BY <3>1
  <2>4. CASE Load(r)
    <3>1. PICK p \in Paths : p = conf[ver[r]]
      BY DEF TypeOK
    <3>2. /\ path'[r] = p /\ pc'[r] = "loaded"
          /\ buf'[r].edits = file[p].edits \cup {r}
      BY <1>2, <2>4, <3>1 DEF Load, TypeOK, Goto, Finish, Cycle, Whole, LoadJson
    <3>3. ASSUME NEW t \in file[p].edits PROVE BelongsTo(t, p)'
      BY <3>1, BelongingStays DEF OnlyOwnEdits
    <3>4. BelongsTo(r, path[r])'
      BY <3>2 DEF BelongsTo, Cycle
    <3>. QED
      BY <3>2, <3>3, <3>4
  <2>5. CASE RestorePick(r)
    <3>1. path'[r] = path[r] /\ path[r] \in Paths
      BY <2>5 DEF RestorePick, TypeOK
    <3>2. PICK b \in Newest(path[r]) : buf'[r] = b.content
      BY <1>2, <2>5 DEF RestorePick, TypeOK, Goto, Finish, Cycle
    <3>3. b \in backups /\ b.path = path[r]
      BY DEF Newest, BackupsOf
    <3>4. \A t \in b.content.edits : BelongsTo(t, path[r])
      BY <3>3 DEF OnlyOwnEdits
    <3>5. \A t \in b.content.edits : BelongsTo(t, path[r])'
      BY <3>1, <3>4, BelongingStays
    <3>. QED
      BY <3>1, <3>2, <3>5
  <2>6. CASE Bootstrap(r)
    <3>1. buf'[r].edits = {}
      BY <1>2, <2>6, NoEdits DEF Bootstrap, TypeOK, Finish, Cycle, Results
    <3>. QED
      BY <3>1
  <2>. QED
    BY <2>2, <2>3, <2>4, <2>5, <2>6
<1>3. ASSUME NEW q \in Requests, pc'[q] \in Cycle
      PROVE  \A t \in buf'[q].edits : BelongsTo(t, path[q])'
  BY <1>1, <1>2, <1>3, OthersKept
<1>4. UnreadIsSkeleton'
  <2>1. pc'[r] \in {"idle", "wait"} => pc[r] = "idle" /\ buf'[r] = buf[r]
    BY DEF RequestStep, Serve, View, Arrive, Acquire, Load, Refuse, BeginSave, CopyBackup,
         CopyFails, Prune, SaveOpen, SaveDump, SaveClose, SaveFails, Respond, RestorePick,
         RepointCheck, RepointPersist, RepointPersistFails,
         RepointSwitch, Bootstrap, TypeOK, Goto, Finish
  <2>. QED
    BY <2>1, OthersKept DEF UnreadIsSkeleton
<1>. QED
  BY <1>3, <1>4 DEF BuffersOwn

LEMMA OnlyOwnEditsStep ==
  ASSUME TypeOK, Pinned, OnlyOwnEdits, UnreadIsSkeleton, [Next]_vars
  PROVE  OnlyOwnEdits' /\ UnreadIsSkeleton'
<1>0. FilesOwn' /\ BackupsOwn' /\ BuffersOwn' => OnlyOwnEdits'
  BY DEF OnlyOwnEdits, FilesOwn, BackupsOwn, BuffersOwn
<1>1. ASSUME NEW r \in Requests, RequestStep(r), UNCHANGED file, backups' \subseteq backups
      PROVE  OnlyOwnEdits' /\ UnreadIsSkeleton'
  BY <1>0, <1>1, StillOwn, BufferOwn

\* The steps that neither write a file nor add a backup.
<1>2. ASSUME NEW r \in Requests,
             \/ View(r) \/ Arrive(r) \/ Acquire(r) \/ Load(r) \/ Refuse(r) \/ BeginSave(r)
             \/ Prune(r) \/ SaveFails(r) \/ Respond(r) \/ RestorePick(r) \/ RepointCheck(r)
             \/ RepointPersist(r) \/ RepointPersistFails(r) \/ RepointSwitch(r) \/ Bootstrap(r)
      PROVE  OnlyOwnEdits' /\ UnreadIsSkeleton'
  <2>1. RequestStep(r)
    BY <1>2 DEF RequestStep, Serve
  <2>2. UNCHANGED file /\ backups' \subseteq backups
    BY <1>2 DEF View, Arrive, Acquire, Load, Refuse, BeginSave, Prune, SaveFails, Respond, RestorePick,
                RepointCheck, RepointPersist, RepointPersistFails, RepointSwitch,
                Bootstrap, disk
  <2>. QED
    BY <1>1, <2>1, <2>2
<1>3. ASSUME NEW r \in Requests, CopyBackup(r) \/ CopyFails(r)
      PROVE  OnlyOwnEdits' /\ UnreadIsSkeleton'
  <2>1. RequestStep(r) /\ UNCHANGED file /\ path[r] \in Paths
    BY <1>3 DEF RequestStep, Serve, CopyBackup, CopyFails, TypeOK
  <2>2. \/ backups' = backups
        \/ \E s : \E c \in {file[path[r]], Partial} : backups' = WithBackup(path[r], s, c)
    BY <1>3 DEF CopyBackup, CopyFails
  <2>3. \A c \in {file[path[r]], Partial} : \A t \in c.edits : BelongsTo(t, path[r])
    BY <2>1, NoEdits DEF OnlyOwnEdits
  <2>4. BackupsOwn'
    BY <2>1, <2>2, <2>3, StillOwn, BackupOwn
  <2>. QED
    BY <1>0, <2>1, <2>4, StillOwn, BufferOwn
<1>4. ASSUME NEW r \in Requests, SaveOpen(r) \/ SaveDump(r) \/ SaveClose(r)
      PROVE  OnlyOwnEdits' /\ UnreadIsSkeleton'
  <2>1. RequestStep(r) /\ UNCHANGED backups /\ path[r] \in Paths /\ pc[r] \in Cycle
    BY <1>4 DEF RequestStep, Serve, SaveOpen, SaveDump, SaveClose, TypeOK, Cycle
  <2>2. \E c \in {buf[r], Empty, Partial} : file' = [file EXCEPT ![path[r]] = c]
    BY <1>4 DEF SaveOpen, SaveDump, SaveClose, Torn
  <2>3. \A c \in {buf[r], Empty, Partial} : \A t \in c.edits : BelongsTo(t, path[r])
    BY <2>1, NoEdits DEF OnlyOwnEdits
  <2>4. FilesOwn'
    BY <2>1, <2>2, <2>3, FileOwn
  <2>. QED
    BY <1>0, <2>1, <2>4, StillOwn, BufferOwn
<1>5. CASE Crash
  <2>1. /\ backups' = backups /\ buf' = buf /\ path' = path
        /\ \A p \in Paths : file'[p].edits \subseteq file[p].edits
        /\ \A r \in Requests : /\ pc'[r] \notin Cycle
                               /\ pc'[r] \in {"idle", "wait"} => pc'[r] = pc[r]
    BY <1>5, NoEdits DEF Crash, Restart, request, TypeOK, InFlight, PCs, Results, Cycle
  <2>2. ASSUME NEW p \in Paths, NEW t \in file'[p].edits PROVE BelongsTo(t, p)'
    BY <2>1, <2>2, BelongingStays DEF OnlyOwnEdits
  <2>3. FilesOwn' /\ BackupsOwn'
    BY <2>1, <2>2, StillOwn DEF FilesOwn
  <2>4. BuffersOwn' /\ UnreadIsSkeleton'
    BY <2>1 DEF BuffersOwn, UnreadIsSkeleton
  <2>. QED
    BY <1>0, <2>3, <2>4
<1>6. CASE Quiescent \/ UNCHANGED vars
  BY <1>6 DEF Quiescent, vars, disk, request, OnlyOwnEdits, UnreadIsSkeleton, BelongsTo
<1>. QED
  BY <1>2, <1>3, <1>4, <1>5, <1>6 DEF Next, Serve

LEMMA AlwaysOwn == Spec /\ []RepointsAlone => [](OnlyOwnEdits /\ UnreadIsSkeleton)
<1>1. Init => OnlyOwnEdits /\ UnreadIsSkeleton
  BY NoEdits DEF Init, OnlyOwnEdits, UnreadIsSkeleton, BelongsTo, Cycle
<1>2. /\ TypeOK /\ Pinned /\ OnlyOwnEdits /\ UnreadIsSkeleton /\ [Next]_vars
      => (OnlyOwnEdits /\ UnreadIsSkeleton)'
  BY OnlyOwnEditsStep
<1>. QED
  BY <1>1, <1>2, TypeCorrect, AlwaysPinned, PTL DEF Spec

\* Whatever is backed up, pruned, restored, bootstrapped, torn or lost, a file
\* only ever holds a configuration that descends from itself, with edits made to
\* it (_config_identity), as long as every repoint is alone while it switches.
THEOREM NoMixing == Spec /\ []RepointsAlone => []FilesNeverMix
<1>1. OnlyOwnEdits => FilesNeverMix
  BY ConfigStoreAssumption DEF OnlyOwnEdits, FilesNeverMix, BelongsTo, ConfigStoreAssumption
<1>. QED
  BY <1>1, AlwaysOwn, PTL

\* In particular, as long as nobody repoints.
COROLLARY NoMixingWithoutRepoints ==
  ASSUME NoRepoint
  PROVE  Spec => []FilesNeverMix
  BY NoMixing, NoRepointIsAlone, PTL

-----------------------------------------------------------------------------
(* The newest backup undoes a write in progress *)

\* As long as the clock is not set back, a backup's name is the largest so far.
NeverSetBack == "set_back" \notin Clock

LEMMA ReadingsAdvance ==
  ASSUME NeverSetBack, now \in Nat, NEW t \in ClockReadings
  PROVE  t \in Nat /\ t >= now
  BY DEF ClockReadings, NeverSetBack

\* A backup taken under the largest name is the newest of its path, and leaves the
\* other paths' backups alone.
LEMMA NewestOnceTaken ==
  ASSUME TypeOK, \A b \in backups : b.stamp <= now, NEW v \in Paths, NEW c,
         NEW t \in Nat, t >= now, backups' = WithBackup(v, t, c)
  PROVE  /\ \A b \in backups' : b.stamp <= t
         /\ \E b \in Newest(v)' : b.content = c
         /\ \A p \in Paths \ {v} : BackupsOf(p)' = BackupsOf(p)
<1> DEFINE new == [path |-> v, stamp |-> t, content |-> c]
<1>1. \A b \in backups : b.stamp \in Nat
  BY DEF TypeOK
<1>2. \A b \in backups' : b = new \/ b \in backups
  BY DEF WithBackup
<1>3. new \in backups' /\ new.path = v /\ new.stamp = t /\ new.content = c
  BY DEF WithBackup
<1>4. \A b \in backups' : b.stamp <= t
  BY <1>1, <1>2, <1>3 DEF TypeOK
<1>5. new \in Newest(v)'
  BY <1>3, <1>4 DEF Newest, BackupsOf
<1>6. \A p \in Paths \ {v} : BackupsOf(p)' = BackupsOf(p)
  BY DEF BackupsOf, WithBackup
<1>. QED
  BY <1>3, <1>4, <1>5, <1>6

\* Pruning never takes the newest backup, nor one of another path.
LEMMA NewestOncePruned ==
  ASSUME TypeOK, NEW v \in Paths, backups' = backups \ Stale(v)
  PROVE  /\ \A b \in Newest(v) : b \in Newest(v)'
         /\ \A p \in Paths \ {v} : BackupsOf(p)' = BackupsOf(p)
<1>1. ASSUME NEW b \in Newest(v) PROVE b \notin Stale(v)
  <2> DEFINE later == {c \in BackupsOf(v) : c.stamp > b.stamp}
  <2>1. \A c \in BackupsOf(v) : c.stamp <= b.stamp /\ c.stamp \in Nat /\ b.stamp \in Nat
    BY DEF Newest, BackupsOf, TypeOK
  <2>2. later = {}
    BY <2>1
  <2>3. Cardinality(later) = 0
    BY <2>2, FS_EmptySet
  <2> HIDE DEF later
  <2>4. Keep > 0 => ~(Cardinality(later) >= Keep)
    BY <2>3, ConfigStoreAssumption DEF ConfigStoreAssumption
  <2>. QED
    BY <2>4 DEF Stale, later
<1>2. \A b \in Stale(v) : b.path = v
  BY DEF Stale, BackupsOf
<1>3. \A b \in Newest(v) : b \in Newest(v)'
  BY <1>1 DEF Newest, BackupsOf
<1>4. \A p \in Paths \ {v} : BackupsOf(p)' = BackupsOf(p)
  BY <1>2 DEF BackupsOf
<1>. QED
  BY <1>3, <1>4

\* Only a request in its cycle on a path touches the file and the backups of it.
LEMMA OtherPathsKept ==
  ASSUME TypeOK, Pinned, NEW r \in Requests, RequestStep(r), NEW p \in Paths,
         ~(pc[r] \in Cycle /\ path[r] = p)
  PROVE  file'[p] = file[p] /\ BackupsOf(p)' = BackupsOf(p)
<1>1. CASE UNCHANGED <<file, backups>>
  BY <1>1 DEF BackupsOf
<1>2. CASE CopyBackup(r) \/ CopyFails(r)
  <2>1. p # path[r] /\ file' = file
    BY <1>2 DEF CopyBackup, CopyFails, Cycle
  <2>2. backups' = backups \/ \E t, c : backups' = WithBackup(path[r], t, c)
    BY <1>2 DEF CopyBackup, CopyFails
  <2>. QED
    BY <2>1, <2>2 DEF BackupsOf, WithBackup
<1>3. CASE Prune(r)
  BY <1>3 DEF Prune, Cycle, BackupsOf, Stale
<1>4. CASE SaveOpen(r) \/ SaveDump(r) \/ SaveClose(r)
  BY <1>4 DEF SaveOpen, SaveDump, SaveClose, Cycle, BackupsOf, TypeOK
<1>. QED
  BY <1>1, <1>2, <1>3, <1>4 DEF RequestStep, Serve, View, Arrive, Acquire, Load, Refuse, BeginSave,
     SaveFails, Respond, RestorePick, RepointCheck, RepointPersist, RepointPersistFails, RepointSwitch,
                Bootstrap, disk

\* r has been copied, and its file is as it was then or being overwritten.
Secured(r) == kind[r] = "edit" /\ pc[r] \in {"prune", "open", "dump", "close"}
Old(r)     == IF pc[r] \in {"prune", "open"} THEN file[path[r]] ELSE before[r]
BackedUpOf(r) == Secured(r) /\ Old(r) # Absent => \E b \in Newest(path[r]) : b.content = Old(r)

LEMMA BackedUpParts ==
  BackedUp <=> (\A b \in backups : b.stamp <= now) /\ \A r \in Requests : BackedUpOf(r)
  BY DEF BackedUp, Recoverable, BackedUpOf, Secured, Old

LEMMA BackedUpStep ==
  ASSUME NeverSetBack, TypeOK, Pinned, CyclesNeverInterleave, BackedUp, [Next]_vars
  PROVE  BackedUp'
<1>0. (\A b \in backups : b.stamp <= now) /\ \A r \in Requests : BackedUpOf(r)
  BY BackedUpParts
<1>p. (\A b \in backups' : b.stamp <= now') /\ (\A r \in Requests : BackedUpOf(r)') => BackedUp'
  BY DEF BackedUp, Recoverable, BackedUpOf, Secured, Old

\* Another request's step leaves a secured request as it was.
<1>q. ASSUME NEW r \in Requests, RequestStep(r), NEW q \in Requests \ {r} PROVE BackedUpOf(q)'
  <2> SUFFICES ASSUME Secured(q)', Old(q)' # Absent
               PROVE  (\E b \in Newest(path[q]) : b.content = Old(q))'
    BY DEF BackedUpOf
  <2>1. /\ pc'[q] = pc[q] /\ kind'[q] = kind[q] /\ path'[q] = path[q] /\ before'[q] = before[q]
        /\ Secured(q)
    BY <1>q, OthersKept DEF Secured
  <2>2. PICK p \in Paths : p = path[q]
    BY DEF TypeOK
  <2>3. ~(pc[r] \in Cycle /\ path[r] = p)
    BY <1>q, <2>1, <2>2 DEF CyclesNeverInterleave, Secured, Cycle
  <2>4. file'[p] = file[p] /\ BackupsOf(p)' = BackupsOf(p)
    BY <1>q, <2>3, OtherPathsKept
  <2>5. Newest(p)' = Newest(p)
    BY <2>4 DEF Newest
  <2>6. Old(q)' = Old(q)
    BY <2>1, <2>2, <2>4 DEF Old
  <2>7. \E b \in Newest(p) : b.content = Old(q)
    BY <1>0, <2>1, <2>2, <2>6 DEF BackedUpOf
  <2>. QED
    BY <2>1, <2>2, <2>5, <2>6, <2>7
<1>1. ASSUME NEW r \in Requests, RequestStep(r), \A b \in backups' : b.stamp <= now', BackedUpOf(r)'
      PROVE  BackedUp'
  BY <1>1, <1>p, <1>q

\* The steps after which the request is not secured, or its file does not exist.
<1>2. ASSUME NEW r \in Requests,
             \/ View(r) \/ Arrive(r) \/ Acquire(r) \/ Load(r) \/ Refuse(r) \/ BeginSave(r)
             \/ SaveClose(r) \/ SaveFails(r) \/ Respond(r) \/ RestorePick(r) \/ RepointCheck(r)
             \/ RepointPersist(r) \/ RepointPersistFails(r) \/ RepointSwitch(r) \/ Bootstrap(r)
      PROVE  BackedUp'
  <2>1. RequestStep(r) /\ UNCHANGED <<backups, now>>
    BY <1>2 DEF RequestStep, Serve, View, Arrive, Acquire, Load, Refuse, BeginSave, SaveClose,
                SaveFails, Respond, RestorePick, RepointCheck, RepointPersist, RepointPersistFails, RepointSwitch,
                Bootstrap, disk
  <2>2. Secured(r)' => BeginSave(r) /\ pc'[r] = "open"
    BY <1>2 DEF View, Arrive, Acquire, Load, Refuse, BeginSave, SaveClose,
                SaveFails, Respond, RestorePick, RepointCheck, RepointPersist, RepointPersistFails,
                RepointSwitch, Bootstrap,
                Secured, TypeOK, Pinned, InFlight, PCs, Results, Goto, Finish
  <2>3. BeginSave(r) /\ pc'[r] = "open" => Old(r)' = Absent
    BY DEF BeginSave, Old, TypeOK, Goto, disk
  <2>. QED
    BY <1>0, <1>1, <2>1, <2>2, <2>3 DEF BackedUpOf
<1>3. ASSUME NEW r \in Requests, CopyBackup(r) \/ CopyFails(r) PROVE BackedUp'
  <2>1. RequestStep(r) /\ file' = file /\ path' = path /\ kind' = kind
    BY <1>3 DEF RequestStep, Serve, CopyBackup, CopyFails, request
  <2>2. PICK v \in Paths : v = path[r]
    BY DEF TypeOK
  <2>3. CASE CopyFails(r) /\ UNCHANGED <<now, backups>>
    <3>1. ~Secured(r)'
      BY <2>3 DEF CopyFails, Secured, TypeOK, Finish, Results
    <3>. QED
      BY <1>0, <1>1, <2>1, <2>3, <3>1 DEF BackedUpOf
  <2>4. ASSUME NEW t \in ClockReadings, NEW c \in {file[v], Partial},
               now' = t, backups' = WithBackup(v, t, c), c = file[v] \/ CopyFails(r)
        PROVE  BackedUp'
    <3>1. t \in Nat /\ t >= now
      BY ReadingsAdvance DEF TypeOK
    <3>2. (\A b \in backups' : b.stamp <= now') /\ \E b \in Newest(v)' : b.content = c
      BY <1>0, <2>4, <3>1, NewestOnceTaken
    <3>3. Secured(r)' => c = file[v] /\ Old(r)' = file[v]
      BY <1>3, <2>1, <2>2, <2>4 DEF CopyBackup, CopyFails, Secured, Old, TypeOK, Goto, Finish, Results
    <3>4. BackedUpOf(r)'
      BY <2>1, <2>2, <3>2, <3>3 DEF BackedUpOf
    <3>. QED
      BY <1>1, <2>1, <3>2, <3>4
  <2>. QED
    BY <1>3, <2>2, <2>3, <2>4 DEF CopyBackup, CopyFails
<1>4. ASSUME NEW r \in Requests, Prune(r) PROVE BackedUp'
  <2>1. RequestStep(r) /\ file' = file /\ path' = path /\ kind' = kind /\ now' = now /\ backups' \subseteq backups
    BY <1>4 DEF RequestStep, Serve, Prune, process, request
  <2>2. PICK v \in Paths : v = path[r]
    BY DEF TypeOK
  <2>3. \A b \in Newest(v) : b \in Newest(v)'
    BY <1>4, <2>2, NewestOncePruned DEF Prune
  <2>4. Secured(r)' => Secured(r) /\ Old(r)' = Old(r)
    BY <1>4, <2>1 DEF Prune, Secured, Old, TypeOK, Goto
  <2>5. BackedUpOf(r)'
    BY <1>0, <2>1, <2>2, <2>3, <2>4 DEF BackedUpOf
  <2>. QED
    BY <1>0, <1>1, <2>1, <2>5
<1>5. ASSUME NEW r \in Requests, SaveOpen(r) \/ SaveDump(r) PROVE BackedUp'
  <2>1. RequestStep(r) /\ path' = path /\ kind' = kind /\ UNCHANGED <<backups, now>>
    BY <1>5 DEF RequestStep, Serve, SaveOpen, SaveDump, process, request
  <2>2. Newest(path[r])' = Newest(path[r])
    BY <2>1 DEF Newest, BackupsOf
  <2>3. Secured(r)' => Secured(r) /\ Old(r)' = Old(r)
    BY <1>5, <2>1 DEF SaveOpen, SaveDump, Secured, Old, TypeOK, Goto, request
  <2>4. BackedUpOf(r)'
    BY <1>0, <2>2, <2>3 DEF BackedUpOf
  <2>. QED
    BY <1>0, <1>1, <2>1, <2>4
<1>6. CASE Crash
  <2>1. UNCHANGED <<backups, now>> /\ \A r \in Requests : ~Secured(r)'
    BY <1>6 DEF Crash, Restart, Secured, InFlight, PCs, Results, TypeOK
  <2>. QED
    BY <1>0, <1>p, <2>1 DEF BackedUpOf
<1>7. CASE Quiescent \/ UNCHANGED vars
  <2>1. UNCHANGED vars
    BY <1>7 DEF Quiescent
  <2>. QED
    BY <2>1 DEF vars, disk, request, BackedUp, Recoverable, Newest, BackupsOf
<1>. QED
  BY <1>2, <1>3, <1>4, <1>5, <1>6, <1>7 DEF Next, Serve

\* As long as the clock is not set back and every repoint is alone while it
\* switches, an edit that has the file truncated can be undone: the newest backup
\* of the file is of what the edit truncated, whatever else is backed up, pruned,
\* bootstrapped or torn meanwhile.
THEOREM UndoPossible ==
  ASSUME NeverSetBack
  PROVE  Spec /\ []RepointsAlone => []Recoverable
<1>1. Init => BackedUp
  BY DEF Init, BackedUp, Recoverable
<1>2. TypeOK /\ Pinned /\ CyclesNeverInterleave /\ BackedUp /\ [Next]_vars => BackedUp'
  BY BackedUpStep
<1>3. BackedUp => Recoverable
  BY DEF BackedUp
<1>. QED
  BY <1>1, <1>2, <1>3, TypeCorrect, AlwaysPinned, NoInterleaving, PTL DEF Spec

\* In particular, as long as nobody repoints.
COROLLARY UndoPossibleWithoutRepoints ==
  ASSUME NoRepoint, NeverSetBack
  PROVE  Spec => []Recoverable
  BY UndoPossible, NoRepointIsAlone, PTL

-----------------------------------------------------------------------------
(* What leaves the backup directory *)

\* Backups of the same file that are later than b.
Later(B, b) == {c \in B : c.path = b.path /\ c.stamp > b.stamp}

\* Only a copy and a prune change the backup directory.
LEMMA OnlyCopiesAndPrunes ==
  ASSUME [Next]_vars
  PROVE  \/ UNCHANGED backups
         \/ \E r \in Requests : CopyBackup(r) \/ CopyFails(r) \/ Prune(r)
<1>1. ASSUME NEW r \in Requests, View(r) \/ Arrive(r) PROVE UNCHANGED backups
  BY <1>1 DEF View, Arrive, disk
<1>2. ASSUME NEW r \in Requests, Serve(r)
      PROVE  UNCHANGED backups \/ CopyBackup(r) \/ CopyFails(r) \/ Prune(r)
  <2>1. Acquire(r) \/ Load(r) \/ Refuse(r) \/ BeginSave(r) => UNCHANGED backups
    BY DEF Acquire, Load, Refuse, BeginSave, disk
  <2>2. SaveOpen(r) \/ SaveDump(r) \/ SaveClose(r) \/ SaveFails(r) => UNCHANGED backups
    BY DEF SaveOpen, SaveDump, SaveClose, SaveFails, disk
  <2>3. Respond(r) \/ RestorePick(r) \/ RepointCheck(r) \/ RepointPersist(r) => UNCHANGED backups
    BY DEF Respond, RestorePick, RepointCheck, RepointPersist, disk
  <2>4. RepointPersistFails(r) \/ RepointSwitch(r) \/ Bootstrap(r) => UNCHANGED backups
    BY DEF RepointPersistFails, RepointSwitch,
                Bootstrap, disk
  <2>. QED
    BY <1>2, <2>1, <2>2, <2>3, <2>4 DEF Serve
<1>3. Crash \/ Quiescent \/ UNCHANGED vars => UNCHANGED backups
  BY DEF Crash, Restart, Quiescent, vars, disk
<1>. QED
  BY <1>1, <1>2, <1>3 DEF Next

\* The backup directory holds a finite number of files at every instant.
LEMMA FiniteStep ==
  ASSUME IsFiniteSet(backups), [Next]_vars
  PROVE  IsFiniteSet(backups')
<1>1. ASSUME NEW p, NEW t, NEW c, backups' = WithBackup(p, t, c)
      PROVE  IsFiniteSet(backups')
  <2>1. IsFiniteSet({b \in backups : ~(b.path = p /\ b.stamp = t)})
    BY FS_Subset
  <2>. QED
    BY <1>1, <2>1, FS_AddElement DEF WithBackup
<1>2. ASSUME NEW r \in Requests, CopyBackup(r) \/ CopyFails(r)
      PROVE  IsFiniteSet(backups')
  BY <1>1, <1>2 DEF CopyBackup, CopyFails
<1>3. ASSUME NEW r \in Requests, Prune(r) PROVE IsFiniteSet(backups')
  <2>1. backups' \subseteq backups
    BY <1>3 DEF Prune
  <2>. QED
    BY <2>1, FS_Subset
<1>4. UNCHANGED backups => IsFiniteSet(backups')
  OBVIOUS
<1>. QED
  BY <1>2, <1>3, <1>4, OnlyCopiesAndPrunes

\* The backups that a prune of p leaves are the latest: a stale one still has
\* Keep later ones once all the stale ones are gone.
LEMMA PrunedHasKeepLater ==
  ASSUME IsFiniteSet(backups), TypeOK,
         NEW p \in Paths, NEW b \in Stale(p)
  PROVE  Cardinality(Later(backups \ Stale(p), b)) >= Keep
<1> DEFINE Sets == {Later(backups, c) : c \in Stale(p)}
<1>1. IsWellFoundedOn(StrictSubsetOrdering(backups), FiniteSubsetsOf(backups))
  BY FS_StrictSubsetOrderingWellFounded
<1>2. \A c \in backups : Later(backups, c) \in FiniteSubsetsOf(backups)
  <2>1. \A c \in backups : Later(backups, c) \in SUBSET backups
    BY DEF Later
  <2>. QED
    BY <2>1, FS_Subset DEF FiniteSubsetsOf
<1>3. Stale(p) \subseteq BackupsOf(p) /\ BackupsOf(p) \subseteq backups
  BY DEF Stale, BackupsOf
<1>4. Sets \subseteq FiniteSubsetsOf(backups) /\ Sets # {}
  BY <1>2, <1>3

\* m is the latest of the stale ones.
<1>5. PICK L \in Sets : \A K \in Sets : ~ (<<K, L>> \in StrictSubsetOrdering(backups))
  BY <1>1, <1>4, WFMin
<1>6. PICK m \in Stale(p) : L = Later(backups, m)
  BY <1>5
<1>7. \A c \in Stale(p) : c \in backups /\ c.path = p /\ c.stamp \in Nat
  BY <1>3 DEF TypeOK, BackupsOf
<1>8. ASSUME NEW c \in Stale(p), c.stamp > m.stamp PROVE FALSE
  <2>1. /\ Later(backups, c) \subseteq Later(backups, m)
        /\ c \in Later(backups, m) /\ c \notin Later(backups, c)
    <3>1. \A d \in backups : d.stamp \in Nat
      BY DEF TypeOK
    <3>. QED
      BY <1>7, <1>8, <3>1 DEF Later
  <2>2. /\ Later(backups, c) \in SUBSET backups
        /\ Later(backups, m) \in SUBSET backups
    BY DEF Later
  <2>3. <<Later(backups, c), L>> \in StrictSubsetOrdering(backups)
    BY <1>6, <2>1, <2>2 DEF StrictSubsetOrdering
  <2>. QED
    BY <1>5, <2>3
<1>9. Later(backups, m) \subseteq Later(backups \ Stale(p), b)
  <2>1. \A d \in backups : d.stamp \in Nat
    BY DEF TypeOK
  <2>2. ~ (b.stamp > m.stamp)
    BY <1>8
  <2>3. b.stamp <= m.stamp
    BY <1>7, <2>2
  <2>4. ASSUME NEW d \in Later(backups, m)
        PROVE  d \in backups /\ d \notin Stale(p) /\ d.path = b.path /\ d.stamp > b.stamp
    BY <1>7, <1>8, <2>1, <2>3 DEF Later
  <2>. QED
    BY <2>4 DEF Later
<1>10. Cardinality(Later(backups, m)) >= Keep
  <2>1. Later(backups, m) = {c \in BackupsOf(p) : c.stamp > m.stamp}
    BY <1>7 DEF Later, BackupsOf
  <2>. QED
    BY <2>1 DEF Stale
<1>11. IsFiniteSet(Later(backups \ Stale(p), b))
  BY FS_Subset DEF Later
<1>12. /\ Cardinality(Later(backups, m)) \in Nat
       /\ Cardinality(Later(backups \ Stale(p), b)) \in Nat
       /\ Cardinality(Later(backups, m)) <= Cardinality(Later(backups \ Stale(p), b))
  BY <1>9, <1>11, FS_Subset, FS_CardinalityType
<1>. QED
  BY <1>10, <1>12, ConfigStoreAssumption DEF ConfigStoreAssumption

\* A backup that goes has been overwritten by one of the same file and second,
\* or Keep later backups of its file remain.
OnlyTheOldestGo ==
  \A b \in backups \ backups' :
    \/ \E c \in backups' : c.path = b.path /\ c.stamp = b.stamp
    \/ Keep > 0 /\ Cardinality(Later(backups', b)) >= Keep

LEMMA OnlyTheOldestGoStep ==
  ASSUME IsFiniteSet(backups), TypeOK, [Next]_vars
  PROVE  OnlyTheOldestGo
<1>1. ASSUME NEW p, NEW t, NEW c, backups' = WithBackup(p, t, c)
      PROVE  OnlyTheOldestGo
  <2>1. \A b \in backups \ backups' : b.path = p /\ b.stamp = t
    BY <1>1 DEF WithBackup
  <2>2. [path |-> p, stamp |-> t, content |-> c] \in backups'
    BY <1>1 DEF WithBackup
  <2>3. \E d \in backups' : d.path = p /\ d.stamp = t
    BY <2>2
  <2>. QED
    BY <2>1, <2>3 DEF OnlyTheOldestGo
<1>2. ASSUME NEW r \in Requests, CopyBackup(r) \/ CopyFails(r)
      PROVE  OnlyTheOldestGo
  <2>1. \/ UNCHANGED backups
        \/ \E p, t, c : backups' = WithBackup(p, t, c)
    BY <1>2 DEF CopyBackup, CopyFails
  <2>. QED
    BY <1>1, <2>1 DEF OnlyTheOldestGo
<1>3. ASSUME NEW r \in Requests, Prune(r) PROVE OnlyTheOldestGo
  <2>1. backups' = backups \ Stale(path[r]) /\ path[r] \in Paths
    BY <1>3 DEF Prune, TypeOK
  <2>2. ASSUME NEW b \in backups \ backups'
        PROVE  Keep > 0 /\ Cardinality(Later(backups', b)) >= Keep
    <3>1. b \in Stale(path[r])
      BY <2>1
    <3>2. Cardinality(Later(backups \ Stale(path[r]), b)) >= Keep
      BY <2>1, <3>1, PrunedHasKeepLater
    <3>. QED
      BY <2>1, <3>1, <3>2 DEF Stale
  <2>. QED
    BY <2>2 DEF OnlyTheOldestGo
<1>4. UNCHANGED backups => OnlyTheOldestGo
  BY DEF OnlyTheOldestGo
<1>. QED
  BY <1>2, <1>3, <1>4, OnlyCopiesAndPrunes

\* With any requests, any failures, crashes and any clock, the only thing that
\* removes a backup is a later backup in the same second, or a prune that leaves
\* at least Keep later ones of the same file: "keeping the hundred most recent"
\* (README.md:132; copy_file and prune_backups of config_manager.py).  A prune
\* never reaches into another file's backups, nor into the Keep latest.
THEOREM KeepsTheMostRecent == Spec => [][OnlyTheOldestGo]_vars
<1>1. Init => IsFiniteSet(backups)
  BY FS_EmptySet DEF Init
<1>2. IsFiniteSet(backups) /\ [Next]_vars => IsFiniteSet(backups)'
  BY FiniteStep
<1>3. IsFiniteSet(backups) /\ TypeOK /\ [Next]_vars => [OnlyTheOldestGo]_vars
  BY OnlyTheOldestGoStep
<1>. QED
  BY <1>1, <1>2, <1>3, TypeCorrect, PTL DEF Spec
=============================================================================
