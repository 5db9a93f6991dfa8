---------------------------- MODULE ConfigStore ----------------------------
(***************************************************************************)
(* The Kea configuration files as EZ-KEA's web requests share them         *)
(* (ez_kea/core/config_manager.py and the routes that call it).            *)
(*                                                                         *)
(* Every request runs on a thread of its own.  An edit resolves the path   *)
(* of the current config file, waits for that file's lock, and only then   *)
(* resolves the path again, loads, mutates, copies the old file into the   *)
(* backup directory, prunes, truncates and writes.  The explicit backup    *)
(* and restore buttons, a repoint to another file, lock-free page views    *)
(* and the loss of the process interleave with it.                         *)
(*                                                                         *)
(* A configuration is abstracted to the set of edits it contains, plus the *)
(* path it descends from: the skeleton is the configuration with none.     *)
(***************************************************************************)
EXTENDS Naturals, FiniteSets

CONSTANTS
  Requests,   \* web requests, each served once
  Versions,   \* DHCP versions ("4" and "6"), each with a config file pointer
  Paths,      \* config files
  VersionOf,  \* VersionOf[p] is the DHCP version that path p is used for
  NoRequest,  \* the owner of a free lock
  Kinds,      \* kinds of request that arrive, a subset of AllKinds
  Faults,     \* failures that may happen, a subset of AllFaults
  Clock,      \* what the wall clock may do beyond advancing: see ClockModes
  Keep        \* keep_backups; 0 disables pruning

AllKinds   == {"edit", "view", "backup", "restore", "repoint"}
AllFaults  == {"copy_fails", "write_fails", "crash"}
ClockModes == {"repeats", "set_back"}

ASSUME ConfigStoreAssumption ==
  /\ Versions # {}
  /\ VersionOf \in [Paths -> Versions]
  /\ \A v \in Versions : \E p \in Paths : VersionOf[p] = v
  /\ NoRequest \notin Requests
  /\ Requests \cap Paths = {}
  /\ Kinds \subseteq AllKinds
  /\ Faults \subseteq AllFaults
  /\ Clock \subseteq ClockModes
  /\ Keep \in Nat

VARIABLES
  \* --- on disk
  file,      \* file[p]: the bytes at path p
  backups,   \* BACKUP_DIR: [path, stamp, content], at most one per name
  saved,     \* saved[v]: the config path persisted in the settings file
  now,       \* the last second a backup name was stamped with
  \* --- in the process
  conf,      \* conf[v]: app.config["DHCP_CONFIG_FILE"], or the v6 key
  owner,     \* owner[p]: the request holding path p's lock
  \* --- in each request
  pc, kind, ver,
  lockPath,  \* the path resolved before waiting for the lock
  path,      \* the path last resolved by the body
  target,    \* a repoint's candidate_config_file
  buf,       \* the configuration in memory
  before     \* history: what the request's write truncated

disk    == <<file, backups, saved, now>>
process == <<conf, owner>>
request == <<kind, ver, lockPath, path, target, buf, before>>
vars    == <<disk, process, pc, request>>

-----------------------------------------------------------------------------
(* Contents of a file *)

Token   == Requests \cup Paths
Content == [state : {"absent", "empty", "partial", "whole"},
            edits : SUBSET Token]

Whole(S) == [state |-> "whole",   edits |-> S]
Absent   == [state |-> "absent",  edits |-> {}]
Empty    == [state |-> "empty",   edits |-> {}]
Partial  == [state |-> "partial", edits |-> {}]
Torn     == {Empty, Partial}
Skeleton == Whole({})

\* Faulty: text that does not parse is read as the skeleton.
ParsesAnything(c) == TRUE

\* load_json: a missing or empty file reads as the skeleton, one that does
\* not parse raises ConfigAccessError.
Parses(c)   == c.state # "partial"
LoadJson(c) == Whole(c.edits)

-----------------------------------------------------------------------------
(* The backup directory *)

\* Faulty: any backup in the directory will do.
BackupsOfAnyFile(p) == backups

BackupsOf(p) == {b \in backups : b.path = p}

\* The backup a restore of p takes: the largest timestamp among those whose
\* name carries p's identity (a set of one, or of none).
Newest(p) == {b \in BackupsOf(p) : \A c \in BackupsOf(p) : c.stamp <= b.stamp}

\* Faulty: sorted in ascending order, so the oldest are kept.
StaleAscending(p) == {b \in BackupsOf(p) :
               /\ Keep > 0
               /\ Cardinality({c \in BackupsOf(p) : c.stamp < b.stamp}) >= Keep}

\* prune_backups: all but the Keep largest timestamps of p.
Stale(p) == {b \in BackupsOf(p) :
               /\ Keep > 0
               /\ Cardinality({c \in BackupsOf(p) : c.stamp > b.stamp}) >= Keep}

\* Copying over a name that exists replaces that backup.
WithBackup(p, t, c) ==
  {b \in backups : ~(b.path = p /\ b.stamp = t)}
    \cup {[path |-> p, stamp |-> t, content |-> c]}

\* datetime.now() to the second, in local time: later than the last stamp,
\* or the same second again, or earlier (the hour repeated in autumn).
ClockReadings ==
  {now + 1} \cup (IF "repeats"  \in Clock THEN {now} ELSE {})
            \cup (IF "set_back" \in Clock THEN 0..now ELSE {})

-----------------------------------------------------------------------------
\* "dead": the process was lost under the request; "cut": it was lost when the
\* request had done its work and not yet been answered.
Results  == {"ok", "refused", "failed", "dead", "cut"}
PCs      == {"idle", "wait", "entered", "loaded", "copy", "prune", "open", "dump",
             "close", "answer", "persist", "switch", "boot"} \cup Results
InFlight == PCs \ (Results \cup {"idle"})
Holding  == InFlight \ {"wait"}

\* Faulty: the lock's entry is dropped from the table instead of released.
FinishForgettingLock(r, result) ==
  /\ pc' = [pc EXCEPT ![r] = result]
  /\ owner' = [p \in Paths \ {lockPath[r]} |-> owner[p]]

\* config_lock's finally clause: the request ends and its lock is free.
Finish(r, result) ==
  /\ pc' = [pc EXCEPT ![r] = result]
  /\ owner' = [owner EXCEPT ![lockPath[r]] = NoRequest]

Goto(r, label) == pc' = [pc EXCEPT ![r] = label]

Init ==
  /\ \E f \in [Paths -> BOOLEAN] :
       file = [p \in Paths |-> IF f[p] THEN Whole({p}) ELSE Absent]
  /\ conf \in {c \in [Versions -> Paths] :
                 \A v \in Versions : VersionOf[c[v]] = v /\ file[c[v]] # Absent}
  /\ saved = conf
  /\ backups = {}
  /\ now = 0
  /\ owner = [p \in Paths |-> NoRequest]
  /\ pc = [r \in Requests |-> "idle"]
  /\ kind = [r \in Requests |-> "view"]
  /\ ver = [r \in Requests |-> CHOOSE v \in Versions : TRUE]
  /\ lockPath = [r \in Requests |-> conf[ver[r]]]
  /\ path = lockPath
  /\ target = lockPath
  /\ buf = [r \in Requests |-> Skeleton]
  /\ before = [r \in Requests |-> Absent]

-----------------------------------------------------------------------------
(* Requests arrive and wait for a lock *)

\* A GET page: load_json without config_lock.
View(r) ==
  /\ pc[r] = "idle"
  /\ "view" \in Kinds
  /\ \E v \in Versions :
       /\ ver' = [ver EXCEPT ![r] = v]
       /\ path' = [path EXCEPT ![r] = conf[v]]
       /\ \/ /\ Parses(file[conf[v]])
             /\ buf' = [buf EXCEPT ![r] = LoadJson(file[conf[v]])]
             /\ Goto(r, "ok")
          \/ /\ ~Parses(file[conf[v]])
             /\ Goto(r, "failed")
             /\ UNCHANGED buf
  /\ UNCHANGED <<disk, process, kind, lockPath, target, before>>

\* The config-file field of the settings form; other forms have none.
Targets(k, v) == IF k = "repoint" THEN {p \in Paths : VersionOf[p] = v}
                                  ELSE {conf[v]}

\* The lock to take is chosen from app.config before waiting for it.
Arrive(r) ==
  /\ pc[r] = "idle"
  /\ \E k \in Kinds \ {"view"}, v \in Versions :
       /\ kind' = [kind EXCEPT ![r] = k]
       /\ ver' = [ver EXCEPT ![r] = v]
       /\ lockPath' = [lockPath EXCEPT ![r] = conf[v]]
       /\ path' = [path EXCEPT ![r] = conf[v]]
       /\ \E p \in Targets(k, v) : target' = [target EXCEPT ![r] = p]
  /\ Goto(r, "wait")
  /\ UNCHANGED <<disk, process, buf, before>>

\* Faulty: a lock object of its own for each request.
AcquireOwnLock(r) ==
  /\ pc[r] = "wait"
  /\ owner' = [owner EXCEPT ![lockPath[r]] = r]
  /\ Goto(r, IF kind[r] = "backup" THEN "copy" ELSE "entered")
  /\ UNCHANGED <<disk, conf, request>>

Acquire(r) ==
  /\ pc[r] = "wait"
  /\ owner[lockPath[r]] = NoRequest
  /\ owner' = [owner EXCEPT ![lockPath[r]] = r]
  /\ Goto(r, IF kind[r] = "backup" THEN "copy" ELSE "entered")
  /\ UNCHANGED <<disk, conf, request>>

-----------------------------------------------------------------------------
(* Editing: load, mutate, back up, prune, truncate, write *)

\* A settings save whose config-file field is unchanged is an edit as well.
IsEdit(r) == \/ kind[r] = "edit"
             \/ kind[r] = "repoint" /\ target[r] = conf[ver[r]]

Load(r) ==
  LET p == conf[ver[r]] IN
  /\ pc[r] = "entered"
  /\ IsEdit(r)
  /\ path' = [path EXCEPT ![r] = p]
  /\ kind' = [kind EXCEPT ![r] = "edit"]
  /\ \/ /\ Parses(file[p])
        /\ buf' = [buf EXCEPT ![r] = Whole(LoadJson(file[p]).edits \cup {r})]
        /\ Goto(r, "loaded")
        /\ UNCHANGED owner
     \/ /\ ~Parses(file[p])
        /\ Finish(r, "failed")
        /\ UNCHANGED buf
  /\ UNCHANGED <<disk, conf, ver, lockPath, target, before>>

\* Faulty: the early return skips the release.
RefuseHoldingLock(r) ==
  /\ pc[r] = "loaded"
  /\ Goto(r, "refused")
  /\ UNCHANGED <<disk, process, request>>

\* The form does not validate: the view returns without saving.
Refuse(r) ==
  /\ pc[r] = "loaded"
  /\ Finish(r, "refused")
  /\ UNCHANGED <<disk, conf, request>>

\* Faulty: save_json is called directly.
BeginSaveUnbacked(r) ==
  /\ pc[r] = "loaded"
  /\ Goto(r, "open")
  /\ UNCHANGED <<disk, process, request>>

\* save_kea_config: a file that exists is backed up first.  The v4 views read
\* the path from app.config again, the v6 views keep the one they loaded from.
BeginSave(r) ==
  /\ pc[r] = "loaded"
  /\ \E p \in {path[r], conf[ver[r]]} :
       /\ path' = [path EXCEPT ![r] = p]
       /\ Goto(r, IF file[p] # Absent THEN "copy" ELSE "open")
  /\ UNCHANGED <<disk, process, kind, ver, lockPath, target, buf, before>>

\* copy_file(restore=False), for an edit and for the backup button.
CopyBackup(r) ==
  /\ pc[r] = "copy"
  /\ file[path[r]] # Absent
  /\ \E t \in ClockReadings :
       /\ now' = t
       /\ backups' = WithBackup(path[r], t, file[path[r]])
  /\ Goto(r, IF kind[r] = "edit" THEN "prune" ELSE "answer")
  /\ UNCHANGED <<file, saved, process, request>>

\* Faulty: the write goes ahead without its backup.
CopyFailsUnnoticed(r) ==
  /\ pc[r] = "copy"
  /\ "copy_fails" \in Faults
  /\ Goto(r, "open")
  /\ UNCHANGED <<disk, process, request>>

\* The copy raises, leaving nothing or a torn file under the new name; the
\* request ends (BackupError) with the config file untouched.  A process lost
\* half-way through the copy leaves the same torn file.
CopyFails(r) ==
  /\ pc[r] = "copy"
  /\ "copy_fails" \in Faults \/ file[path[r]] = Absent
  /\ \/ UNCHANGED <<now, backups>>
     \/ /\ file[path[r]] # Absent
        /\ \E t \in ClockReadings :
             /\ now' = t
             /\ backups' = WithBackup(path[r], t, Partial)
  /\ Finish(r, "failed")
  /\ UNCHANGED <<file, saved, conf, request>>

Prune(r) ==
  /\ pc[r] = "prune"
  /\ backups' = backups \ Stale(path[r])
  /\ Goto(r, "open")
  /\ UNCHANGED <<file, saved, now, process, request>>

\* open(path, "w") truncates before the flock is asked for.
SaveOpen(r) ==
  /\ pc[r] = "open"
  /\ before' = [before EXCEPT ![r] = file[path[r]]]
  /\ file' = [file EXCEPT ![path[r]] = Empty]
  /\ Goto(r, "dump")
  /\ UNCHANGED <<backups, saved, now, process,
                 kind, ver, lockPath, path, target, buf>>

\* Faulty: the stream is flushed before the request is done with it.
SaveDumpFlushed(r) ==
  /\ pc[r] = "dump"
  /\ file' = [file EXCEPT ![path[r]] = buf[r]]
  /\ Goto(r, "close")
  /\ UNCHANGED <<backups, saved, now, process, request>>

\* json.dump under LOCK_EX fills the stream's buffer, which may spill a part
\* of the text into the file; LOCK_UN comes before the rest is flushed.
SaveDump(r) ==
  /\ pc[r] = "dump"
  /\ \E c \in Torn : file' = [file EXCEPT ![path[r]] = c]
  /\ Goto(r, "close")
  /\ UNCHANGED <<backups, saved, now, process, request>>

\* Leaving the with block flushes and closes the file.  A second writer in the
\* middle of the same file may leave a mixture of both.
SaveClose(r) ==
  LET rival == \E q \in Requests \ {r} :
                 pc[q] \in {"dump", "close"} /\ path[q] = path[r] IN
  /\ pc[r] = "close"
  /\ \E c \in {buf[r]} \cup (IF rival THEN {Partial} ELSE {}) :
       file' = [file EXCEPT ![path[r]] = c]
  /\ Goto(r, "answer")
  /\ UNCHANGED <<backups, saved, now, process, request>>

\* The view returns its answer and the lock is released.
Respond(r) ==
  /\ pc[r] = "answer"
  /\ Finish(r, "ok")
  /\ UNCHANGED <<disk, conf, request>>

\* Opening, writing or flushing raises (permissions, a full disk).
SaveFails(r) ==
  /\ pc[r] \in {"open", "dump", "close"}
  /\ "write_fails" \in Faults
  /\ Finish(r, "failed")
  /\ UNCHANGED <<disk, conf, request>>

-----------------------------------------------------------------------------
(* Restoring and repointing *)

\* copy_file(restore=True): picks the backup; copyfile then truncates and
\* rewrites the config file, which is not itself backed up.
RestorePick(r) ==
  /\ pc[r] = "entered"
  /\ kind[r] = "restore"
  /\ \/ /\ BackupsOf(path[r]) = {}
        /\ Finish(r, "refused")
        /\ UNCHANGED buf
     \/ /\ \E b \in Newest(path[r]) : buf' = [buf EXCEPT ![r] = b.content]
        /\ Goto(r, "open")
        /\ UNCHANGED owner
  /\ UNCHANGED <<disk, conf, kind, ver, lockPath, path, target, before>>

\* A repoint's target must be missing, or plain JSON with the root key of its
\* version: a torn file is refused, and a whole one with comments or without
\* that key, or that cannot be read, is refused as well.
RepointCheck(r) ==
  /\ pc[r] = "entered"
  /\ kind[r] = "repoint"
  /\ ~IsEdit(r)
  /\ \/ file[target[r]] # Absent /\ Finish(r, "refused")
     \/ file[target[r]] \notin Torn /\ Goto(r, "persist") /\ UNCHANGED owner
  /\ UNCHANGED <<disk, conf, request>>

RepointPersist(r) ==
  /\ pc[r] = "persist"
  /\ saved' = [saved EXCEPT ![ver[r]] = target[r]]
  /\ Goto(r, "switch")
  /\ UNCHANGED <<file, backups, now, process, request>>

\* What a damaged settings file may be taken to say: it reads as the defaults.
AnyPointers == {s \in [Versions -> Paths] : \A v \in Versions : VersionOf[s[v]] = v}

\* save_settings raises, before or after it has truncated the settings file.
\* A process lost half-way through leaves the same damage.
RepointPersistFails(r) ==
  /\ pc[r] = "persist"
  /\ Faults \cap {"write_fails", "crash"} # {}
  /\ saved' \in {saved} \cup AnyPointers
  /\ Finish(r, "failed")
  /\ UNCHANGED <<file, backups, now, conf, request>>

RepointSwitch(r) ==
  /\ pc[r] = "switch"
  /\ conf' = [conf EXCEPT ![ver[r]] = target[r]]
  /\ path' = [path EXCEPT ![r] = target[r]]
  /\ Goto(r, "boot")
  /\ UNCHANGED <<disk, owner, kind, ver, lockPath, target, buf, before>>

\* bootstrap_config: a skeleton for a target that does not exist yet, written
\* with save_json, without the target's lock.  If that is not permitted nothing
\* is written and nobody is told.
Bootstrap(r) ==
  /\ pc[r] = "boot"
  /\ \/ /\ file[target[r]] = Absent
        /\ buf' = [buf EXCEPT ![r] = Skeleton]
        /\ Goto(r, "open")
        /\ UNCHANGED owner
     \/ /\ file[target[r]] # Absent \/ "write_fails" \in Faults
        /\ Finish(r, "ok")
        /\ UNCHANGED buf
  /\ UNCHANGED <<disk, conf, kind, ver, lockPath, path, target, before>>

-----------------------------------------------------------------------------
(* The process is lost at any instant and started again: requests and locks  *)
(* are gone, the pointers come back from the settings file, and create_app   *)
(* bootstraps a config file that is missing, unless that is not permitted.   *)
Restart ==
  LET missing == {p \in Paths : file[p] = Absent /\ \E v \in Versions : saved[v] = p}
  IN
  /\ pc' = [r \in Requests |-> IF pc[r] = "answer" THEN "cut"
                               ELSE IF pc[r] \in InFlight THEN "dead" ELSE pc[r]]
  /\ owner' = [p \in Paths |-> NoRequest]
  /\ conf' = saved
  /\ \E made \in IF "write_fails" \in Faults THEN SUBSET missing ELSE {missing} :
       file' = [p \in Paths |-> IF p \in made THEN Skeleton ELSE file[p]]
  /\ UNCHANGED <<backups, saved, now, request>>

Crash ==
  /\ "crash" \in Faults
  /\ \E r \in Requests : pc[r] \in InFlight
  /\ Restart

Serve(r) ==
  \/ Acquire(r) \/ Load(r) \/ Refuse(r) \/ BeginSave(r)
  \/ CopyBackup(r) \/ CopyFails(r) \/ Prune(r)
  \/ SaveOpen(r) \/ SaveDump(r) \/ SaveClose(r) \/ SaveFails(r)
  \/ Respond(r) \/ RestorePick(r)
  \/ RepointCheck(r) \/ RepointPersist(r) \/ RepointPersistFails(r)
  \/ RepointSwitch(r) \/ Bootstrap(r)

\* Every request has been answered: nothing more happens.
Quiescent ==
  /\ \A r \in Requests : pc[r] \in Results
  /\ UNCHANGED vars

Next ==
  \/ \E r \in Requests : View(r) \/ Arrive(r) \/ Serve(r)
  \/ Crash
  \/ Quiescent

\* Threads that can take a step are eventually scheduled; nothing says that
\* a client sends a request.
Fairness == \A r \in Requests : WF_vars(Serve(r))

Spec     == Init /\ [][Next]_vars
FairSpec == Spec /\ Fairness
-----------------------------------------------------------------------------
(* Properties *)

TypeOK ==
  /\ file \in [Paths -> Content]
  /\ backups \subseteq [path : Paths, stamp : Nat, content : Content]
  /\ saved \in [Versions -> Paths]
  /\ now \in Nat
  /\ conf \in [Versions -> Paths]
  /\ owner \in [Paths -> Requests \cup {NoRequest}]
  /\ pc \in [Requests -> PCs]
  /\ kind \in [Requests -> AllKinds]
  /\ ver \in [Requests -> Versions]
  /\ lockPath \in [Requests -> Paths]
  /\ path \in [Requests -> Paths]
  /\ target \in [Requests -> Paths]
  /\ buf \in [Requests -> Content]
  /\ before \in [Requests -> Content]

\* The part of a request between reading a config file and being done with it.
Cycle == {"loaded", "copy", "prune", "open", "dump", "close"}

\* No two requests are between the load and the end of the save of the same
\* file: with_config_lock's promise that a "load->mutate->save cycle can't
\* interleave with another request's" (config_manager.py:296-303).
CyclesNeverInterleave ==
  \A r, q \in Requests :
    (r # q /\ pc[r] \in Cycle /\ pc[q] \in Cycle) => path[r] # path[q]

\* While an edit's write has the config file truncated, restoring now would
\* bring back exactly what that write destroyed: the newest backup is of the
\* content the write truncated, and neither pruning nor another request's
\* backup has taken it away (save_kea_config, prune_backups, copy_file).
Recoverable ==
  \A r \in Requests :
    (kind[r] = "edit" /\ pc[r] \in {"dump", "close"} /\ before[r] # Absent)
      => \E b \in Newest(path[r]) : b.content = before[r]

\* A config file only ever holds a configuration descended from itself and
\* edits made to it, whatever restores happened: a backup of one file is never
\* restored over another (_config_identity, AUDIT_FINDINGS.md 1.7).
FilesNeverMix ==
  \A p \in Paths : \A t \in file[p].edits :
    IF t \in Requests THEN path[t] = p ELSE t = p

\* The edits written in full: answered with success, about to be, or written
\* just before the process was lost.
Written(r) == kind[r] = "edit" /\ pc[r] \in {"answer", "cut", "ok"}

\* An edit written in full, so every edit answered with success, is never lost
\* for good: it is in the file, or about to be written back by a request that
\* has the file open, or in a backup of that file, however many writes were
\* torn, failed or killed since (save_kea_config).  Restores are left out: they
\* discard edits on purpose.
AnsweredEditsSurvive ==
  \A r \in Requests : Written(r) =>
    \/ r \in file[path[r]].edits
    \/ \E q \in Requests : /\ pc[q] \in {"dump", "close"}
                           /\ path[q] = path[r]
                           /\ r \in buf[q].edits
    \/ \E b \in BackupsOf(path[r]) : r \in b.content.edits

\* What each of the last Keep edits replaced is still in the backup directory,
\* whatever failed in between, as long as the clock advances by a second between
\* two backups: "Every config write copies the existing file first [...] keeping
\* the hundred most recent" (README.md:132).  Checked with Keep >= |Requests|.
EveryReplacedVersionKept ==
  \A r \in Requests :
    (Written(r) /\ before[r].state = "whole")
      => \E b \in BackupsOf(path[r]) : b.content = before[r]

\* Every request that came in is answered, or dies with the process: no lock
\* is left held on any of the early returns and error paths.
EveryRequestAnswered ==
  \A r \in Requests : (pc[r] = "wait") ~> (pc[r] \in Results)

-----------------------------------------------------------------------------
(* What keeps them true: the parts of the inductive invariants *)

\* A request past its wait owns the lock it waited for.
LockHeld == \A r \in Requests : pc[r] \in Holding => owner[lockPath[r]] = r

\* From the moment it persists the new path, a repoint until it is answered.
Switching(r) ==
  /\ kind[r] = "repoint"
  /\ pc[r] \in {"switch", "boot", "open", "dump", "close", "answer"}

\* While a repoint switches the path of a daemon's file and bootstraps the new
\* one, no other request for that daemon is under way.  The code does not see
\* to it: config_lock is of the old path (the run MCConfigStore_stale_lock).
RepointsAlone ==
  \A r, q \in Requests :
    (r # q /\ ver[r] = ver[q] /\ Switching(r)) => pc[q] \notin InFlight

\* Then a request works on the file its daemon's pointer names, and that is the
\* one it has locked, except while it bootstraps the file it switched to.
Pinned ==
  /\ \A v \in Versions : VersionOf[conf[v]] = v /\ VersionOf[saved[v]] = v
  /\ \A r \in Requests : pc[r] \in InFlight =>
       /\ kind[r] # "view"
       /\ pc[r] \in {"persist", "switch", "boot"} => kind[r] = "repoint"
       /\ pc[r] \in {"loaded", "copy", "prune"} => kind[r] # "repoint"
       /\ VersionOf[target[r]] = ver[r]
       /\ path[r] = conf[ver[r]]
       /\ pc[r] = "boot" => path[r] = target[r]
       /\ (Switching(r) /\ pc[r] # "switch") \/ lockPath[r] = path[r]

\* t may be part of a configuration of path p.
BelongsTo(t, p) ==
  \/ t = p
  \/ t \in Requests /\ path[t] = p /\ pc[t] \in Cycle \cup {"answer"} \cup Results

\* Files, backups and configurations in memory hold what belongs to their path.
OnlyOwnEdits ==
  /\ \A p \in Paths : \A t \in file[p].edits : BelongsTo(t, p)
  /\ \A b \in backups : \A t \in b.content.edits : BelongsTo(t, b.path)
  /\ \A r \in Requests : pc[r] \in Cycle =>
       \A t \in buf[r].edits : BelongsTo(t, path[r])

\* From its copy to the end of its write, an edit's old version is the newest
\* backup of its file.
BackedUp ==
  /\ \A b \in backups : b.stamp <= now
  /\ \A r \in Requests :
       (kind[r] = "edit" /\ pc[r] \in {"prune", "open"} /\ file[path[r]] # Absent)
         => \E b \in Newest(path[r]) : b.content = file[path[r]]
  /\ Recoverable

-----------------------------------------------------------------------------
(* The requests implement atomic edits and rollbacks of one file: a half-    *)
(* written file counts as what it held until its writer closes it or fails.  *)

Writing(r, p) == pc[r] \in {"dump", "close"} /\ path[r] = p

Settled(p) ==
  IF \E r \in Requests : Writing(r, p)
    THEN before[CHOOSE r \in Requests : Writing(r, p)]
    ELSE file[p]

Abstract == INSTANCE AtomicConfig WITH
  cfg     <- [p \in Paths |-> Settled(p)],
  kept    <- [p \in Paths |-> {b.content : b \in BackupsOf(p)}],
  applied <- {r \in Requests : Written(r)},
  answered <- {r \in Requests : kind[r] = "edit" /\ pc[r] = "ok"}

\* Whatever the interleaving and the failures, the files behave as if every
\* edit and every restore happened at one instant, on the whole file, and only
\* an edit that has happened is answered with success.
ImplementsAtomicConfig == Abstract!Spec
=============================================================================
