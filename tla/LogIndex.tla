------------------------------ MODULE LogIndex ------------------------------
(***************************************************************************)
(* The searchable log history (ez_kea/core/log_index.py): ingesters copy   *)
(* the lines of Kea's log and of its rotated siblings into SQLite while    *)
(* Kea goes on writing and logrotate renames, compresses or truncates the  *)
(* files.                                                                  *)
(*                                                                         *)
(* Several workers may ingest at once: the background thread, for ever,    *)
(* and the threads that "reindex" starts, one pass each.  Each file is     *)
(* ingested in one IMMEDIATE transaction, but stat, the check of the head  *)
(* hash, the read and the hash that is stored open the file separately.    *)
(*                                                                         *)
(* Lines are numbered as they are written and are all of the same length:  *)
(* an offset is a number of lines, and what is hashed is the lines         *)
(* themselves.                                                             *)
(***************************************************************************)
EXTENDS Naturals, Sequences, FiniteSets, SequencesExt

CONSTANTS
  Background,    \* the thread of start_background_indexer
  Refills,       \* the threads of logs_reindex, one pass each
  Inodes,        \* inode numbers; one that is free again may be reused
  MaxLines,      \* bound: lines that Kea writes
  MaxRotations,  \* bound: rotations of the live log
  MaxExpired,    \* bound: lines that age past the retention
  MaxCrashes,    \* bound: losses of the process
  MaxIncidents,  \* bound: all of these and the reindexes together
  MaxBatch,      \* MAX_BATCH_LINES
  PruneBatch,    \* the batch of prune
  Fingerprint,   \* FINGERPRINT_BYTES, in lines
  Rotations,     \* how logs rotate, a subset of {"rename", "copytruncate"}
  Mishaps,       \* a subset of {"gzip_dies"}
  None           \* no inode, no worker

Workers == {Background} \cup Refills
Line    == 1..MaxLines
Live    == "log"
Old     == "log.1"
Gz      == "log.1.gz"
Paths   == {Live, Old, Gz}

ASSUME LogIndexAssumption ==
  /\ Background \notin Refills
  /\ Inodes \subseteq Nat /\ Inodes # {}
  /\ None \notin Workers \cup Inodes
  /\ {MaxLines, MaxRotations, MaxExpired, MaxCrashes, MaxIncidents} \subseteq Nat
  /\ {MaxBatch, PruneBatch, Fingerprint} \subseteq Nat \ {0}
  /\ Rotations \subseteq {"rename", "copytruncate"}
  /\ Mishaps \subseteq {"gzip_dies"}

VARIABLES
  \* --- the log directory
  at,         \* at[p]: the inode at path p, or None
  data,       \* data[i]: its lines, whether it ends in half a line, whether
              \*   it is an archive whose end is missing
  kea,        \* the inode Kea is writing to
  written,    \* lines written so far
  rotations,  \* rotations so far
  gzip,       \* is logrotate's gzip running
  expired,    \* lines up to this one are past LOG_INDEX_RETENTION_DAYS
  \* --- the database
  sources,    \* log_sources in the order of their ids, each with the lines of
              \*   log_entries that carry its id and the ids of those entries
  writer,     \* who holds SQLite's write lock
  \* --- the ingesters
  pc,
  todo,       \* the files left in the pass
  job,        \* the file in hand: what stat said (forgotten once compared),
              \*   which source it resumes (0 for a new one), from which
              \*   offset, and the lines read
  picked,     \* picked[w]: the ids of the entries that w is going to prune
  crashes,
  \* --- history
  swapped,    \* the ingesters whose file in hand was emptied since its stat,
              \*   or its inode given to another log
  lost        \* lines pruned though they were not past the retention, or due
              \*   in an archive that was read while it was still empty

disk == <<at, data, kea, written, rotations, gzip, expired>>
vars == <<disk, sources, writer, pc, todo, job, picked, crashes, swapped, lost>>

-----------------------------------------------------------------------------
(* Files *)

Blank   == [lines |-> <<>>, half |-> FALSE, torn |-> FALSE]
File(p) == data[at[p]]

\* In half lines, so that a trailing fragment counts.
Size(f) == 2 * Len(f.lines) + (IF f.half THEN 1 ELSE 0)

\* Faulty: a fixed window of the file as it is now.
FixedWindow(p, length) ==
  SubSeq(File(p).lines, 1, Min({Fingerprint, Len(File(p).lines)}))

\* _head_hash: of the part consumed, capped; a shorter file is hashed whole.
HeadHash(p, length) ==
  SubSeq(File(p).lines, 1, Min({length, Fingerprint, Len(File(p).lines)}))

\* rotated_siblings: what is there beside the live log.
Siblings == {p \in Paths \ {Live} : at[p] # None}

\* Siblings come before the live log, in the order of their mtimes.
Upcoming(w) == IF todo[w] = {Live} THEN {Live} ELSE todo[w] \ {Live}

\* The inode a new file gets: the smallest that no file has.
Free == {i \in Inodes \ ({at[p] : p \in Paths} \cup {kea}) :
           \A j \in Inodes \ ({at[p] : p \in Paths} \cup {kea}) : i <= j}

-----------------------------------------------------------------------------
(* The index *)

\* The newest source of path p (ORDER BY id DESC LIMIT 1), 0 if there is none.
NewestRow(p) == Max({0} \cup {i \in DOMAIN sources : sources[i].path = p})

Entries(l) == {i \in DOMAIN sources : Contains(sources[i].got, l)}

\* The ids of the next n entries: what SQLite gives to an INTEGER PRIMARY KEY
\* goes on from the largest in the table, and from 1 once that is empty.
NewIds(n) ==
  LET last == Max({0} \cup UNION {ToSet(sources[i].ids) : i \in DOMAIN sources}) IN
  [k \in 1..n |-> last + k]

NoJob == [path |-> None, ino |-> None, size |-> 0, row |-> 0, start |-> 0,
          lines |-> <<>>]

\* May one more thing go on that is not the daily run of the log.
Eventful == rotations + expired + crashes + Cardinality({w \in Refills : pc[w] # "idle"})
              < MaxIncidents

Init ==
  /\ \E i \in Inodes :
       /\ \A j \in Inodes : i <= j
       /\ at = [p \in Paths |-> IF p = Live THEN i ELSE None]
       /\ kea = i
  /\ data = [i \in Inodes |-> Blank]
  /\ written = 0 /\ rotations = 0 /\ gzip = FALSE /\ expired = 0
  /\ sources = <<>>
  /\ writer = None
  /\ pc = [w \in Workers |-> "idle"]
  /\ todo = [w \in Workers |-> {}]
  /\ job = [w \in Workers |-> NoJob]
  /\ picked = [w \in Workers |-> {}]
  /\ crashes = 0
  /\ swapped = {} /\ lost = {}

-----------------------------------------------------------------------------
(* Kea and logrotate *)

\* A write of Kea's ends in the middle of a line ...
WriteHalf ==
  /\ written < MaxLines
  /\ ~data[kea].half
  /\ data' = [data EXCEPT ![kea].half = TRUE]
  /\ UNCHANGED <<at, kea, written, rotations, gzip, expired>>

\* ... and another one ends the line.
WriteLine ==
  /\ written < MaxLines
  /\ written' = written + 1
  /\ data' = [data EXCEPT ![kea].half = FALSE, ![kea].lines = Append(@, written + 1)]
  /\ UNCHANGED <<at, kea, rotations, gzip, expired>>

\* create: the live log is renamed, Kea writes to it until told to reopen.
Rename ==
  /\ "rename" \in Rotations
  /\ rotations < MaxRotations /\ Eventful
  /\ at[Old] = None
  /\ \E i \in Free : /\ at' = [at EXCEPT ![Old] = at[Live], ![Live] = i]
                     /\ data' = [data EXCEPT ![i] = Blank]
  /\ rotations' = rotations + 1
  /\ UNCHANGED <<kea, written, gzip, expired>>

\* Kea opens the new log; a line it was writing is finished in the old one.
Reopen ==
  /\ kea # at[Live]
  /\ ~data[kea].half
  /\ kea' = at[Live]
  /\ UNCHANGED <<at, data, written, rotations, gzip, expired>>

\* copytruncate: a copy, and the live log starts again in place.
CopyTruncate ==
  /\ "copytruncate" \in Rotations
  /\ rotations < MaxRotations /\ Eventful
  /\ at[Old] = None
  /\ ~data[kea].half
  /\ \E i \in Free : /\ at' = [at EXCEPT ![Old] = i]
                     /\ data' = [data EXCEPT ![i] = File(Live), ![at[Live]] = Blank]
  /\ rotations' = rotations + 1
  /\ UNCHANGED <<kea, written, gzip, expired>>

\* compress: the archive appears under its name, empty ...
Compress ==
  /\ at[Old] \notin {None, kea}
  /\ at[Gz] = None
  /\ \E i \in Free : /\ at' = [at EXCEPT ![Gz] = i]
                     /\ data' = [data EXCEPT ![i] = Blank]
  /\ gzip' = TRUE
  /\ UNCHANGED <<kea, written, rotations, expired>>

\* ... is without its end while gzip writes ...
Fill ==
  /\ gzip
  /\ ~File(Gz).torn
  /\ data' = [data EXCEPT ![at[Gz]] = [File(Old) EXCEPT !.torn = TRUE]]
  /\ UNCHANGED <<at, kea, written, rotations, gzip, expired>>

\* ... and is complete before the log it was made from is removed.
Compressed ==
  /\ gzip
  /\ File(Gz).torn
  /\ data' = [data EXCEPT ![at[Gz]].torn = FALSE]
  /\ at' = [at EXCEPT ![Old] = None]
  /\ gzip' = FALSE
  /\ UNCHANGED <<kea, written, rotations, expired>>

\* A full disk, a reboot: gzip leaves an archive without its end, or empty.
GzipDies ==
  /\ gzip
  /\ "gzip_dies" \in Mishaps
  /\ gzip' = FALSE
  /\ UNCHANGED <<at, data, kea, written, rotations, expired>>

Expire ==
  /\ expired < written /\ expired < MaxExpired /\ Eventful
  /\ expired' = expired + 1
  /\ UNCHANGED <<at, data, kea, written, rotations, gzip>>

\* The inode of a file stays with that file, and no line is taken from it.
StillThatFile(i) == \A p \in {Live, Old} : at'[p] = i =>
  i \in {at[Live], at[Old]} /\ Len(data[i].lines) <= Len(data'[i].lines)

\* History: for how long an ingester's file has been another one.
Swaps == swapped' = {w \in Workers :
  /\ None \notin {job[w].ino, job'[w].ino}
  /\ w \in swapped \/ ~StillThatFile(job[w].ino)}

OnDiskOnly == UNCHANGED <<sources, writer, pc, todo, job, picked, crashes, lost>> /\ Swaps

Outside ==
  /\ \/ WriteHalf \/ WriteLine \/ Rename \/ Reopen \/ CopyTruncate
     \/ Compress \/ Fill \/ Compressed \/ GzipDies \/ Expire
  /\ OnDiskOnly

\* What the steps of the ingesters other than prune leave alone.
Aside == UNCHANGED <<disk, picked, crashes>>

-----------------------------------------------------------------------------
(* A pass: the siblings, the live log, then retention *)

Take(w, files) ==
  /\ todo' = [todo EXCEPT ![w] = files]
  /\ job' = [job EXCEPT ![w] = NoJob]
  /\ pc' = [pc EXCEPT ![w] = IF files = {} THEN "prune" ELSE "stat"]

\* run_once returns or raises: the background thread sleeps and starts again.
EndPass(w) ==
  /\ pc' = [pc EXCEPT ![w] = IF w = Background THEN "idle" ELSE "over"]
  /\ todo' = [todo EXCEPT ![w] = {}]
  /\ job' = [job EXCEPT ![w] = NoJob]

\* ingest_all goes on with the next file, whatever ingest_file returned.
NextFile(w) == Take(w, todo[w] \ {job[w].path})

\* Faulty: an exception in one file ends the whole pass.
RollbackEndsPass(w) == EndPass(w) /\ writer' = None /\ UNCHANGED sources

Rollback(w) == NextFile(w) /\ writer' = None /\ UNCHANGED sources

\* ingest_all, rotated_siblings.
StartPass(w) ==
  /\ pc[w] = "idle"
  /\ w = Background
  /\ Take(w, Siblings \cup {Live})
  /\ Aside /\ UNCHANGED <<sources, writer, lost>>

\* logs_reindex: rebuild empties the index, then a thread starts a pass.
Reindex(w) ==
  /\ pc[w] = "idle"
  /\ w \in Refills /\ Eventful
  /\ writer = None
  /\ sources' = <<>>
  /\ lost' = {}
  /\ Take(w, Siblings \cup {Live})
  /\ Aside /\ UNCHANGED writer

\* ingest_file: isfile and stat, before the transaction begins.
Stat(w) ==
  /\ pc[w] = "stat"
  /\ \E p \in Upcoming(w) :
       \/ /\ at[p] # None
          /\ job' = [job EXCEPT ![w] = [NoJob EXCEPT !.path = p, !.ino = at[p],
                                                     !.size = Size(File(p))]]
          /\ pc' = [pc EXCEPT ![w] = IF p = Gz THEN "begin_gz" ELSE "begin"]
          /\ UNCHANGED todo
       \/ /\ at[p] = None
          /\ Take(w, todo[w] \ {p})
  /\ Aside /\ UNCHANGED <<sources, writer, lost>>

\* Faulty: a log is known by its path, and must only not have shrunk.
SameFileByPath(p, ino, size) ==
  /\ NewestRow(p) # 0
  /\ size >= 2 * sources[NewestRow(p)].offset

\* _resume_point: the newest source of the path is still this file.
SameFile(p, ino, size) ==
  LET s == sources[NewestRow(p)] IN
  /\ NewestRow(p) # 0
  /\ s.ino = ino
  /\ size >= 2 * s.offset
  /\ at[p] # None
  /\ HeadHash(p, s.offset) = s.hash

\* Faulty: the offset is read without the write lock.
ResumeUnlocked(w) ==
  LET p == job[w].path
      r == IF SameFile(p, job[w].ino, job[w].size) THEN NewestRow(p) ELSE 0
      n == IF r = 0 THEN 0 ELSE sources[r].offset IN
  /\ pc[w] = "begin"
  /\ \/ /\ job[w].size <= 2 * n
        /\ NextFile(w)
     \/ /\ job[w].size > 2 * n
        /\ job' = [job EXCEPT ![w].row = r, ![w].start = n, ![w].size = 0]
        /\ pc' = [pc EXCEPT ![w] = "read"]
        /\ UNCHANGED todo
  /\ Aside /\ UNCHANGED <<sources, writer, lost>>

\* BEGIN IMMEDIATE, and the row is read with the write lock held.
Resume(w) ==
  LET p == job[w].path
      r == IF SameFile(p, job[w].ino, job[w].size) THEN NewestRow(p) ELSE 0
      n == IF r = 0 THEN 0 ELSE sources[r].offset IN
  /\ pc[w] = "begin"
  /\ writer = None
  /\ \/ /\ job[w].size <= 2 * n
        /\ Rollback(w)
     \/ /\ job[w].size > 2 * n
        /\ writer' = w
        /\ job' = [job EXCEPT ![w].row = r, ![w].start = n, ![w].size = 0]
        /\ pc' = [pc EXCEPT ![w] = "read"]
        /\ UNCHANGED <<sources, todo>>
  /\ Aside /\ UNCHANGED lost

\* The complete lines from an offset on, at most a batch of them.
WholeLines(p, from) ==
  SubSeq(File(p).lines, from + 1, Min({from + MaxBatch, Len(File(p).lines)}))

\* A batch is read; nothing but a fragment of a line is held back.
Read(w) ==
  LET p == job[w].path
      n == job[w].start IN
  /\ pc[w] = "read"
  /\ \/ /\ at[p] = None
        /\ Rollback(w)
     \/ /\ at[p] # None
        /\ Len(File(p).lines) = n /\ File(p).half
        /\ Rollback(w)
     \/ /\ at[p] # None
        /\ Len(File(p).lines) # n \/ ~File(p).half
        /\ job' = [job EXCEPT ![w].lines = WholeLines(p, n)]
        /\ pc' = [pc EXCEPT ![w] = "commit"]
        /\ UNCHANGED <<sources, writer, todo>>
  /\ Aside /\ UNCHANGED lost

\* Faulty: the offset stored is the size of the file.
CommitSize(w) ==
  LET j == job[w]
      n == Size(File(j.path)) IN
  /\ pc[w] = "commit"
  /\ at[j.path] # None
  /\ j.row = 0
  /\ sources' = Append(sources,
       [path |-> j.path, ino |-> j.ino, hash |-> HeadHash(j.path, n),
        offset |-> n, complete |-> FALSE, got |-> j.lines,
        ids |-> NewIds(Len(j.lines)), mixed |-> w \in swapped])
  /\ writer' = None
  /\ NextFile(w)
  /\ Aside /\ UNCHANGED lost

\* The entries and the advance of the offset are committed together; the file
\* is opened once more for the hash of what has been consumed.
Commit(w) ==
  LET j == job[w]
      n == j.start + Len(j.lines) IN
  /\ pc[w] = "commit"
  /\ \/ /\ at[j.path] = None
        /\ Rollback(w)
     \/ /\ at[j.path] # None
        /\ \/ /\ j.row = 0
              /\ sources' = Append(sources,
                   [path |-> j.path, ino |-> j.ino, hash |-> HeadHash(j.path, n),
                    offset |-> n, complete |-> FALSE, got |-> j.lines,
                    ids |-> NewIds(Len(j.lines)), mixed |-> w \in swapped])
           \/ /\ j.row # 0
              /\ sources' = [sources EXCEPT ![j.row].hash = HeadHash(j.path, n),
                                            ![j.row].offset = n,
                                            ![j.row].got = @ \o j.lines,
                                            ![j.row].ids = @ \o NewIds(Len(j.lines)),
                                            ![j.row].mixed = @ \/ w \in swapped]
        /\ writer' = None
        /\ NextFile(w)
  /\ Aside /\ UNCHANGED lost

\* An archive that was read in full under this path and inode is never read
\* again.
Done(p, ino) == \E i \in DOMAIN sources :
  sources[i].path = p /\ sources[i].ino = ino /\ sources[i].complete

BeginGz(w) ==
  /\ pc[w] = "begin_gz"
  /\ writer = None
  /\ \/ /\ Done(Gz, job[w].ino)
        /\ Rollback(w)
     \/ /\ ~Done(Gz, job[w].ino)
        /\ writer' = w
        /\ pc' = [pc EXCEPT ![w] = "read_gz"]
        /\ UNCHANGED <<sources, todo, job>>
  /\ Aside /\ UNCHANGED lost

\* What gzip has yet to write.
Pending == IF gzip THEN ToSet(File(Old).lines) \ ToSet(File(Gz).lines) ELSE {}

\* Reading an archive whose end is missing raises EOFError, which ingest_all
\* does not catch: the pass is over.  One that is still empty reads as no lines.
ReadGz(w) ==
  /\ pc[w] = "read_gz"
  /\ \/ /\ ~File(Gz).torn
        /\ sources' = Append(sources,
             [path |-> Gz, ino |-> job[w].ino, hash |-> <<>>, offset |-> 0,
              complete |-> TRUE, got |-> File(Gz).lines,
              ids |-> NewIds(Len(File(Gz).lines)), mixed |-> FALSE])
        /\ lost' = lost \cup {l \in Pending : l > expired /\ Entries(l) = {}}
        /\ NextFile(w)
     \/ /\ File(Gz).torn
        /\ EndPass(w)
        /\ UNCHANGED <<sources, lost>>
  /\ writer' = None
  /\ Aside

\* What is left of s when a DELETE keeps the rows at these places.
Kept(s, places) ==
  [n \in 1..Cardinality(places) |->
     s[CHOOSE i \in places : Cardinality({j \in places : j <= i}) = n]]

\* DELETE FROM log_entries: a source without the entries of these ids.
Without(s, ids) ==
  LET rest == {n \in DOMAIN s.ids : s.ids[n] \notin ids} IN
  [s EXCEPT !.got = Kept(@, rest), !.ids = Kept(@, rest)]

\* The ids and lines in the index, as pairs.
Stored == UNION {{<<sources[i].ids[n], sources[i].got[n]>> : n \in DOMAIN sources[i].got} :
                 i \in DOMAIN sources}

\* prune: entries past the retention are looked up, with no lock ...
Pick(w) ==
  LET old == {e[1] : e \in {d \in Stored : d[2] <= expired}} IN
  /\ pc[w] \in {"prune", "again"}
  /\ \/ /\ old = {} /\ pc[w] = "prune"
        /\ EndPass(w)
        /\ UNCHANGED picked
     \/ /\ old = {} /\ pc[w] = "again"
        /\ pc' = [pc EXCEPT ![w] = "sweep"]
        /\ UNCHANGED <<todo, job, picked>>
     \/ /\ old # {}
        /\ \E ids \in SUBSET old :
             /\ Cardinality(ids) = Min({PruneBatch, Cardinality(old)})
             /\ picked' = [picked EXCEPT ![w] = ids]
        /\ pc' = [pc EXCEPT ![w] = "delete"]
        /\ UNCHANGED <<todo, job>>
  /\ UNCHANGED <<disk, sources, writer, crashes, lost>>

\* ... then whatever has their ids is deleted, in a transaction, until nothing
\* is left to look up ...
Delete(w) ==
  /\ pc[w] = "delete"
  /\ writer = None
  /\ sources' = [i \in DOMAIN sources |-> Without(sources[i], picked[w])]
  /\ lost' = lost \cup {l \in Line : l > expired /\ \E e \in Stored : e[1] \in picked[w] /\ e[2] = l}
  /\ picked' = [picked EXCEPT ![w] = {}]
  /\ pc' = [pc EXCEPT ![w] = "again"]
  /\ UNCHANGED <<disk, writer, todo, job, crashes>>

\* ... and last, if anything was, the archives that are left empty go.
Sweep(w) ==
  /\ pc[w] = "sweep"
  /\ writer = None
  /\ sources' = Kept(sources, {i \in DOMAIN sources :
                                 ~(sources[i].complete /\ sources[i].got = <<>>)})
  /\ EndPass(w)
  /\ Aside /\ UNCHANGED <<writer, lost>>

\* The process is lost: a transaction under way has never happened, and what is
\* asked of the next one is asked anew.
Crash ==
  /\ crashes < MaxCrashes /\ Eventful
  /\ crashes' = crashes + 1
  /\ writer' = None
  /\ pc' = [w \in Workers |-> IF w = Background \/ pc[w] = "idle" THEN "idle" ELSE "over"]
  /\ todo' = [w \in Workers |-> {}]
  /\ job' = [w \in Workers |-> NoJob]
  /\ picked' = [w \in Workers |-> {}]
  /\ swapped' = {}
  /\ UNCHANGED <<disk, sources, lost>>

Ingest(w) ==
  /\ \/ StartPass(w) \/ Stat(w) \/ Resume(w) \/ Read(w) \/ Commit(w)
     \/ BeginGz(w) \/ ReadGz(w) \/ Pick(w) \/ Delete(w) \/ Sweep(w)
  /\ Swaps

Next ==
  \/ Outside
  \/ \E w \in Workers : Ingest(w) \/ (Reindex(w) /\ Swaps)
  \/ Crash

\* Threads that can take a step take one in the end.  gzip finishes, unless it
\* dies; nothing says that Kea writes or that logs rotate.
Fairness ==
  /\ \A w \in Workers : WF_vars(Ingest(w))
  /\ WF_vars((Fill \/ Compressed) /\ OnDiskOnly)

Spec     == Init /\ [][Next]_vars
FairSpec == Spec /\ Fairness

-----------------------------------------------------------------------------
(* Properties *)

Source == [path : Paths, ino : Inodes, hash : Seq(Line), offset : 0..MaxLines,
           complete : BOOLEAN, got : Seq(Line), ids : Seq(Nat), mixed : BOOLEAN]
Job    == [path : Paths \cup {None}, ino : Inodes \cup {None}, size : 0..2 * MaxLines + 1,
           row : Nat, start : 0..MaxLines, lines : Seq(Line)]

TypeOK ==
  /\ at \in [Paths -> Inodes \cup {None}]
  /\ data \in [Inodes -> [lines : Seq(Line), half : BOOLEAN, torn : BOOLEAN]]
  /\ kea \in Inodes
  /\ written \in 0..MaxLines /\ expired \in 0..written
  /\ rotations \in 0..MaxRotations /\ crashes \in 0..MaxCrashes
  /\ gzip \in BOOLEAN
  /\ sources \in Seq(Source)
  /\ \A i \in DOMAIN sources : Len(sources[i].ids) = Len(sources[i].got)
  /\ writer \in Workers \cup {None}
  /\ pc \in [Workers -> {"idle", "stat", "begin", "read", "commit", "begin_gz",
                         "read_gz", "prune", "delete", "again", "sweep", "over"}]
  /\ todo \in [Workers -> SUBSET Paths]
  /\ job \in [Workers -> Job]
  /\ picked \in [Workers -> SUBSET Nat]
  /\ swapped \subseteq Workers /\ lost \subseteq Line

\* A file is never resumed at a stale offset: if the next pass would take the
\* file at p for the one it was reading, then every line before the offset has
\* been indexed, or is past its retention (not "resumed at a stale offset",
\* log_index.py:37-39; _resume_point).  Two exceptions, each of a row or a line:
\* a row stored by an ingester whose file was emptied or replaced between its
\* stat and the hash it stored (468, 538), and a line that a prune deleted by an
\* id that was given again (600, 607, 640).
ResumesWhereItStopped ==
  \A p \in Paths \ {Gz} :
    (at[p] # None /\ SameFile(p, at[p], Size(File(p)))) =>
      LET s == sources[NewestRow(p)] IN
      ~s.mixed => \A l \in ToSet(SubSeq(File(p).lines, 1, s.offset)) :
                    l <= expired \/ l \in lost \/ Contains(s.got, l)

\* Within one row of log_sources no line is indexed twice and the lines keep
\* their order, however ingesters overlap, logs rotate and the process is lost:
\* the offset is read again with the write lock held (ingest_file's docstring).
\* It does not say that a file has one row: ReadOncePerFile does.
EachSourceInOrder ==
  \A i \in DOMAIN sources :
    \A m, n \in DOMAIN sources[i].got :
      m < n => sources[i].got[m] < sources[i].got[n]

\* "That is what makes concurrent ingesters safe without any extra locking: a
\* second worker blocks, then finds the offset already advanced and does
\* nothing" (log_index.py:461-463): no line is indexed twice from the file of
\* one path and inode.
ReadOncePerFile ==
  \A i, j \in DOMAIN sources :
    (i # j /\ sources[i].path = sources[j].path /\ sources[i].ino = sources[j].ino) =>
      ToSet(sources[i].got) \cap ToSet(sources[j].got) = {}

\* Until the log first rotates, no line is indexed twice.
ReadOnceUntilRotated ==
  rotations = 0 => \A l \in 1..written : Cardinality(Entries(l)) <= 1

\* So it is for one ingester, with restarts: appending to a log never looks like
\* a rotation, not even to a log so young that the whole of it is hashed
\* (_head_hash).
ReadOnceAlone ==
  (\A w \in Refills : pc[w] = "idle") => ReadOnceUntilRotated

\* The newest row of the log at p is of an ingester whose file was swapped.
Doubtful(p) == NewestRow(p) # 0 /\ sources[NewestRow(p)].mixed

\* On the disk, whole, under a path that the ingesters look at.
OnDisk(l) == \E p \in Paths :
  at[p] # None /\ ~File(p).torn /\ ~Doubtful(p) /\ Contains(File(p).lines, l)

CaughtUp == \A l \in 1..written :
  OnDisk(l) => l <= expired \/ l \in lost \/ Entries(l) # {}

\* However logs rotate, ingesters overlap and the process is lost, the index
\* catches up with the log files again, and no file is passed over for good
\* ("One unreadable archive must not stop the live log from being indexed",
\* log_index.py:563-564): each line on the disk is in the index, or past its
\* retention, but for what the two exceptions above name and for the lines of an
\* archive that was read before gzip had written anything to it (489-495).
AlwaysCatchesUp == []<>CaughtUp
=============================================================================
