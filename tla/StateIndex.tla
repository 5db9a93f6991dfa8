----------------------------- MODULE StateIndex -----------------------------
(***************************************************************************)
(* The search index over one daemon's leases and reservations              *)
(* (ez_kea/core/state_index.py): whoever finds that a source's fingerprint *)
(* has changed parses the source again and replaces its table in one       *)
(* SQLite transaction.                                                     *)
(*                                                                         *)
(* The background thread does so for ever; the routes that save a          *)
(* reservation do it before they answer, with the config lock still held.  *)
(* The background thread takes no lock to read the configuration, which    *)
(* requests save meanwhile, and Kea appends to the lease file and compacts *)
(* it.  (A page does one pass over its own table before it searches, by    *)
(* the same steps as the background thread.)                               *)
(*                                                                         *)
(* A configuration is the number of the save that wrote it: it stands for  *)
(* its reservations, and for its map from subnet ids to CIDRs, with which  *)
(* the lease rows are resolved.  A lease row is an address and the number  *)
(* of the transaction that Kea recorded.                                   *)
(***************************************************************************)
EXTENDS Naturals, Sequences, FiniteSets, SequencesExt

CONSTANTS
  Background,   \* the thread of start_background_state_indexer
  Savers,       \* requests that save the configuration, once each
  Nudgers,      \* those of them that call reindex_now
  Addresses,    \* addresses that are leased
  Advance,      \* ticks of a file's clock between two steps of one writer
  MaxGrants,    \* bound: lease transactions
  None          \* no worker

Workers == {Background} \cup Savers
Kinds   == {"lease", "reservation"}

ASSUME StateIndexAssumption ==
  /\ Background \notin Savers
  /\ Nudgers \subseteq Savers
  /\ None \notin Workers
  /\ Advance \subseteq Nat /\ Advance # {}
  /\ MaxGrants \in Nat

VARIABLES
  \* --- on disk
  conf,      \* the configuration: state, number of its save, mtime
  leases,    \* the lease file: its rows, mtime
  granted,   \* granted[a]: Kea's last transaction for a (0: none)
  \* --- the index
  table,     \* table[k]: what the rows of k were parsed from
  meta,      \* meta[k]: the fingerprint stored with them
  writer,    \* who holds SQLite's write lock
  \* --- the process
  confLock,  \* who holds the config lock
  pc,
  todo,      \* tables left in the pass
  job        \* the table in hand: its fingerprint and what has been parsed

disk  == <<conf, leases, granted>>
index == <<table, meta, writer>>
vars  == <<disk, index, confLock, pc, todo, job>>

-----------------------------------------------------------------------------
(* Sources *)

\* An empty file is read as the skeleton, one that does not parse raises.
Parses(c) == c.state # "partial"

\* parse_reservation4/6, _subnet_id_map: nothing in a skeleton.
Version(c) == IF c.state = "empty" THEN 0 ELSE c.version

LastOf(rows, a)  == Max({0} \cup {i \in DOMAIN rows : rows[i].addr = a})

\* Faulty: the first row of an address is kept.
FirstRows(rows) == [a \in Addresses |->
  IF LastOf(rows, a) = 0 THEN 0
  ELSE rows[CHOOSE i \in DOMAIN rows : /\ rows[i].addr = a
              /\ \A j \in DOMAIN rows : rows[j].addr = a => i <= j].at]

\* parse_lease4/6: one row per address, the last of the file.
Rows(rows) == [a \in Addresses |->
  IF LastOf(rows, a) = 0 THEN 0 ELSE rows[LastOf(rows, a)].at]

NoRows == [a \in Addresses |-> 0]
NoStat == <<0, 0>>
NoMeta == [conf |-> NoStat, leases |-> NoStat]

\* While it is written a file grows: it is empty, a part, then whole.
SizeOf(c) == CASE c.state = "empty" -> 0 [] c.state = "partial" -> 1
               [] c.state = "whole" -> 2

\* Faulty: the size is left out.
ConfStatTime(c) == <<c.tick>>

\* _fingerprint: mtime and size.
ConfStat(c)  == <<c.tick, SizeOf(c)>>
LeaseStat(l) == <<l.tick, Len(l.rows)>>

NoJob == [kind |-> None, print |-> NoMeta, version |-> 0, rows |-> NoRows]

Init ==
  /\ conf = [state |-> "whole", version |-> 1, tick |-> 1]
  /\ leases = [rows |-> <<>>, tick |-> 1]
  /\ granted = NoRows
  /\ table = [k \in Kinds |-> [version |-> 0, rows |-> NoRows]]
  /\ meta = [k \in Kinds |-> NoMeta]
  /\ writer = None
  /\ confLock = None
  /\ pc = [w \in Workers |-> "idle"]
  /\ todo = [w \in Workers |-> {}]
  /\ job = [w \in Workers |-> NoJob]

-----------------------------------------------------------------------------
(* Kea's lease file.  A file's clock may stand still between two changes,   *)
(* for mtime has the resolution of the kernel's tick.                       *)

Ticks(t) == {t + n : n \in Advance}

\* Every transaction is a row at the end of the file.
Grant(a) ==
  LET n == Cardinality({i \in 1..MaxGrants : \E b \in Addresses : granted[b] >= i}) + 1 IN
  /\ n <= MaxGrants
  /\ granted' = [granted EXCEPT ![a] = n]
  /\ \E t \in Ticks(leases.tick) :
       leases' = [rows |-> Append(leases.rows, [addr |-> a, at |-> n]), tick |-> t]
  /\ UNCHANGED conf

\* The lease file cleanup keeps the last row of each address, in an order of its own.
Compact ==
  LET last == SetToSeq({leases.rows[i] :
                          i \in {LastOf(leases.rows, a) : a \in Addresses} \ {0}}) IN
  /\ last # leases.rows
  /\ leases' = [rows |-> last, tick |-> leases.tick + 1]
  /\ UNCHANGED <<conf, granted>>

Kea ==
  /\ Compact \/ \E a \in Addresses : Grant(a)
  /\ UNCHANGED <<index, confLock, pc, todo, job>>

-----------------------------------------------------------------------------
(* A pass: for each table, stat, compare, and replace in a transaction *)

NextKind(w, rest) ==
  /\ todo' = [todo EXCEPT ![w] = rest]
  /\ \E k \in rest :
       /\ "lease" \in rest => k = "lease"
       /\ job' = [job EXCEPT ![w] = [NoJob EXCEPT !.kind = k]]
       /\ pc' = [pc EXCEPT ![w] = IF k = "lease" THEN "stat" ELSE "stat_conf"]
  /\ UNCHANGED confLock

\* run_once has returned or raised.  The background thread logs and sleeps; a
\* save is answered, with an error if its pass raised, and its lock is free.
EndPass(w, good) ==
  /\ todo' = [todo EXCEPT ![w] = {}]
  /\ job' = [job EXCEPT ![w] = NoJob]
  /\ \/ /\ w = Background
        /\ pc' = [pc EXCEPT ![w] = "idle"]
        /\ UNCHANGED confLock
     \/ /\ w \in Savers
        /\ pc' = [pc EXCEPT ![w] = IF good THEN "answered" ELSE "failed"]
        /\ confLock' = None

\* Faulty: what one pass raises ends the background thread.
GoOnOrDie(w, good) ==
  IF w = Background /\ ~good
    THEN /\ pc' = [pc EXCEPT ![w] = "failed"]
         /\ UNCHANGED <<todo, job, confLock>>
    ELSE LET rest == todo[w] \ {job[w].kind} IN
         IF good /\ rest # {} THEN NextKind(w, rest) ELSE EndPass(w, good)

\* ingest_all goes on to the next table, and raises what a table raises.
GoOn(w, good) ==
  LET rest == todo[w] \ {job[w].kind} IN
  IF good /\ rest # {} THEN NextKind(w, rest) ELSE EndPass(w, good)

StartPass(w) ==
  /\ pc[w] = "idle"
  /\ w = Background
  /\ NextKind(w, Kinds)
  /\ UNCHANGED <<disk, index>>

\* The lease table's fingerprint is made of both files', one after the other.
Stat(w) ==
  /\ pc[w] = "stat"
  /\ job' = [job EXCEPT ![w].print.leases = LeaseStat(leases)]
  /\ pc' = [pc EXCEPT ![w] = "stat_conf"]
  /\ UNCHANGED <<disk, index, confLock, todo>>

StatConf(w) ==
  /\ pc[w] = "stat_conf"
  /\ job' = [job EXCEPT ![w].print.conf = ConfStat(conf)]
  /\ pc' = [pc EXCEPT ![w] = "compare"]
  /\ UNCHANGED <<disk, index, confLock, todo>>

\* The stored fingerprint is read outside the transaction.
Compare(w) ==
  /\ pc[w] = "compare"
  /\ \/ /\ meta[job[w].kind] = job[w].print
        /\ GoOn(w, TRUE)
     \/ /\ meta[job[w].kind] # job[w].print
        /\ pc' = [pc EXCEPT ![w] = "begin"]
        /\ UNCHANGED <<confLock, todo, job>>
  /\ UNCHANGED <<disk, index>>

\* Faulty: the file is read before the write lock is waited for.
BeginReading(w) ==
  /\ pc[w] = "begin"
  /\ Parses(conf)
  /\ job' = [job EXCEPT ![w].version = Version(conf)]
  /\ pc' = [pc EXCEPT ![w] = IF job[w].kind = "lease" THEN "read_leases" ELSE "commit"]
  /\ UNCHANGED <<disk, index, confLock, todo>>

\* BEGIN IMMEDIATE waits 30 seconds for the write lock, then raises; with it,
\* load_json, without the config lock: a part of a file raises, and rolls back.
Begin(w) ==
  /\ pc[w] = "begin"
  /\ \/ /\ writer = None
        /\ Parses(conf)
        /\ writer' = w
        /\ job' = [job EXCEPT ![w].version = Version(conf)]
        /\ pc' = [pc EXCEPT ![w] = IF job[w].kind = "lease" THEN "read_leases"
                                                            ELSE "commit"]
        /\ UNCHANGED <<confLock, todo>>
     \/ /\ writer # None \/ ~Parses(conf)
        /\ GoOn(w, FALSE)
        /\ UNCHANGED writer
  /\ UNCHANGED <<disk, table, meta>>

ReadLeases(w) ==
  /\ pc[w] = "read_leases"
  /\ job' = [job EXCEPT ![w].rows = Rows(leases.rows)]
  /\ pc' = [pc EXCEPT ![w] = "commit"]
  /\ UNCHANGED <<disk, index, confLock, todo>>

\* Faulty: what is stored is the fingerprint that the sources have by now.
CommitLate(w) ==
  LET j == job[w] IN
  /\ pc[w] = "commit"
  /\ table' = [table EXCEPT ![j.kind] = [version |-> j.version, rows |-> j.rows]]
  /\ meta' = [meta EXCEPT ![j.kind] = [j.print EXCEPT !.conf = ConfStat(conf)]]
  /\ writer' = None
  /\ GoOn(w, TRUE)
  /\ UNCHANGED disk

\* _replace_rows and the fingerprint that was taken before, in one transaction.
Commit(w) ==
  LET j == job[w] IN
  /\ pc[w] = "commit"
  /\ table' = [table EXCEPT ![j.kind] = [version |-> j.version, rows |-> j.rows]]
  /\ meta' = [meta EXCEPT ![j.kind] = j.print]
  /\ writer' = None
  /\ GoOn(w, TRUE)
  /\ UNCHANGED disk

Ingest(w) ==
  \/ StartPass(w) \/ Stat(w) \/ StatConf(w) \/ Compare(w) \/ Begin(w)
  \/ ReadLeases(w) \/ Commit(w)

-----------------------------------------------------------------------------
(* Saving the configuration: ConfigStore has it in full *)

\* with_config_lock and load_json.
Load(s) ==
  /\ pc[s] = "idle"
  /\ s \in Savers
  /\ confLock = None
  /\ \/ /\ Parses(conf)
        /\ confLock' = s
        /\ pc' = [pc EXCEPT ![s] = "open"]
     \/ /\ ~Parses(conf)
        /\ pc' = [pc EXCEPT ![s] = "failed"]
        /\ UNCHANGED confLock
  /\ UNCHANGED <<disk, index, todo, job>>

\* Two saves are at least a tick of the file system's clock apart ...
SaveOpen(s) ==
  /\ pc[s] = "open"
  /\ conf' = [state |-> "empty", version |-> conf.version + 1, tick |-> conf.tick + 1]
  /\ pc' = [pc EXCEPT ![s] = "dump"]
  /\ UNCHANGED <<leases, granted, index, confLock, todo, job>>

\* ... but the steps of one need not be.  (A file small enough for Python's
\* buffer is empty until it is closed: as if nobody had looked at the part.)
SaveDump(s) ==
  /\ pc[s] = "dump"
  /\ \E t \in Ticks(conf.tick) : conf' = [conf EXCEPT !.state = "partial", !.tick = t]
  /\ pc' = [pc EXCEPT ![s] = "close"]
  /\ UNCHANGED <<leases, granted, index, confLock, todo, job>>

\* The routes for reservations then reindex, the others answer.
SaveClose(s) ==
  /\ pc[s] = "close"
  /\ \E t \in Ticks(conf.tick) : conf' = [conf EXCEPT !.state = "whole", !.tick = t]
  /\ \/ s \in Nudgers /\ NextKind(s, {"reservation"})
     \/ s \notin Nudgers /\ EndPass(s, TRUE)
  /\ UNCHANGED <<leases, granted, index>>

\* The backup fails, or a full disk or the loss of the thread leaves the file
\* as far as it got.
SaveFails(s) ==
  /\ pc[s] \in {"open", "dump", "close"}
  /\ EndPass(s, FALSE)
  /\ UNCHANGED <<disk, index>>

Save(s) == SaveOpen(s) \/ SaveDump(s) \/ SaveClose(s) \/ SaveFails(s)

-----------------------------------------------------------------------------
Next ==
  \/ Kea
  \/ \E w \in Workers : Ingest(w) \/ Load(w) \/ Save(w)

\* Threads that can take a step take one in the end; nothing says that clients
\* ask for anything, or that Kea leases.
Fairness == \A w \in Workers : WF_vars(Ingest(w) \/ Save(w))

Spec     == Init /\ [][Next]_vars
FairSpec == Spec /\ Fairness

-----------------------------------------------------------------------------
(* Properties *)

Stamp    == Nat \X Nat
Meta     == [conf : Stamp, leases : Stamp]
RowsType == [Addresses -> 0..MaxGrants]

TypeOK ==
  /\ conf \in [state : {"empty", "partial", "whole"}, version : Nat, tick : Nat]
  /\ leases \in [rows : Seq([addr : Addresses, at : 1..MaxGrants]), tick : Nat]
  /\ granted \in RowsType
  /\ table \in [Kinds -> [version : Nat, rows : RowsType]]
  /\ meta \in [Kinds -> Meta]
  /\ writer \in Workers \cup {None}
  /\ confLock \in Savers \cup {None}
  /\ pc \in [Workers -> {"idle", "stat", "stat_conf", "compare", "begin",
                         "read_leases", "commit", "open", "dump", "close",
                         "answered", "failed"}]
  /\ todo \in [Workers -> SUBSET Kinds]
  /\ job \in [Workers -> [kind : Kinds \cup {None}, print : Meta, version : Nat,
                          rows : RowsType]]

\* What the rows of a table ought to be: the reservations and ids of the file,
\* and Kea's own view of each lease, whatever rows the lease file still has.
Truth(k) == [version |-> Version(conf),
             rows    |-> IF k = "lease" THEN granted ELSE NoRows]

Fingerprint(k) == [conf   |-> ConfStat(conf),
                   leases |-> IF k = "lease" THEN LeaseStat(leases) ELSE NoStat]

\* A table whose stored fingerprint is that of its sources, and which nobody
\* will therefore parse again, is what its sources say: a fingerprint is never
\* stored with rows that are older, whoever else ingests or saves meanwhile
\* (_ingest_source, _fingerprint).
FreshIfUnchanged == \A k \in Kinds : meta[k] = Fingerprint(k) => table[k] = Truth(k)

\* Of two ingesters the later to commit has parsed the later version, though it
\* may store the earlier fingerprint: no table goes back to an older lease, or
\* to an older configuration other than the empty one of a save under way.
RowsNeverGoBack == [][\A k \in Kinds :
  /\ table'[k].version = 0 \/ table'[k].version >= table[k].version
  /\ \A a \in Addresses : table'[k].rows[a] >= table[k].rows[a]]_vars

\* The page to which an answered reservation route redirects finds, in the
\* table, what that route saved, whatever the background thread was parsing
\* while the file was written: "without an immediate reindex it wouldn't show
\* up in a search" (new_reservation, reindex_now).
AnsweredSaveIsShown == [][\A s \in Nudgers :
  pc[s] # "answered" /\ pc'[s] = "answered" =>
    table'["reservation"] = Truth("reservation")']_vars

\* When nothing changes any more, the index ends up as the files are, and
\* stays so, unless the configuration does not parse.
IndexSettles == <>[](Parses(conf) => \A k \in Kinds : table[k] = Truth(k))
=============================================================================
