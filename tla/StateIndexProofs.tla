--------------------------- MODULE StateIndexProofs ---------------------------
(* Theorems about StateIndex, for any savers, addresses and clocks. *)
EXTENDS StateIndex, FiniteSetTheorems, WellFoundedInduction, TLAPS

-----------------------------------------------------------------------------
(* What the helpers return *)

\* A bounded set of numbers has a greatest one.
LEMMA Greatest ==
  ASSUME NEW n \in Nat, NEW S \in SUBSET (0 .. n), S # {}
  PROVE  Max(S) \in S /\ \A i \in S : i <= Max(S)
<1> DEFINE Above == {i .. n : i \in S}
<1>1. IsWellFoundedOn(StrictSubsetOrdering(Nat), FiniteSubsetsOf(Nat))
  BY FS_StrictSubsetOrderingWellFounded
<1>2. Above \subseteq FiniteSubsetsOf(Nat) /\ Above # {}
  <2>1. \A i \in S : i .. n \in SUBSET Nat /\ IsFiniteSet(i .. n)
    BY FS_Interval
  <2>. QED
    BY <2>1 DEF FiniteSubsetsOf
<1>3. PICK J \in Above : \A K \in Above : ~ (<<K, J>> \in StrictSubsetOrdering(Nat))
  BY <1>1, <1>2, WFMin
<1>4. PICK m \in S : J = m .. n
  BY <1>3
<1>5. ASSUME NEW i \in S, ~ (i <= m) PROVE FALSE
  <2>1. i .. n \subseteq m .. n /\ m \in m .. n /\ m \notin i .. n
    BY <1>5
  <2>2. i .. n \in SUBSET Nat /\ m .. n \in SUBSET Nat
    OBVIOUS
  <2>3. <<i .. n, m .. n>> \in StrictSubsetOrdering(Nat)
    BY <2>1, <2>2 DEF StrictSubsetOrdering
  <2>. QED
    BY <2>3, <1>3, <1>4
<1>6. \A i \in S : i \in Nat
  OBVIOUS
<1>7. \E x \in S : \A y \in S : x >= y
  BY <1>5, <1>6
<1>8. Max(S) \in S /\ \A y \in S : Max(S) >= y
  BY <1>7 DEF Max
<1>. QED
  BY <1>6, <1>8

Row == [addr : Addresses, at : 1 .. MaxGrants]

\* The last row of an address is of that address, and no row of it comes later.
LEMMA LastIsLast ==
  ASSUME NEW rows \in Seq(Row), NEW a
  PROVE  /\ LastOf(rows, a) \in 0 .. Len(rows)
         /\ LastOf(rows, a) # 0 => rows[LastOf(rows, a)].addr = a
         /\ \A i \in DOMAIN rows : rows[i].addr = a => i <= LastOf(rows, a)
<1> DEFINE S == {0} \cup {i \in DOMAIN rows : rows[i].addr = a}
<1>1. Len(rows) \in Nat /\ DOMAIN rows = 1 .. Len(rows)
  OBVIOUS
<1>2. S \in SUBSET (0 .. Len(rows)) /\ S # {}
  BY <1>1
<1>3. Max(S) \in S /\ \A i \in S : i <= Max(S)
  BY <1>1, <1>2, Greatest
<1>4. Max(S) = LastOf(rows, a)
  BY DEF LastOf
<1>. QED
  BY <1>1, <1>3, <1>4

\* One row in a file, and none later of its address: it is the one that counts.
LEMMA LastRow ==
  ASSUME NEW rows \in Seq(Row), NEW a \in Addresses, NEW i \in DOMAIN rows, rows[i].addr = a,
         \A j \in DOMAIN rows : rows[j].addr = a => j <= i
  PROVE  LastOf(rows, a) = i /\ Rows(rows)[a] = rows[i].at
<1>1. i \in 1 .. Len(rows) /\ Len(rows) \in Nat /\ DOMAIN rows = 1 .. Len(rows)
  OBVIOUS
<1>2. LastOf(rows, a) = i
  BY <1>1, LastIsLast
<1>. QED
  BY <1>1, <1>2 DEF Rows

LEMMA NoLastRow ==
  ASSUME NEW rows \in Seq(Row), NEW a \in Addresses, \A j \in DOMAIN rows : rows[j].addr # a
  PROVE  LastOf(rows, a) = 0 /\ Rows(rows)[a] = 0
<1>1. LastOf(rows, a) = 0
  BY LastIsLast
<1>. QED
  BY <1>1 DEF Rows

\* Without rows there is no lease.
LEMMA EmptyRows == Rows(<<>>) = NoRows
<1>1. <<>> \in Seq(Row) /\ DOMAIN <<>> = {}
  OBVIOUS
<1>2. \A a \in Addresses : Rows(<<>>)[a] = 0
  BY <1>1, NoLastRow
<1>. QED
  BY <1>2 DEF Rows, NoRows

\* Every transaction of the file is of the type of one.
LEMMA RowsInRange ==
  ASSUME NEW rows \in Seq(Row)
  PROVE  Rows(rows) \in RowsType
<1>1. ASSUME NEW a \in Addresses, LastOf(rows, a) # 0
      PROVE  rows[LastOf(rows, a)].at \in 1 .. MaxGrants
  <2>1. LastOf(rows, a) \in DOMAIN rows
    BY <1>1, LastIsLast
  <2>2. rows[LastOf(rows, a)] \in Row
    BY <2>1
  <2>. QED
    BY <2>2 DEF Row
<1>. QED
  BY <1>1, StateIndexAssumption DEF Rows, RowsType, StateIndexAssumption

\* A row at the end is the last one of its address.
LEMMA AppendedRows ==
  ASSUME NEW rows \in Seq(Row), NEW r \in Row
  PROVE  Rows(Append(rows, r)) = [Rows(rows) EXCEPT ![r.addr] = r.at]
<1> DEFINE more == Append(rows, r)
<1>1. /\ more \in Seq(Row) /\ Len(more) = Len(rows) + 1 /\ Len(rows) \in Nat
      /\ DOMAIN more = 1 .. Len(more) /\ DOMAIN rows = 1 .. Len(rows)
      /\ more[Len(more)] = r /\ \A i \in DOMAIN rows : more[i] = rows[i]
  OBVIOUS
<1>2. r.addr \in Addresses
  BY DEF Row
<1> HIDE DEF more
<1>3. Rows(more)[r.addr] = r.at
  BY <1>1, <1>2, LastRow
<1>4. ASSUME NEW a \in Addresses, a # r.addr PROVE Rows(more)[a] = Rows(rows)[a]
  <2>0. \A j \in DOMAIN more : more[j].addr = a => j \in DOMAIN rows
    BY <1>1, <1>4
  <2>1. CASE \A j \in DOMAIN rows : rows[j].addr # a
    BY <2>0, <2>1, <1>1, NoLastRow
  <2>2. CASE \E j \in DOMAIN rows : rows[j].addr = a
    <3> DEFINE i == LastOf(rows, a)
    <3>1. i \in DOMAIN rows /\ rows[i].addr = a /\ \A j \in DOMAIN rows : rows[j].addr = a => j <= i
      BY <2>2, <1>1, LastIsLast
    <3> HIDE DEF i
    <3>2. Rows(rows)[a] = rows[i].at
      BY <3>1, LastRow
    <3>3. i \in DOMAIN more /\ more[i].addr = a /\ \A j \in DOMAIN more : more[j].addr = a => j <= i
      BY <2>0, <3>1, <1>1
    <3>4. Rows(more)[a] = more[i].at
      BY <3>3, <1>1, LastRow
    <3>. QED
      BY <3>1, <3>2, <3>4, <1>1
  <2>. QED
    BY <2>1, <2>2
<1>5. Rows(more) = [a \in Addresses |-> IF a = r.addr THEN r.at ELSE Rows(rows)[a]]
  BY <1>3, <1>4 DEF Rows
<1>. QED
  BY <1>5 DEF Rows, more

\* The elements of a finite set in a row, each once.
LEMMA SetInARow ==
  ASSUME NEW S, IsFiniteSet(S)
  PROVE  /\ SetToSeq(S) \in Seq(S)
         /\ \A x \in S : \E i \in DOMAIN SetToSeq(S) : SetToSeq(S)[i] = x
         /\ \A i, j \in DOMAIN SetToSeq(S) : SetToSeq(S)[i] = SetToSeq(S)[j] => i = j
<1> DEFINE n == Cardinality(S)
           f == SetToSeq(S)
<1>1. n \in Nat /\ ExistsBijection(1 .. n, S)
  BY FS_CardinalityType
<1>2. \E g \in [1 .. n -> S] : IsInjective(g)
  BY <1>1 DEF ExistsBijection, Bijection, Injection, IsInjective
<1>3. f \in [1 .. n -> S] /\ IsInjective(f)
  BY <1>2 DEF SetToSeq
<1> HIDE DEF f
<1>4. IsFiniteSet(1 .. n) /\ Cardinality(1 .. n) = n
  BY <1>1, FS_Interval
<1>5. f \in Injection(1 .. n, S)
  BY <1>3 DEF Injection, IsInjective
<1>6. f \in Surjection(1 .. n, S)
  BY <1>4, <1>5, FS_Injection
<1>7. \A x \in S : \E i \in 1 .. n : f[i] = x
  BY <1>6 DEF Surjection
<1>8. f \in Seq(S) /\ DOMAIN f = 1 .. n
  BY <1>1, <1>3
<1>. QED
  BY <1>3, <1>7, <1>8 DEF IsInjective, f

LastRows(rows) == {rows[i] : i \in {LastOf(rows, a) : a \in Addresses} \ {0}}

\* Keeping only the last row of each address loses no lease.
LEMMA CompactedRows ==
  ASSUME NEW rows \in Seq(Row)
  PROVE  SetToSeq(LastRows(rows)) \in Seq(Row) /\ Rows(SetToSeq(LastRows(rows))) = Rows(rows)
<1> DEFINE I == {LastOf(rows, a) : a \in Addresses} \ {0}
           S == LastRows(rows)
           kept == SetToSeq(S)
<1>1. /\ \A a \in Addresses : LastOf(rows, a) \in I => rows[LastOf(rows, a)].addr = a
      /\ I \subseteq 1 .. Len(rows)
  BY LastIsLast
<1>2. IsFiniteSet(I)
  <2>1. IsFiniteSet(1 .. Len(rows))
    BY FS_Interval
  <2>. QED
    BY <2>1, <1>1, FS_Subset
<1>3. IsFiniteSet(S)
  <2>1. [i \in I |-> rows[i]] \in Surjection(I, S)
    BY DEF Surjection, LastRows
  <2>. QED
    BY <2>1, <1>2, FS_Surjection
<1>4. S \subseteq Row
  BY <1>1 DEF LastRows
<1>5. /\ kept \in Seq(S)
      /\ \A x \in S : \E i \in DOMAIN kept : kept[i] = x
      /\ \A i, j \in DOMAIN kept : kept[i] = kept[j] => i = j
  BY <1>3, SetInARow
<1>6. kept \in Seq(Row) /\ \A i \in DOMAIN kept : kept[i] \in S
  BY <1>4, <1>5
<1>7. \A x, y \in S : x.addr = y.addr => x = y
  BY <1>1 DEF LastRows
<1>8. ASSUME NEW a \in Addresses PROVE Rows(kept)[a] = Rows(rows)[a]
  <2>1. CASE LastOf(rows, a) = 0
    <3>1. \A x \in S : x.addr # a
      BY <2>1, <1>1 DEF LastRows
    <3>2. Rows(kept)[a] = 0
      BY <3>1, <1>6, NoLastRow
    <3>. QED
      BY <2>1, <3>2 DEF Rows
  <2>2. CASE LastOf(rows, a) # 0
    <3> DEFINE x == rows[LastOf(rows, a)]
    <3>1. x \in S /\ x.addr = a
      BY <2>2, <1>1 DEF LastRows
    <3>2. PICK i \in DOMAIN kept : kept[i] = x
      BY <3>1, <1>5
    <3>3. \A j \in DOMAIN kept : kept[j].addr = a => j = i
      BY <3>1, <3>2, <1>5, <1>6, <1>7
    <3>4. \A j \in DOMAIN kept : kept[j].addr = a => j <= i
      BY <3>2, <3>3, <1>6
    <3>5. Rows(kept)[a] = kept[i].at
      BY <3>1, <3>2, <3>4, <1>6, LastRow
    <3>. QED
      BY <2>2, <3>2, <3>5 DEF Rows
  <2>. QED
    BY <2>1, <2>2
<1>9. Rows(kept) = Rows(rows)
  BY <1>8 DEF Rows
<1>. QED
  BY <1>6, <1>9

-----------------------------------------------------------------------------
(* Type correctness *)

JobType == [kind : Kinds \cup {None}, print : Meta, version : Nat, rows : RowsType]
PCs     == {"idle", "stat", "stat_conf", "compare", "begin", "read_leases", "commit",
            "open", "dump", "close", "answered", "failed"}

ControlOK ==
  /\ confLock \in Savers \cup {None}
  /\ pc \in [Workers -> PCs]
  /\ todo \in [Workers -> SUBSET Kinds]
  /\ job \in [Workers -> JobType]

LEMMA TypeParts ==
  TypeOK <=> /\ conf \in [state : {"empty", "partial", "whole"}, version : Nat, tick : Nat]
             /\ leases \in [rows : Seq(Row), tick : Nat]
             /\ granted \in RowsType
             /\ table \in [Kinds -> [version : Nat, rows : RowsType]]
             /\ meta \in [Kinds -> Meta]
             /\ writer \in Workers \cup {None}
             /\ ControlOK
  BY DEF TypeOK, ControlOK, Row, JobType, PCs

LEMMA StampTypes ==
  ASSUME TypeOK
  PROVE  /\ ConfStat(conf) \in Stamp /\ LeaseStat(leases) \in Stamp
         /\ Version(conf) \in Nat
         /\ Rows(leases.rows) \in RowsType
<1>1. leases.rows \in Seq(Row) /\ leases.tick \in Nat /\ conf.tick \in Nat
  BY TypeParts
<1>2. SizeOf(conf) \in Nat
  BY TypeParts DEF SizeOf
<1>3. Len(leases.rows) \in Nat
  BY <1>1
<1>4. Version(conf) \in Nat
  BY TypeParts DEF Version
<1>. QED
  BY <1>1, <1>2, <1>3, <1>4, RowsInRange DEF ConfStat, LeaseStat, Stamp

LEMMA NewJobs ==
  /\ NoRows \in RowsType /\ NoMeta \in Meta
  /\ NoJob \in JobType
  /\ \A k \in Kinds : [NoJob EXCEPT !.kind = k] \in JobType
<1>1. NoRows \in RowsType
  BY StateIndexAssumption DEF NoRows, RowsType, StateIndexAssumption
<1>2. NoMeta \in Meta
  BY DEF NoMeta, NoStat, Meta, Stamp
<1>. QED
  BY <1>1, <1>2 DEF NoJob, JobType

OthersKept(w) ==
  \A v \in Workers \ {w} : pc'[v] = pc[v] /\ todo'[v] = todo[v] /\ job'[v] = job[v]

\* w begins with one of the tables of rest ...
Started(w, rest) ==
  /\ OthersKept(w) /\ UNCHANGED confLock
  /\ todo'[w] = rest
  /\ \E k \in rest : /\ job'[w] = [NoJob EXCEPT !.kind = k]
                     /\ pc'[w] = IF k = "lease" THEN "stat" ELSE "stat_conf"

\* ... or is done with its pass.
Ended(w, good) ==
  /\ OthersKept(w)
  /\ \/ w = Background /\ pc'[w] = "idle" /\ UNCHANGED confLock
     \/ /\ w \in Savers /\ confLock' = None
        /\ pc'[w] = IF good THEN "answered" ELSE "failed"

LEMMA Starting ==
  ASSUME TypeOK, NEW w \in Workers, NEW rest \in SUBSET Kinds, NextKind(w, rest)
  PROVE  ControlOK' /\ Started(w, rest)
<1>1. PICK k \in rest :
        /\ job' = [job EXCEPT ![w] = [NoJob EXCEPT !.kind = k]]
        /\ pc' = [pc EXCEPT ![w] = IF k = "lease" THEN "stat" ELSE "stat_conf"]
        /\ todo' = [todo EXCEPT ![w] = rest]
        /\ UNCHANGED confLock
  BY DEF NextKind
<1>2. [NoJob EXCEPT !.kind = k] \in JobType
  BY NewJobs
<1>3. (IF k = "lease" THEN "stat" ELSE "stat_conf") \in PCs
  BY DEF PCs
<1>4. ControlOK
  BY TypeParts
<1>5. ControlOK'
  BY <1>1, <1>2, <1>3, <1>4 DEF ControlOK
<1>. QED
  BY <1>1, <1>4, <1>5 DEF ControlOK, Started, OthersKept

LEMMA Ending ==
  ASSUME TypeOK, NEW w \in Workers, NEW good \in BOOLEAN, EndPass(w, good)
  PROVE  ControlOK' /\ Ended(w, good)
<1>1. NoJob \in JobType
  BY NewJobs
<1>2. ControlOK
  BY TypeParts
<1>3. ControlOK'
  BY <1>1, <1>2 DEF EndPass, ControlOK, PCs
<1>. QED
  BY <1>2, <1>3 DEF EndPass, ControlOK, Ended, OthersKept

LEMMA GoingOn ==
  ASSUME TypeOK, NEW w \in Workers, NEW good \in BOOLEAN, GoOn(w, good)
  PROVE  /\ ControlOK'
         /\ \/ good /\ Started(w, todo[w] \ {job[w].kind})
            \/ ~(good /\ todo[w] \ {job[w].kind} # {}) /\ Ended(w, good)
<1>1. todo[w] \ {job[w].kind} \in SUBSET Kinds
  BY DEF TypeOK
<1>. QED
  BY <1>1, Starting, Ending DEF GoOn

\* The next transaction of Kea is a later one than the last of any address.
LEMMA GrantsGrow ==
  ASSUME TypeOK, NEW a \in Addresses, Grant(a)
  PROVE  \E n \in 1 .. MaxGrants :
           /\ granted' = [granted EXCEPT ![a] = n]
           /\ \A b \in Addresses : granted[b] < n
           /\ \E t \in Ticks(leases.tick) :
                leases' = [rows |-> Append(leases.rows, [addr |-> a, at |-> n]), tick |-> t]
<1> DEFINE S == {i \in 1 .. MaxGrants : \E b \in Addresses : granted[b] >= i}
           n == Cardinality(S) + 1
<1>1. MaxGrants \in Nat
  BY StateIndexAssumption DEF StateIndexAssumption
<1>2. IsFiniteSet(S) /\ Cardinality(S) \in Nat
  <2>1. S \in SUBSET (1 .. MaxGrants)
    OBVIOUS
  <2>2. IsFiniteSet(1 .. MaxGrants)
    BY <1>1, FS_Interval
  <2> HIDE DEF S
  <2>3. IsFiniteSet(S)
    BY <2>1, <2>2, FS_Subset
  <2>. QED
    BY <2>3, FS_CardinalityType
<1>3. /\ n <= MaxGrants
      /\ granted' = [granted EXCEPT ![a] = n]
      /\ \E t \in Ticks(leases.tick) :
           leases' = [rows |-> Append(leases.rows, [addr |-> a, at |-> n]), tick |-> t]
  BY DEF Grant
<1>4. ASSUME NEW b \in Addresses PROVE granted[b] < n
  <2>1. granted[b] \in 0 .. MaxGrants
    BY DEF TypeOK, RowsType
  <2>2. 1 .. granted[b] \in SUBSET S
    BY <2>1, <1>1
  <2>3. Cardinality(1 .. granted[b]) = granted[b]
    BY <2>1, FS_Interval
  <2>4. granted[b] <= Cardinality(S)
    <3> HIDE DEF S
    <3>1. Cardinality(1 .. granted[b]) <= Cardinality(S)
      BY <1>2, <2>2, FS_Subset
    <3>. QED
      BY <2>3, <3>1
  <2>. QED
    BY <2>1, <2>4, <1>2
<1>5. n \in 1 .. MaxGrants
  BY <1>1, <1>2, <1>3
<1>. QED
  BY <1>3, <1>4, <1>5

\* A compaction of the lease file.
LEMMA Compacting ==
  ASSUME TypeOK, Compact
  PROVE  /\ leases'.rows \in Seq(Row) /\ Rows(leases'.rows) = Rows(leases.rows)
         /\ leases' = [rows |-> leases'.rows, tick |-> leases.tick + 1]
         /\ UNCHANGED <<conf, granted>>
<1>1. leases' = [rows |-> SetToSeq(LastRows(leases.rows)), tick |-> leases.tick + 1]
      /\ UNCHANGED <<conf, granted>>
  BY DEF Compact, LastRows
<1>2. leases.rows \in Seq(Row)
  BY TypeParts
<1>. QED
  BY <1>1, <1>2, CompactedRows

\* A clock never goes back.
LEMMA TicksAdvance ==
  ASSUME NEW t \in Nat, NEW u \in Ticks(t)
  PROVE  u \in Nat /\ t <= u
  BY StateIndexAssumption DEF StateIndexAssumption, Ticks

\* Every variable keeps its type, whatever the constants.
LEMMA InitType ==
  ASSUME Init
  PROVE  TypeOK
<1>1. ControlOK
  BY NewJobs DEF Init, ControlOK, PCs
<1>2. table \in [Kinds -> [version : Nat, rows : RowsType]] /\ meta \in [Kinds -> Meta]
  BY NewJobs DEF Init
<1>3. leases \in [rows : Seq(Row), tick : Nat]
  BY DEF Init
<1>. QED
  BY <1>1, <1>2, <1>3, NewJobs, TypeParts DEF Init

LEMMA TypeStep ==
  ASSUME TypeOK, [Next]_vars
  PROVE  TypeOK'
<1> USE DEF disk, index
<1>0. ControlOK /\ \A w \in Workers : job[w] \in JobType
  BY TypeParts DEF ControlOK
\* What is left to show of a step that changes nothing but where workers are.
<1>c. ASSUME ControlOK', UNCHANGED <<conf, leases, granted, table, meta>>,
             writer' \in Workers \cup {None}
      PROVE  TypeOK'
  BY <1>c, TypeParts DEF TypeOK, ControlOK, JobType, PCs
<1>1. CASE Kea
  <2>0. UNCHANGED <<table, meta, writer, confLock, pc, todo, job>>
    BY <1>1 DEF Kea
  <2>1. ASSUME NEW a \in Addresses, Grant(a) PROVE TypeOK'
    <3>1. PICK n \in 1 .. MaxGrants, t \in Ticks(leases.tick) :
            /\ granted' = [granted EXCEPT ![a] = n]
            /\ leases' = [rows |-> Append(leases.rows, [addr |-> a, at |-> n]), tick |-> t]
      BY <2>1, GrantsGrow
    <3>2. t \in Nat /\ leases.rows \in Seq(Row) /\ [addr |-> a, at |-> n] \in Row
      BY TypeParts, TicksAdvance DEF Row
    <3>3. leases' \in [rows : Seq(Row), tick : Nat]
      BY <3>1, <3>2
    <3>4. granted' \in RowsType
      BY <3>1 DEF TypeOK, RowsType
    <3>5. conf' = conf
      BY <2>1 DEF Grant
    <3>. QED
      BY <2>0, <3>3, <3>4, <3>5 DEF TypeOK, Row
  <2>2. CASE Compact
    <3>1. leases'.rows \in Seq(Row) /\ leases' = [rows |-> leases'.rows, tick |-> leases.tick + 1]
          /\ UNCHANGED <<conf, granted>>
      BY <2>2, Compacting
    <3>2. leases' \in [rows : Seq(Row), tick : Nat]
      BY <3>1, TypeParts
    <3>. QED
      BY <2>0, <3>1, <3>2 DEF TypeOK, Row
  <2>. QED
    BY <1>1, <2>1, <2>2 DEF Kea
<1>2. ASSUME NEW w \in Workers, StartPass(w) PROVE TypeOK'
  <2>1. ControlOK'
    BY <1>2, Starting DEF StartPass
  <2>. QED
    BY <1>2, <2>1, <1>c DEF StartPass, TypeOK
<1>3. ASSUME NEW w \in Workers, Stat(w) \/ StatConf(w) PROVE TypeOK'
  <2>1. \A s \in Stamp : [job[w].print EXCEPT !.leases = s] \in Meta
                         /\ [job[w].print EXCEPT !.conf = s] \in Meta
    BY <1>0 DEF JobType, Meta
  <2>2. \A p \in Meta : [job[w] EXCEPT !.print = p] \in JobType
    BY <1>0 DEF JobType
  <2>3. \/ job' = [job EXCEPT ![w] = [job[w] EXCEPT !.print =
                                        [job[w].print EXCEPT !.leases = LeaseStat(leases)]]]
        \/ job' = [job EXCEPT ![w] = [job[w] EXCEPT !.print =
                                        [job[w].print EXCEPT !.conf = ConfStat(conf)]]]
    BY <1>3 DEF Stat, StatConf
  <2>4. job' \in [Workers -> JobType]
    <3>1. PICK p \in Meta : job' = [job EXCEPT ![w] = [job[w] EXCEPT !.print = p]]
      BY <2>1, <2>3, StampTypes
    <3>2. [job[w] EXCEPT !.print = p] \in JobType
      BY <2>2
    <3>3. job \in [Workers -> JobType]
      BY <1>0 DEF ControlOK
    <3>. QED
      BY <3>1, <3>2, <3>3
  <2>5. ControlOK'
    BY <1>0, <1>3, <2>4 DEF ControlOK, Stat, StatConf, PCs
  <2>. QED
    BY <1>3, <2>5, <1>c DEF Stat, StatConf, TypeOK
<1>4. ASSUME NEW w \in Workers, Compare(w) PROVE TypeOK'
  <2>1. ControlOK'
    BY <1>0, <1>4, GoingOn DEF Compare, ControlOK, PCs
  <2>. QED
    BY <1>4, <2>1, <1>c DEF Compare, TypeOK
<1>5. ASSUME NEW w \in Workers, Begin(w) PROVE TypeOK'
  <2>1. \A v \in Nat : [job[w] EXCEPT !.version = v] \in JobType
    BY <1>0 DEF JobType
  <2>2. ControlOK'
    <3>1. CASE GoOn(w, FALSE)
      BY <3>1, GoingOn
    <3>2. CASE /\ job' = [job EXCEPT ![w].version = Version(conf)]
               /\ pc' = [pc EXCEPT ![w] = IF job[w].kind = "lease" THEN "read_leases"
                                                                   ELSE "commit"]
               /\ UNCHANGED <<confLock, todo>>
      <4>1. job' \in [Workers -> JobType]
        BY <1>0, <2>1, <3>2, StampTypes DEF ControlOK
      <4>. QED
        BY <1>0, <3>2, <4>1 DEF ControlOK, PCs
    <3>. QED
      BY <1>5, <3>1, <3>2 DEF Begin
  <2>3. writer' \in Workers \cup {None} /\ UNCHANGED <<conf, leases, granted, table, meta>>
    BY <1>5 DEF Begin, TypeOK
  <2>. QED
    BY <2>2, <2>3, <1>c
<1>6. ASSUME NEW w \in Workers, ReadLeases(w) PROVE TypeOK'
  <2>1. [job[w] EXCEPT !.rows = Rows(leases.rows)] \in JobType
    BY <1>0, StampTypes DEF JobType
  <2>2. ControlOK'
    BY <1>0, <1>6, <2>1 DEF ReadLeases, ControlOK, PCs
  <2>. QED
    BY <1>6, <2>2, <1>c DEF ReadLeases, TypeOK
<1>7. ASSUME NEW w \in Workers, Commit(w) PROVE TypeOK'
  <2>1. ControlOK'
    BY <1>7, GoingOn DEF Commit
  <2>2. /\ [version |-> job[w].version, rows |-> job[w].rows] \in [version : Nat, rows : RowsType]
        /\ job[w].print \in Meta
    BY <1>0 DEF JobType
  <2>3. /\ table' \in [Kinds -> [version : Nat, rows : RowsType]] /\ meta' \in [Kinds -> Meta]
        /\ writer' = None /\ UNCHANGED <<conf, leases, granted>>
    BY <1>7, <2>2, TypeParts DEF Commit
  <2>. QED
    BY <2>1, <2>3, TypeParts DEF TypeOK, ControlOK, JobType, PCs
<1>8. ASSUME NEW w \in Workers, Load(w) PROVE TypeOK'
  <2>1. ControlOK'
    BY <1>0, <1>8 DEF Load, ControlOK, PCs
  <2>. QED
    BY <1>8, <2>1, <1>c DEF Load, TypeOK
<1>9. ASSUME NEW w \in Workers, SaveOpen(w) \/ SaveDump(w) \/ SaveClose(w) PROVE TypeOK'
  <2>1. ControlOK'
    <3>1. {"reservation"} \in SUBSET Kinds
      BY DEF Kinds
    <3>2. CASE SaveClose(w)
      BY <3>1, <3>2, Starting, Ending DEF SaveClose
    <3>3. CASE SaveOpen(w) \/ SaveDump(w)
      BY <1>0, <3>3 DEF SaveOpen, SaveDump, ControlOK, PCs
    <3>. QED
      BY <1>9, <3>2, <3>3
  <2>2. conf' \in [state : {"empty", "partial", "whole"}, version : Nat, tick : Nat]
    <3>1. conf.tick \in Nat /\ conf.version \in Nat
      BY TypeParts
    <3>2. \A t \in Ticks(conf.tick) : t \in Nat
      BY <3>1, TicksAdvance
    <3>3. conf \in [state : {"empty", "partial", "whole"}, version : Nat, tick : Nat]
      BY TypeParts
    <3>4. CASE SaveOpen(w)
      BY <3>1, <3>4 DEF SaveOpen
    <3>5. CASE SaveDump(w) \/ SaveClose(w)
      <4>1. PICK t \in Ticks(conf.tick) : \/ conf' = [conf EXCEPT !.state = "partial", !.tick = t]
                                         \/ conf' = [conf EXCEPT !.state = "whole", !.tick = t]
        BY <3>5 DEF SaveDump, SaveClose
      <4>2. t \in Nat
        BY <3>2
      <4>. QED
        BY <3>3, <4>1, <4>2
    <3>. QED
      BY <1>9, <3>4, <3>5
  <2>3. UNCHANGED <<leases, granted, table, meta, writer>>
    BY <1>9 DEF SaveOpen, SaveDump, SaveClose
  <2>. QED
    BY <2>1, <2>2, <2>3 DEF TypeOK, ControlOK, JobType, PCs
<1>10. ASSUME NEW w \in Workers, SaveFails(w) PROVE TypeOK'
  <2>1. ControlOK'
    BY <1>10, Ending DEF SaveFails
  <2>. QED
    BY <1>10, <2>1, <1>c DEF SaveFails, TypeOK
<1>11. CASE UNCHANGED vars
  BY <1>11 DEF TypeOK, vars
<1>. QED
  BY <1>1, <1>2, <1>3, <1>4, <1>5, <1>6, <1>7, <1>8, <1>9, <1>10, <1>11
     DEF Next, Ingest, Save

THEOREM TypeCorrect == Spec => []TypeOK
  BY InitType, TypeStep, PTL DEF Spec

-----------------------------------------------------------------------------
(* Locks and jobs *)

Passing == {"stat", "stat_conf", "compare", "begin", "read_leases", "commit"}
Saving  == {"open", "dump", "close"}

\* A request that saves or reindexes holds the config lock, and the file is as
\* far as it has got; whoever parses holds SQLite's write lock.
HoldsOwn(w) ==
  /\ w \in Savers /\ pc[w] \in Passing \cup Saving => confLock = w
  /\ w = Background => pc[w] \notin Saving \cup {"answered", "failed"}
  /\ pc[w] = "dump" => conf.state = "empty"
  /\ pc[w] = "close" => conf.state = "partial"
  /\ pc[w] \in {"read_leases", "commit"} => writer = w

Locked == \A w \in Workers : HoldsOwn(w)

\* What the table in hand is, and which part of its fingerprint it leaves out.
JobOK(w) ==
  pc[w] \in Passing =>
    /\ job[w].kind \in Kinds
    /\ pc[w] \in {"stat", "read_leases"} => job[w].kind = "lease"
    /\ w \in Savers => job[w].kind = "reservation" /\ todo[w] = {"reservation"} /\ w \in Nudgers
    /\ job[w].kind = "reservation" => job[w].print.leases = NoStat /\ job[w].rows = NoRows

Jobs == \A w \in Workers : JobOK(w)

Act(w) == Ingest(w) \/ Load(w) \/ Save(w)

\* One worker's step leaves the others where they are, and takes or gives back
\* only its own locks.
LEMMA Alone ==
  ASSUME TypeOK, NEW w \in Workers, Act(w)
  PROVE  /\ OthersKept(w)
         /\ \/ confLock' = confLock
            \/ confLock = None /\ confLock' = w
            \/ w \in Savers /\ confLock' = None /\ pc[w] \in Passing \cup Saving
         /\ \/ writer' = writer
            \/ writer = None /\ writer' = w
            \/ pc[w] = "commit" /\ writer' = None
         /\ conf' = conf \/ pc[w] \in Saving
         /\ ControlOK'
<1> USE DEF disk, index
<1>0. ControlOK /\ ControlOK'
  <2>1. Next
    BY DEF Act, Next
  <2>2. TypeOK'
    BY <2>1, TypeStep
  <2>. QED
    BY <2>2 DEF TypeOK, ControlOK, JobType, PCs
<1>1. CASE StartPass(w)
  BY <1>0, <1>1, Starting DEF StartPass, Started
<1>2. CASE Stat(w) \/ StatConf(w) \/ ReadLeases(w) \/ Load(w) \/ SaveOpen(w) \/ SaveDump(w)
  BY <1>0, <1>2 DEF Stat, StatConf, ReadLeases, Load, SaveOpen, SaveDump, OthersKept, ControlOK, Saving
<1>3. CASE Compare(w)
  BY <1>0, <1>3, GoingOn DEF Compare, Started, Ended, OthersKept, ControlOK, Passing
<1>4. CASE Begin(w)
  BY <1>0, <1>4, GoingOn DEF Begin, Started, Ended, OthersKept, ControlOK, Passing
<1>5. CASE Commit(w)
  BY <1>0, <1>5, GoingOn DEF Commit, Started, Ended, Passing
<1>6. CASE SaveClose(w)
  <2>1. {"reservation"} \in SUBSET Kinds
    BY DEF Kinds
  <2>. QED
    BY <1>0, <1>6, <2>1, Starting, Ending DEF SaveClose, Started, Ended, Saving
<1>7. CASE SaveFails(w)
  BY <1>0, <1>7, Ending DEF SaveFails, Ended, Saving
<1>. QED
  BY <1>1, <1>2, <1>3, <1>4, <1>5, <1>6, <1>7 DEF Act, Ingest, Save

\* Those who do not step hold on to what they have.
LEMMA LockedOthers ==
  ASSUME TypeOK, Locked, NEW w \in Workers, Act(w), NEW v \in Workers \ {w}
  PROVE  HoldsOwn(v)'
<1>1. HoldsOwn(v) /\ HoldsOwn(w)
  BY DEF Locked
<1>2. pc'[v] = pc[v]
  BY Alone DEF OthersKept
<1>3. v # None /\ w # None
  BY StateIndexAssumption DEF StateIndexAssumption
<1>4. v \in Savers \/ v = Background
  BY DEF Workers
<1>5. w \in Savers \/ w = Background
  BY DEF Workers
<1>6. v \in Savers /\ pc[v] \in Passing \cup Saving => confLock' = v
  BY <1>1, <1>3, Alone DEF HoldsOwn
<1>7. pc[v] \in Saving => conf' = conf
  BY <1>1, <1>4, <1>5, Alone DEF HoldsOwn
<1>8. pc[v] \in {"read_leases", "commit"} => writer' = v
  BY <1>1, <1>3, Alone DEF HoldsOwn
<1>. QED
  BY <1>1, <1>2, <1>6, <1>7, <1>8 DEF HoldsOwn, Saving

LEMMA LockedSelf ==
  ASSUME TypeOK, Locked, NEW w \in Workers, Act(w)
  PROVE  HoldsOwn(w)'
<1> USE DEF disk, index
<1>0. /\ ControlOK /\ ControlOK' /\ HoldsOwn(w) /\ (w \in Savers \/ w = Background)
      /\ ~ (w \in Savers /\ w = Background)
  BY Alone, TypeParts, StateIndexAssumption DEF Locked, Workers, StateIndexAssumption
<1>a. ASSUME NEW good \in BOOLEAN, Ended(w, good) PROVE HoldsOwn(w)'
  BY <1>0, <1>a DEF Ended, HoldsOwn, Passing, Saving
<1>b. ASSUME NEW rest, Started(w, rest), w \in Savers => confLock = w PROVE HoldsOwn(w)'
  BY <1>0, <1>b DEF Started, HoldsOwn, Passing, Saving
<1>c. ASSUME NEW good \in BOOLEAN, GoOn(w, good), pc[w] \in Passing PROVE HoldsOwn(w)'
  BY <1>0, <1>a, <1>b, <1>c, GoingOn DEF HoldsOwn
<1>1. CASE StartPass(w)
  BY <1>0, <1>1, <1>b, Starting DEF StartPass
<1>2. CASE Stat(w) \/ StatConf(w) \/ ReadLeases(w)
  BY <1>0, <1>2 DEF Stat, StatConf, ReadLeases, HoldsOwn, ControlOK, Passing, Saving
<1>3. CASE Compare(w)
  BY <1>0, <1>3, <1>c DEF Compare, HoldsOwn, ControlOK, Passing, Saving
<1>4. CASE Begin(w)
  BY <1>0, <1>4, <1>c DEF Begin, HoldsOwn, ControlOK, Passing, Saving
<1>5. CASE Commit(w)
  BY <1>0, <1>5, <1>c DEF Commit, Passing
<1>6. CASE Load(w) \/ SaveOpen(w) \/ SaveDump(w)
  <2>1. conf \in [state : {"empty", "partial", "whole"}, version : Nat, tick : Nat]
    BY TypeParts
  <2>2. CASE Load(w)
    BY <1>0, <2>2 DEF Load, HoldsOwn, ControlOK, Passing, Saving
  <2>3. CASE SaveOpen(w)
    <3>1. pc'[w] = "dump" /\ conf'.state = "empty" /\ confLock' = confLock /\ pc[w] = "open"
      BY <1>0, <2>3 DEF SaveOpen, ControlOK
    <3>. QED
      BY <1>0, <3>1 DEF HoldsOwn, Passing, Saving
  <2>4. CASE SaveDump(w)
    <3>1. pc'[w] = "close" /\ conf'.state = "partial" /\ confLock' = confLock /\ pc[w] = "dump"
      BY <1>0, <2>1, <2>4 DEF SaveDump, ControlOK
    <3>. QED
      BY <1>0, <3>1 DEF HoldsOwn, Passing, Saving
  <2>. QED
    BY <1>6, <2>2, <2>3, <2>4
<1>7. CASE SaveClose(w)
  <2>1. {"reservation"} \in SUBSET Kinds
    BY DEF Kinds
  <2>2. w \in Savers => confLock = w
    BY <1>0, <1>7 DEF SaveClose, HoldsOwn, Saving
  <2>3. CASE NextKind(w, {"reservation"})
    BY <2>1, <2>2, <2>3, <1>b, Starting
  <2>4. CASE EndPass(w, TRUE)
    BY <2>4, <1>a, Ending
  <2>. QED
    BY <1>7, <2>3, <2>4 DEF SaveClose
<1>8. CASE SaveFails(w)
  BY <1>8, <1>a, Ending DEF SaveFails
<1>. QED
  BY <1>1, <1>2, <1>3, <1>4, <1>5, <1>6, <1>7, <1>8 DEF Act, Ingest, Save

LEMMA JobsStep ==
  ASSUME TypeOK, Locked, Jobs, NEW w \in Workers, Act(w)
  PROVE  Jobs'
<1> USE DEF disk, index
<1>0. ControlOK /\ ControlOK' /\ JobOK(w) /\ ~ (w \in Savers /\ w = Background) /\ HoldsOwn(w)
  BY Alone, TypeParts, StateIndexAssumption DEF Jobs, Locked, StateIndexAssumption
<1>1. ASSUME NEW v \in Workers \ {w} PROVE JobOK(v)'
  BY <1>1, Alone DEF OthersKept, Jobs, JobOK
<1>a. ASSUME NEW good \in BOOLEAN, Ended(w, good) PROVE JobOK(w)'
  BY <1>a DEF Ended, JobOK, Passing
<1>b. ASSUME NEW rest \in SUBSET Kinds, Started(w, rest), w \in Savers => rest = {"reservation"} /\ w \in Nudgers
      PROVE  JobOK(w)'
  <2>1. PICK k \in rest : /\ job'[w] = [NoJob EXCEPT !.kind = k]
                          /\ pc'[w] = IF k = "lease" THEN "stat" ELSE "stat_conf"
    BY <1>b DEF Started
  <2>2. job'[w].kind = k /\ job'[w].print = NoMeta /\ job'[w].rows = NoRows /\ NoMeta.leases = NoStat
    BY <2>1 DEF NoJob, NoMeta
  <2>. QED
    BY <1>b, <2>1, <2>2 DEF Started, JobOK, Kinds
<1>c. ASSUME NEW good \in BOOLEAN, GoOn(w, good), pc[w] \in Passing PROVE JobOK(w)'
  <2>1. todo[w] \ {job[w].kind} \in SUBSET Kinds
    BY <1>0 DEF ControlOK
  <2>2. w \in Savers => todo[w] \ {job[w].kind} = {}
    BY <1>0, <1>c DEF JobOK
  <2>3. ASSUME Started(w, todo[w] \ {job[w].kind}) PROVE w \notin Savers
    BY <2>2, <2>3 DEF Started
  <2>. QED
    BY <1>a, <1>b, <1>c, <2>1, <2>3, GoingOn
<1>2. JobOK(w)'
  <2>1. CASE StartPass(w)
    BY <1>0, <2>1, <1>b, Starting DEF StartPass
  <2>2. CASE Stat(w) \/ StatConf(w) \/ ReadLeases(w)
    <3>1. job[w] \in JobType
      BY <1>0 DEF ControlOK
    <3>2. /\ job'[w].kind = job[w].kind /\ todo' = todo /\ pc[w] \in Passing /\ pc'[w] \in Passing
          /\ Stat(w) \/ ReadLeases(w) => job[w].kind = "lease"
          /\ StatConf(w) => job'[w].print.leases = job[w].print.leases /\ job'[w].rows = job[w].rows
          /\ pc'[w] \notin {"stat", "read_leases"}
      BY <1>0, <2>2, <3>1 DEF Stat, StatConf, ReadLeases, ControlOK, JobOK, Passing, JobType, Meta
    <3>. QED
      BY <1>0, <2>2, <3>2 DEF JobOK
  <2>3. CASE Compare(w)
    BY <1>0, <2>3, <1>c DEF Compare, JobOK, ControlOK, Passing
  <2>4. CASE Begin(w)
    <3>1. CASE GoOn(w, FALSE)
      BY <2>4, <3>1, <1>c DEF Begin, Passing
    <3>2. CASE /\ job' = [job EXCEPT ![w] = [job[w] EXCEPT !.version = Version(conf)]]
               /\ pc' = [pc EXCEPT ![w] = IF job[w].kind = "lease" THEN "read_leases"
                                                                   ELSE "commit"]
               /\ UNCHANGED <<confLock, todo>>
      <4>1. job[w] \in JobType
        BY <1>0 DEF ControlOK
      <4>2. /\ job'[w].kind = job[w].kind /\ job'[w].print = job[w].print
            /\ job'[w].rows = job[w].rows
            /\ pc'[w] = (IF job[w].kind = "lease" THEN "read_leases" ELSE "commit")
        BY <1>0, <3>2, <4>1 DEF ControlOK, JobType
      <4>. QED
        BY <1>0, <2>4, <3>2, <4>2 DEF Begin, JobOK, Passing
    <3>. QED
      BY <2>4, <3>1, <3>2 DEF Begin
  <2>5. CASE Commit(w)
    BY <2>5, <1>c DEF Commit, Passing
  <2>6. CASE Load(w) \/ SaveOpen(w) \/ SaveDump(w)
    BY <1>0, <2>6 DEF Load, SaveOpen, SaveDump, JobOK, ControlOK, Passing
  <2>7. CASE SaveClose(w)
    <3>1. {"reservation"} \in SUBSET Kinds
      BY DEF Kinds
    <3>. QED
      BY <1>0, <2>7, <3>1, <1>a, <1>b, Starting, Ending DEF SaveClose
  <2>8. CASE SaveFails(w)
    BY <2>8, <1>a, Ending DEF SaveFails
  <2>. QED
    BY <2>1, <2>2, <2>3, <2>4, <2>5, <2>6, <2>7, <2>8 DEF Act, Ingest, Save
<1>. QED
  BY <1>1, <1>2 DEF Jobs

-----------------------------------------------------------------------------
(* Fingerprints are in the order in which their files were written *)

NotAfter(s, t) == s[1] < t[1] \/ (s[1] = t[1] /\ s[2] <= t[2])
Before(s, t)   == s[1] < t[1] \/ (s[1] = t[1] /\ s[2] < t[2])

ConfType  == [state : {"empty", "partial", "whole"}, version : Nat, tick : Nat]
LeaseType == [rows : Seq(Row), tick : Nat]

LEMMA Order ==
  /\ \A s \in Stamp : NotAfter(s, s)
  /\ \A s, t, u \in Stamp : NotAfter(s, t) /\ Before(t, u) => NotAfter(s, u) /\ s # u
  /\ \A c \in ConfType : ConfStat(c) \in Stamp
  /\ \A l \in LeaseType : LeaseStat(l) \in Stamp
<1>1. \A s \in Stamp : NotAfter(s, s)
  BY DEF Stamp, NotAfter
<1>2. ASSUME NEW s \in Stamp, NEW t \in Stamp, NEW u \in Stamp, NotAfter(s, t), Before(t, u)
      PROVE  NotAfter(s, u) /\ s # u
  <2>1. s[1] \in Nat /\ s[2] \in Nat /\ t[1] \in Nat /\ t[2] \in Nat /\ u[1] \in Nat /\ u[2] \in Nat
    BY DEF Stamp
  <2>2. s[1] < u[1] \/ (s[1] = u[1] /\ s[2] < u[2])
    BY <1>2, <2>1 DEF NotAfter, Before
  <2>. QED
    BY <2>1, <2>2 DEF NotAfter
<1>3. \A c \in ConfType : ConfStat(c) \in Stamp
  BY DEF ConfType, ConfStat, SizeOf, Stamp
<1>4. \A l \in LeaseType : LeaseStat(l) \in Stamp
  BY DEF LeaseType, LeaseStat, Stamp
<1>. QED
  BY <1>1, <1>2, <1>3, <1>4

\* The sources in one step: as they were, or with later fingerprints.
Moved ==
  /\ conf' = conf \/ Before(ConfStat(conf), ConfStat(conf'))
  /\ (leases' = leases /\ granted' = granted) \/ Before(LeaseStat(leases), LeaseStat(leases'))

LEMMA SourcesMove ==
  ASSUME TypeOK, Locked, Next
  PROVE  Moved
<1> USE DEF disk
<1>0. conf \in ConfType /\ leases \in LeaseType /\ leases.rows \in Seq(Row) /\ leases.tick \in Nat
  BY TypeParts DEF ConfType, LeaseType
<1>1. CASE Kea
  <2>1. ASSUME NEW a \in Addresses, Grant(a) PROVE Moved
    <3>1. PICK n \in 1 .. MaxGrants, t \in Ticks(leases.tick) :
            leases' = [rows |-> Append(leases.rows, [addr |-> a, at |-> n]), tick |-> t]
      BY <2>1, GrantsGrow
    <3>2. t \in Nat /\ leases.tick <= t
      BY <1>0, TicksAdvance
    <3>3. Len(leases'.rows) = Len(leases.rows) + 1 /\ Len(leases.rows) \in Nat /\ leases'.tick = t
      BY <1>0, <3>1
    <3>4. Before(LeaseStat(leases), LeaseStat(leases'))
      BY <1>0, <3>2, <3>3 DEF Before, LeaseStat
    <3>. QED
      BY <2>1, <3>4 DEF Moved, Grant
  <2>2. CASE Compact
    <3>1. leases'.tick = leases.tick + 1 /\ conf' = conf
      BY <2>2, Compacting
    <3>2. Before(LeaseStat(leases), LeaseStat(leases'))
      BY <1>0, <3>1 DEF Before, LeaseStat
    <3>. QED
      BY <3>1, <3>2 DEF Moved
  <2>. QED
    BY <1>1, <2>1, <2>2 DEF Kea
<1>2. ASSUME NEW w \in Workers, SaveOpen(w) \/ SaveDump(w) \/ SaveClose(w) PROVE Moved
  <2>0. HoldsOwn(w) /\ conf.tick \in Nat
    BY TypeParts DEF Locked
  <2>1. CASE SaveOpen(w)
    <3>1. conf'.tick = conf.tick + 1 /\ leases' = leases /\ granted' = granted
      BY <2>1 DEF SaveOpen
    <3>. QED
      BY <2>0, <3>1 DEF Moved, Before, ConfStat
  <2>2. CASE SaveDump(w) \/ SaveClose(w)
    <3>1. PICK t \in Ticks(conf.tick) :
            \/ conf.state = "empty" /\ conf' = [conf EXCEPT !.state = "partial", !.tick = t]
            \/ conf.state = "partial" /\ conf' = [conf EXCEPT !.state = "whole", !.tick = t]
      BY <2>0, <2>2 DEF SaveDump, SaveClose, HoldsOwn
    <3>2. t \in Nat /\ conf.tick <= t
      BY <2>0, TicksAdvance
    <3>3. conf'.tick = t /\ SizeOf(conf) < SizeOf(conf')
      <4>1. CASE conf.state = "empty" /\ conf' = [conf EXCEPT !.state = "partial", !.tick = t]
        <5>1. conf'.tick = t /\ conf'.state = "partial"
          BY <1>0, <4>1 DEF ConfType
        <5>. QED
          BY <4>1, <5>1 DEF SizeOf
      <4>2. CASE conf.state = "partial" /\ conf' = [conf EXCEPT !.state = "whole", !.tick = t]
        <5>1. conf'.tick = t /\ conf'.state = "whole"
          BY <1>0, <4>2 DEF ConfType
        <5>. QED
          BY <4>2, <5>1 DEF SizeOf
      <4>. QED
        BY <3>1, <4>1, <4>2
    <3>4. Before(ConfStat(conf), ConfStat(conf'))
      BY <2>0, <3>2, <3>3 DEF Before, ConfStat
    <3>. QED
      BY <2>2, <3>4 DEF Moved, SaveDump, SaveClose
  <2>. QED
    BY <1>2, <2>1, <2>2
<1>3. ASSUME NEW w \in Workers, Ingest(w) \/ Load(w) \/ SaveFails(w) PROVE UNCHANGED disk
  BY <1>3 DEF Ingest, StartPass, Stat, StatConf, Compare, Begin, ReadLeases, Commit, Load, SaveFails
<1>. QED
  BY <1>1, <1>2, <1>3 DEF Next, Save, Moved

\* What was not after a source is not after it now, and is its fingerprint only
\* if it was, and the source has not changed.
LEMMA Behind ==
  ASSUME TypeOK, TypeOK', Moved, NEW s \in Stamp
  PROVE  /\ NotAfter(s, ConfStat(conf)) =>
              /\ NotAfter(s, ConfStat(conf'))
              /\ s = ConfStat(conf') => s = ConfStat(conf) /\ conf' = conf
         /\ NotAfter(s, LeaseStat(leases)) =>
              /\ NotAfter(s, LeaseStat(leases'))
              /\ s = LeaseStat(leases') => s = LeaseStat(leases) /\ granted' = granted
<1>1. conf \in ConfType /\ conf' \in ConfType /\ leases \in LeaseType /\ leases' \in LeaseType
  BY DEF TypeOK, ConfType, LeaseType, Row
<1>2. /\ ConfStat(conf) \in Stamp /\ ConfStat(conf') \in Stamp
      /\ LeaseStat(leases) \in Stamp /\ LeaseStat(leases') \in Stamp
  BY <1>1, Order
<1>. QED
  BY <1>2, Order DEF Moved

-----------------------------------------------------------------------------
(* Freshness *)

\* Kea's view of each lease is what the last rows say.
LeaseFile == Rows(leases.rows) = granted

\* A fingerprint that has been taken is not a later one than the source's, and
\* if it is the source's then what has been parsed since is the source.
PrintOK(w) ==
  /\ pc[w] \in {"compare", "begin", "read_leases", "commit"} =>
       NotAfter(job[w].print.conf, ConfStat(conf))
  /\ pc[w] \in {"read_leases", "commit"} /\ job[w].print.conf = ConfStat(conf) =>
       job[w].version = Version(conf)
  /\ pc[w] \in Passing \ {"stat"} /\ job[w].kind = "lease" =>
       NotAfter(job[w].print.leases, LeaseStat(leases))
  /\ pc[w] = "commit" /\ job[w].kind = "lease" /\ job[w].print.leases = LeaseStat(leases) =>
       job[w].rows = granted

Prints == \A w \in Workers : PrintOK(w)

\* The same of what is stored.
TableOK(k) ==
  /\ NotAfter(meta[k].conf, ConfStat(conf))
  /\ meta[k].conf = ConfStat(conf) => table[k].version = Version(conf)
  /\ k = "lease" => /\ NotAfter(meta[k].leases, LeaseStat(leases))
                    /\ meta[k].leases = LeaseStat(leases) => table[k].rows = granted
  /\ k = "reservation" => meta[k].leases = NoStat /\ table[k].rows = NoRows

Tables == \A k \in Kinds : TableOK(k)

Fresh == TypeOK /\ Locked /\ Jobs /\ LeaseFile /\ Prints /\ Tables

LEMMA InitFresh ==
  ASSUME Init
  PROVE  Fresh
<1>1. Locked /\ Jobs
  BY StateIndexAssumption
     DEF Init, Locked, HoldsOwn, Jobs, JobOK, Passing, Saving, Workers, StateIndexAssumption
<1>2. LeaseFile
  BY EmptyRows DEF Init, LeaseFile
<1>3. Prints
  BY DEF Init, Prints, PrintOK, Passing
<1>4. Tables
  <2>1. ConfStat(conf) = <<1, 2>> /\ LeaseStat(leases) = <<1, 0>>
    BY DEF Init, ConfStat, SizeOf, LeaseStat
  <2>2. \A k \in Kinds : /\ meta[k].conf = <<0, 0>> /\ meta[k].leases = <<0, 0>>
                         /\ table[k].rows = NoRows
    BY DEF Init, NoMeta, NoStat
  <2>3. NotAfter(<<0, 0>>, <<1, 2>>) /\ NotAfter(<<0, 0>>, <<1, 0>>)
        /\ <<0, 0>> # <<1, 2>> /\ <<0, 0>> # <<1, 0>>
    BY DEF NotAfter
  <2>. QED
    BY <2>1, <2>2, <2>3 DEF Tables, TableOK, NoStat
<1>. QED
  BY <1>1, <1>2, <1>3, <1>4, InitType DEF Fresh

LEMMA LeaseFileStep ==
  ASSUME TypeOK, LeaseFile, Next
  PROVE  LeaseFile'
<1> USE DEF disk
<1>0. leases.rows \in Seq(Row)
  BY TypeParts
<1>1. CASE Kea
  <2>1. ASSUME NEW a \in Addresses, Grant(a) PROVE LeaseFile'
    <3>1. PICK n \in 1 .. MaxGrants, t \in Ticks(leases.tick) :
            /\ granted' = [granted EXCEPT ![a] = n]
            /\ leases' = [rows |-> Append(leases.rows, [addr |-> a, at |-> n]), tick |-> t]
      BY <2>1, GrantsGrow
    <3>2. [addr |-> a, at |-> n] \in Row
      BY DEF Row
    <3>3. Rows(leases'.rows) = [Rows(leases.rows) EXCEPT ![a] = n]
      BY <1>0, <3>1, <3>2, AppendedRows
    <3>. QED
      BY <3>1, <3>3 DEF LeaseFile
  <2>2. CASE Compact
    BY <2>2, Compacting DEF LeaseFile
  <2>. QED
    BY <1>1, <2>1, <2>2 DEF Kea
<1>2. ASSUME NEW w \in Workers, Act(w) PROVE leases' = leases /\ granted' = granted
  BY <1>2 DEF Act, Ingest, StartPass, Stat, StatConf, Compare, Begin, ReadLeases, Commit, Load,
              Save, SaveOpen, SaveDump, SaveClose, SaveFails
<1>. QED
  BY <1>1, <1>2 DEF Next, Act, LeaseFile

\* A fingerprint in hand while others write.
LEMMA PrintKept ==
  ASSUME TypeOK, TypeOK', Moved, NEW v \in Workers, PrintOK(v), pc'[v] = pc[v], job'[v] = job[v]
  PROVE  PrintOK(v)'
<1>1. job[v].print.conf \in Stamp /\ job[v].print.leases \in Stamp
  BY TypeParts DEF ControlOK, JobType, Meta
<1>2. /\ NotAfter(job[v].print.conf, ConfStat(conf)) =>
           /\ NotAfter(job[v].print.conf, ConfStat(conf'))
           /\ job[v].print.conf = ConfStat(conf') =>
                job[v].print.conf = ConfStat(conf) /\ conf' = conf
      /\ NotAfter(job[v].print.leases, LeaseStat(leases)) =>
           /\ NotAfter(job[v].print.leases, LeaseStat(leases'))
           /\ job[v].print.leases = LeaseStat(leases') =>
                job[v].print.leases = LeaseStat(leases) /\ granted' = granted
  BY <1>1, Behind
<1>. QED
  BY <1>2 DEF PrintOK, Passing

\* A stored fingerprint while others write.
LEMMA TableKept ==
  ASSUME TypeOK, TypeOK', Moved, NEW k \in Kinds, TableOK(k), meta'[k] = meta[k], table'[k] = table[k]
  PROVE  TableOK(k)'
<1>1. meta[k].conf \in Stamp /\ meta[k].leases \in Stamp
  BY TypeParts DEF Meta
<1>2. /\ NotAfter(meta[k].conf, ConfStat(conf)) =>
           /\ NotAfter(meta[k].conf, ConfStat(conf'))
           /\ meta[k].conf = ConfStat(conf') => meta[k].conf = ConfStat(conf) /\ conf' = conf
      /\ NotAfter(meta[k].leases, LeaseStat(leases)) =>
           /\ NotAfter(meta[k].leases, LeaseStat(leases'))
           /\ meta[k].leases = LeaseStat(leases') =>
                meta[k].leases = LeaseStat(leases) /\ granted' = granted
  BY <1>1, Behind
<1>. QED
  BY <1>2 DEF TableOK

\* What a worker's own step does to the table in hand.
LEMMA PrintSelf ==
  ASSUME Fresh, NEW w \in Workers, Act(w)
  PROVE  PrintOK(w)'
<1> USE DEF disk, index
<1>0. /\ ControlOK /\ ControlOK' /\ job[w] \in JobType /\ PrintOK(w) /\ JobOK(w)
  BY Alone, TypeParts DEF Fresh, ControlOK, Prints, Jobs
<1>s. ConfStat(conf) \in Stamp /\ LeaseStat(leases) \in Stamp
  BY StampTypes DEF Fresh
<1>a. ASSUME NEW good \in BOOLEAN, Ended(w, good) PROVE PrintOK(w)'
  BY <1>a DEF Ended, PrintOK, Passing
<1>b. ASSUME NEW rest, Started(w, rest) PROVE PrintOK(w)'
  <2>1. PICK k \in rest : /\ job'[w] = [NoJob EXCEPT !.kind = k]
                          /\ pc'[w] = IF k = "lease" THEN "stat" ELSE "stat_conf"
    BY <1>b DEF Started
  <2>2. job'[w].kind = k
    BY <2>1 DEF NoJob
  <2>. QED
    BY <2>1, <2>2 DEF PrintOK, Passing
<1>c. ASSUME NEW good \in BOOLEAN, GoOn(w, good) PROVE PrintOK(w)'
  BY <1>a, <1>b, <1>c, GoingOn DEF Fresh
<1>1. CASE StartPass(w)
  BY <1>1, <1>b, Starting DEF StartPass, Fresh
<1>2. CASE Stat(w)
  <2>1. /\ pc'[w] = "stat_conf" /\ leases' = leases
        /\ job'[w].print.leases = LeaseStat(leases)
    BY <1>0, <1>2 DEF Stat, ControlOK, JobType, Meta
  <2>. QED
    BY <1>s, <2>1, Order DEF PrintOK
<1>3. CASE StatConf(w)
  <2>1. /\ pc'[w] = "compare" /\ leases' = leases /\ conf' = conf /\ pc[w] = "stat_conf"
        /\ job'[w].print.conf = ConfStat(conf) /\ job'[w].print.leases = job[w].print.leases
        /\ job'[w].kind = job[w].kind
    BY <1>0, <1>3 DEF StatConf, ControlOK, JobType, Meta
  <2>. QED
    BY <1>0, <1>s, <2>1, Order DEF PrintOK, Passing
<1>4. CASE Compare(w)
  <2>1. CASE GoOn(w, TRUE)
    BY <2>1, <1>c
  <2>2. CASE pc' = [pc EXCEPT ![w] = "begin"] /\ UNCHANGED job
    <3>1. pc[w] = "compare" /\ pc'[w] = "begin" /\ job'[w] = job[w] /\ conf' = conf /\ leases' = leases
      BY <1>0, <1>4, <2>2 DEF Compare, ControlOK
    <3>. QED
      BY <1>0, <3>1 DEF PrintOK, Passing
  <2>. QED
    BY <1>4, <2>1, <2>2 DEF Compare
<1>5. CASE Begin(w)
  <2>1. CASE GoOn(w, FALSE)
    BY <2>1, <1>c
  <2>2. CASE /\ job' = [job EXCEPT ![w] = [job[w] EXCEPT !.version = Version(conf)]]
             /\ pc' = [pc EXCEPT ![w] = IF job[w].kind = "lease" THEN "read_leases" ELSE "commit"]
    <3>1. /\ pc[w] = "begin" /\ conf' = conf /\ leases' = leases
          /\ pc'[w] = (IF job[w].kind = "lease" THEN "read_leases" ELSE "commit")
          /\ job'[w].version = Version(conf) /\ job'[w].print = job[w].print
          /\ job'[w].kind = job[w].kind
      BY <1>0, <1>5, <2>2 DEF Begin, ControlOK, JobType
    <3>. QED
      BY <1>0, <3>1 DEF PrintOK, Passing
  <2>. QED
    BY <1>5, <2>1, <2>2 DEF Begin
<1>6. CASE ReadLeases(w)
  <2>1. /\ pc[w] = "read_leases" /\ pc'[w] = "commit" /\ conf' = conf /\ leases' = leases
        /\ granted' = granted
        /\ job'[w].version = job[w].version /\ job'[w].print = job[w].print
        /\ job'[w].kind = job[w].kind /\ job'[w].rows = Rows(leases.rows)
    BY <1>0, <1>6 DEF ReadLeases, ControlOK, JobType
  <2>. QED
    BY <1>0, <2>1 DEF PrintOK, Passing, Fresh, LeaseFile
<1>7. CASE Commit(w)
  BY <1>7, <1>c DEF Commit
<1>8. CASE Load(w) \/ SaveOpen(w) \/ SaveDump(w)
  <2>1. pc'[w] \in {"open", "dump", "close", "failed"}
    BY <1>0, <1>8 DEF Load, SaveOpen, SaveDump, ControlOK
  <2>. QED
    BY <2>1 DEF PrintOK, Passing
<1>9. CASE SaveClose(w) \/ SaveFails(w)
  <2>1. {"reservation"} \in SUBSET Kinds
    BY DEF Kinds
  <2>. QED
    BY <1>9, <2>1, <1>a, <1>b, Starting, Ending DEF SaveClose, SaveFails, Fresh
<1>. QED
  BY <1>1, <1>2, <1>3, <1>4, <1>5, <1>6, <1>7, <1>8, <1>9 DEF Act, Ingest, Save

LEMMA TablesStep ==
  ASSUME Fresh, TypeOK', Moved, Next
  PROVE  Tables'
<1> USE DEF disk, index
<1>0. TypeOK /\ \A k \in Kinds : TableOK(k)
  BY DEF Fresh, Tables
<1>1. CASE UNCHANGED <<table, meta>>
  BY <1>0, <1>1, TableKept DEF Tables
<1>2. ASSUME NEW w \in Workers, Commit(w) PROVE Tables'
  <2>0. /\ job[w] \in JobType /\ PrintOK(w) /\ JobOK(w) /\ pc[w] = "commit"
        /\ UNCHANGED <<conf, leases, granted>>
    BY <1>2, TypeParts DEF Fresh, ControlOK, Prints, Jobs, Commit
  <2>1. PICK mine \in Kinds : mine = job[w].kind
    BY <2>0 DEF JobOK, Passing
  <2>2. ASSUME NEW k \in Kinds, k # mine PROVE TableOK(k)'
    <3>1. table'[k] = table[k] /\ meta'[k] = meta[k]
      BY <1>2, <2>1, <2>2, TypeParts, <1>0 DEF Commit
    <3>. QED
      BY <1>0, <3>1, TableKept
  <2>3. TableOK(mine)'
    <3>1. /\ table'[mine].version = job[w].version
          /\ table'[mine].rows = job[w].rows
          /\ meta'[mine] = job[w].print
      BY <1>2, <2>1, TypeParts, <1>0 DEF Commit
    <3>2. CASE mine = "lease"
      BY <3>2, <2>0, <2>1, <3>1 DEF TableOK, PrintOK, Passing
    <3>3. CASE mine = "reservation"
      BY <3>3, <2>0, <2>1, <3>1 DEF TableOK, PrintOK, JobOK, Passing
    <3>. QED
      BY <3>2, <3>3 DEF Kinds
  <2>. QED
    BY <2>2, <2>3 DEF Tables
<1>3. ASSUME NEW w \in Workers,
             StartPass(w) \/ Stat(w) \/ StatConf(w) \/ Compare(w) \/ Begin(w) \/ ReadLeases(w)
      PROVE  UNCHANGED <<table, meta>>
  BY <1>3 DEF StartPass, Stat, StatConf, Compare, Begin, ReadLeases
<1>4. ASSUME NEW w \in Workers, Load(w) \/ Save(w) PROVE UNCHANGED <<table, meta>>
  BY <1>4 DEF Load, Save, SaveOpen, SaveDump, SaveClose, SaveFails
<1>5. Kea => UNCHANGED <<table, meta>>
  BY DEF Kea
<1>. QED
  BY <1>1, <1>2, <1>3, <1>4, <1>5 DEF Next, Ingest

LEMMA FreshStep ==
  ASSUME Fresh, [Next]_vars
  PROVE  Fresh'
<1>1. CASE Next
  <2>1. TypeOK' /\ Moved /\ LeaseFile'
    BY <1>1, TypeStep, SourcesMove, LeaseFileStep DEF Fresh
  <2>2. Tables'
    BY <1>1, <2>1, TablesStep
  <2>3. CASE Kea
    <3>1. UNCHANGED <<conf, writer, confLock, pc, todo, job>>
      BY <2>3 DEF Kea, Compact, Grant, index
    <3>2. Locked' /\ Jobs'
      BY <3>1 DEF Fresh, Locked, HoldsOwn, Jobs, JobOK
    <3>3. Prints'
      BY <2>1, <3>1, PrintKept DEF Fresh, Prints
    <3>. QED
      BY <2>1, <2>2, <3>2, <3>3 DEF Fresh
  <2>4. ASSUME NEW w \in Workers, Act(w) PROVE Fresh'
    <3>1. Locked'
      BY <2>4, LockedOthers, LockedSelf DEF Fresh, Locked
    <3>2. Jobs'
      BY <2>4, JobsStep DEF Fresh
    <3>3. ASSUME NEW v \in Workers \ {w} PROVE PrintOK(v)'
      BY <2>1, <2>4, Alone, PrintKept DEF Fresh, Prints, OthersKept
    <3>4. Prints'
      BY <2>4, <3>3, PrintSelf DEF Prints
    <3>. QED
      BY <2>1, <2>2, <3>1, <3>2, <3>4 DEF Fresh
  <2>. QED
    BY <1>1, <2>3, <2>4 DEF Next, Act
<1>2. CASE UNCHANGED vars
  <2>1. TypeOK'
    BY <1>2, TypeStep DEF Fresh
  <2>. QED
    BY <1>2, <2>1 DEF vars, disk, index, Fresh, Locked, HoldsOwn, Jobs, JobOK, LeaseFile,
                      Prints, PrintOK, Tables, TableOK
<1>. QED
  BY <1>1, <1>2

\* A table whose stored fingerprint is that of its sources is what they say,
\* whoever parsed it while requests saved and Kea leased and compacted.
THEOREM NeverStaleUnnoticed == Spec => []FreshIfUnchanged
<1>1. Fresh => FreshIfUnchanged
  <2> SUFFICES ASSUME Fresh, NEW k \in Kinds, meta[k] = Fingerprint(k)
               PROVE  table[k] = Truth(k)
    BY DEF FreshIfUnchanged
  <2>1. TableOK(k) /\ table[k] \in [version : Nat, rows : RowsType] /\ (k = "lease" \/ k = "reservation")
    BY TypeParts DEF Fresh, Tables, Kinds
  <2>2. table[k].version = Version(conf)
        /\ table[k].rows = IF k = "lease" THEN granted ELSE NoRows
    BY <2>1 DEF TableOK, Fingerprint
  <2>. QED
    BY <2>1, <2>2 DEF Truth
<1>. QED
  BY <1>1, InitFresh, FreshStep, PTL DEF Spec

-----------------------------------------------------------------------------
(* No table goes back *)

FwdTable(k) ==
  /\ table[k].version <= conf.version
  /\ \A a \in Addresses : table[k].rows[a] <= granted[a]

\* Nobody but the holder of the write lock commits, so what it has parsed is
\* still later than what the table has when it commits.
FwdJob(w) ==
  pc[w] \in {"read_leases", "commit"} =>
    /\ job[w].version <= conf.version
    /\ \A k \in Kinds : k = job[w].kind =>
         /\ job[w].version = 0 \/ table[k].version <= job[w].version
         /\ pc[w] = "commit" => \A a \in Addresses : table[k].rows[a] <= job[w].rows[a]
    /\ pc[w] = "commit" => \A a \in Addresses : job[w].rows[a] <= granted[a]

Forward == (\A k \in Kinds : FwdTable(k)) /\ (\A w \in Workers : FwdJob(w))

\* The sources go forward.
Later == conf.version <= conf'.version /\ \A a \in Addresses : granted[a] <= granted'[a]

LEMMA NumberTypes ==
  ASSUME TypeOK
  PROVE  /\ conf.version \in Nat
         /\ \A a \in Addresses : granted[a] \in Nat
         /\ \A k \in Kinds : table[k].version \in Nat /\ \A a \in Addresses : table[k].rows[a] \in Nat
         /\ \A w \in Workers : job[w].version \in Nat /\ \A a \in Addresses : job[w].rows[a] \in Nat
<1>1. \A r \in RowsType : \A a \in Addresses : r[a] \in Nat
  BY StateIndexAssumption DEF RowsType, StateIndexAssumption
<1>. QED
  BY <1>1, TypeParts DEF ControlOK, JobType

LEMMA SourcesLater ==
  ASSUME TypeOK, Next
  PROVE  Later
<1> USE DEF disk
<1>0. conf.version \in Nat /\ \A a \in Addresses : granted[a] \in Nat
  BY NumberTypes
<1>1. ASSUME NEW a \in Addresses, Grant(a) PROVE Later
  <2>1. PICK n \in 1 .. MaxGrants : granted' = [granted EXCEPT ![a] = n]
                                    /\ \A b \in Addresses : granted[b] < n
    BY <1>1, GrantsGrow
  <2>2. n \in Nat /\ conf' = conf /\ granted \in [Addresses -> 0 .. MaxGrants]
    BY <1>1, TypeParts DEF Grant, RowsType
  <2>. QED
    BY <1>0, <2>1, <2>2 DEF Later
<1>2. CASE Compact
  BY <1>0, <1>2, Compacting DEF Later
<1>3. ASSUME NEW w \in Workers, SaveOpen(w) \/ SaveDump(w) \/ SaveClose(w) PROVE Later
  <2>1. conf \in ConfType
    BY TypeParts DEF ConfType
  <2>2. conf'.version \in {conf.version, conf.version + 1} /\ granted' = granted
    <3>1. CASE SaveOpen(w)
      BY <3>1 DEF SaveOpen
    <3>2. CASE SaveDump(w) \/ SaveClose(w)
      <4>1. PICK t : \/ conf' = [conf EXCEPT !.state = "partial", !.tick = t]
                    \/ conf' = [conf EXCEPT !.state = "whole", !.tick = t]
        BY <3>2 DEF SaveDump, SaveClose
      <4>. QED
        BY <2>1, <3>2, <4>1 DEF ConfType, SaveDump, SaveClose
    <3>. QED
      BY <1>3, <3>1, <3>2
  <2>. QED
    BY <1>0, <2>2 DEF Later
<1>4. ASSUME NEW w \in Workers, Ingest(w) \/ Load(w) \/ SaveFails(w) PROVE UNCHANGED disk
  BY <1>4 DEF Ingest, StartPass, Stat, StatConf, Compare, Begin, ReadLeases, Commit, Load, SaveFails
<1>. QED
  BY <1>0, <1>1, <1>2, <1>3, <1>4 DEF Next, Kea, Save, Later

\* Only a commit touches the tables, and only the one in hand.
LEMMA TablesMove ==
  ASSUME TypeOK, Next
  PROVE  \/ UNCHANGED <<table, meta>>
         \/ \E w \in Workers : Commit(w)
<1> USE DEF index
<1>1. ASSUME NEW w \in Workers,
             StartPass(w) \/ Stat(w) \/ StatConf(w) \/ Compare(w) \/ Begin(w) \/ ReadLeases(w)
      PROVE  UNCHANGED <<table, meta>>
  BY <1>1 DEF StartPass, Stat, StatConf, Compare, Begin, ReadLeases
<1>2. ASSUME NEW w \in Workers, Load(w) \/ Save(w) PROVE UNCHANGED <<table, meta>>
  BY <1>2 DEF Load, Save, SaveOpen, SaveDump, SaveClose, SaveFails
<1>3. Kea => UNCHANGED <<table, meta>>
  BY DEF Kea
<1>. QED
  BY <1>1, <1>2, <1>3 DEF Next, Ingest

LEMMA Committed ==
  ASSUME Fresh, NEW w \in Workers, Commit(w)
  PROVE  \E mine \in Kinds :
           /\ mine = job[w].kind
           /\ table'[mine] = [version |-> job[w].version, rows |-> job[w].rows]
           /\ \A k \in Kinds : k # mine => table'[k] = table[k]
<1>1. pc[w] = "commit" /\ JobOK(w) /\ TypeOK
  BY DEF Commit, Fresh, Jobs
<1>2. PICK mine \in Kinds : mine = job[w].kind
  BY <1>1 DEF JobOK, Passing
<1>3. table' = [table EXCEPT ![mine] = [version |-> job[w].version, rows |-> job[w].rows]]
  BY <1>2 DEF Commit
<1>. QED
  BY <1>1, <1>2, <1>3, TypeParts

LEMMA ForwardStep ==
  ASSUME Fresh, Forward, Next
  PROVE  Forward'
<1> USE DEF disk, index
<1>0. TypeOK /\ TypeOK' /\ Later
  BY TypeStep, SourcesLater DEF Fresh
<1>1. /\ conf.version \in Nat /\ conf'.version \in Nat
      /\ \A a \in Addresses : granted[a] \in Nat /\ granted'[a] \in Nat
      /\ \A k \in Kinds : table[k].version \in Nat /\ \A a \in Addresses : table[k].rows[a] \in Nat
      /\ \A w \in Workers : job[w].version \in Nat /\ \A a \in Addresses : job[w].rows[a] \in Nat
  <2>1. conf'.version \in Nat /\ granted' \in [Addresses -> 0 .. MaxGrants]
    BY <1>0 DEF TypeOK, RowsType
  <2>2. \A n \in 0 .. MaxGrants : n \in Nat
    OBVIOUS
  <2>3. \A a \in Addresses : granted'[a] \in Nat
    BY <2>1, <2>2
  <2>. QED
    BY <1>0, <2>1, <2>3, NumberTypes
<1>2. ASSUME NEW k \in Kinds, table'[k] = table[k] PROVE FwdTable(k)'
  BY <1>0, <1>1, <1>2 DEF Forward, FwdTable, Later
<1>3. ASSUME NEW v \in Workers, pc'[v] = pc[v], job'[v] = job[v], table' = table PROVE FwdJob(v)'
  BY <1>0, <1>1, <1>3 DEF Forward, FwdJob, Later
<1>4. CASE Kea
  BY <1>2, <1>3, <1>4 DEF Kea, Forward
<1>5. ASSUME NEW w \in Workers, Commit(w) PROVE Forward'
  <2>1. PICK mine \in Kinds :
           /\ mine = job[w].kind
           /\ table'[mine] = [version |-> job[w].version, rows |-> job[w].rows]
           /\ \A k \in Kinds : k # mine => table'[k] = table[k]
    BY <1>5, Committed
  <2>2. FwdJob(w) /\ pc[w] = "commit"
    BY <1>5 DEF Forward, Commit
  <2>3. FwdTable(mine)'
    BY <1>0, <1>1, <2>1, <2>2 DEF FwdTable, FwdJob, Later
  <2>4. \A k \in Kinds : FwdTable(k)'
    BY <1>2, <2>1, <2>3
  <2>5. ASSUME NEW v \in Workers PROVE pc'[v] \notin {"read_leases", "commit"}
    <3>1. CASE v = w
      <4>1. GoOn(w, TRUE)
        BY <1>5 DEF Commit
      <4>2. Started(w, todo[w] \ {job[w].kind}) \/ Ended(w, TRUE)
        BY <1>0, <4>1, GoingOn
      <4>. QED
        BY <3>1, <4>2 DEF Started, Ended
    <3>2. CASE v # w
      <4>1. HoldsOwn(v) /\ HoldsOwn(w)
        BY DEF Fresh, Locked
      <4>2. pc'[v] = pc[v]
        BY <1>0, <1>5, <3>2, Alone DEF Act, Ingest, OthersKept
      <4>. QED
        BY <2>2, <3>2, <4>1, <4>2 DEF HoldsOwn
    <3>. QED
      BY <3>1, <3>2
  <2>. QED
    BY <2>4, <2>5 DEF Forward, FwdJob
<1>6. ASSUME NEW w \in Workers, Act(w), table' = table, meta' = meta PROVE Forward'
  <2>0. ControlOK /\ job[w] \in JobType /\ JobOK(w) /\ FwdJob(w)
    BY <1>0, TypeParts DEF ControlOK, Fresh, Jobs, Forward
  <2>1. ASSUME NEW v \in Workers, v # w PROVE FwdJob(v)'
    BY <1>0, <1>3, <1>6, <2>1, Alone DEF OthersKept
  <2>b. SUFFICES ASSUME ~ Commit(w) PROVE FwdJob(w)'
    BY <1>2, <1>5, <1>6, <2>1 DEF Forward
  <2>a. ASSUME pc'[w] \notin {"read_leases", "commit"} PROVE FwdJob(w)'
    BY <2>a DEF FwdJob
  <2>2. CASE Begin(w)
    <3>1. CASE GoOn(w, FALSE)
      <4>1. Ended(w, FALSE)
        BY <1>0, <3>1, GoingOn
      <4>. QED
        BY <2>a, <4>1 DEF Ended
    <3>2. CASE /\ job' = [job EXCEPT ![w] = [job[w] EXCEPT !.version = Version(conf)]]
               /\ pc' = [pc EXCEPT ![w] = IF job[w].kind = "lease" THEN "read_leases"
                                                                   ELSE "commit"]
      <4>1. /\ pc[w] = "begin" /\ conf' = conf /\ granted' = granted
            /\ pc'[w] = (IF job[w].kind = "lease" THEN "read_leases" ELSE "commit")
            /\ job'[w].version = Version(conf) /\ job'[w].rows = job[w].rows
            /\ job'[w].kind = job[w].kind
        BY <2>0, <2>2, <3>2 DEF Begin, ControlOK, JobType
      <4>2. Version(conf) = 0 \/ Version(conf) = conf.version
        BY DEF Version
      <4>3. ASSUME pc'[w] = "commit"
            PROVE  job'[w].kind = "reservation" /\ job'[w].rows = NoRows
                   /\ table'["reservation"].rows = NoRows
        <5>1. job[w].kind = "reservation" /\ "reservation" \in Kinds
          BY <2>0, <4>1, <4>3 DEF JobOK, Passing, Kinds
        <5>. QED
          BY <1>6, <2>0, <4>1, <5>1 DEF JobOK, Passing, Fresh, Tables, TableOK
      <4>4. \A a \in Addresses : NoRows[a] = 0
        BY DEF NoRows
      <4>. QED
        BY <1>0, <1>1, <1>6, <4>1, <4>2, <4>3, <4>4 DEF FwdJob, Forward, FwdTable
    <3>. QED
      BY <2>2, <3>1, <3>2 DEF Begin
  <2>3. CASE ReadLeases(w)
    <3>1. /\ pc[w] = "read_leases" /\ pc'[w] = "commit" /\ conf' = conf /\ granted' = granted
          /\ job'[w].version = job[w].version /\ job'[w].kind = job[w].kind
          /\ job'[w].rows = Rows(leases.rows)
      BY <2>0, <2>3 DEF ReadLeases, ControlOK, JobType
    <3>2. job'[w].rows = granted
      BY <3>1 DEF Fresh, LeaseFile
    <3>. QED
      BY <1>1, <1>6, <2>0, <3>1, <3>2 DEF FwdJob, Forward, FwdTable
  <2>4. CASE StartPass(w) \/ Compare(w)
    <3>1. NextKind(w, Kinds) \/ GoOn(w, TRUE) \/ pc' = [pc EXCEPT ![w] = "begin"]
      BY <2>4 DEF StartPass, Compare
    <3>2. (\E rest : Started(w, rest)) \/ Ended(w, TRUE) \/ pc'[w] = "begin"
      BY <1>0, <2>0, <3>1, Starting, GoingOn DEF ControlOK
    <3>. QED
      BY <2>a, <3>2 DEF Started, Ended
  <2>5. CASE Stat(w) \/ StatConf(w) \/ Load(w) \/ SaveOpen(w) \/ SaveDump(w)
    <3>1. pc'[w] \in {"stat_conf", "compare", "open", "dump", "close", "failed"}
      BY <2>0, <2>5 DEF Stat, StatConf, Load, SaveOpen, SaveDump, ControlOK
    <3>. QED
      BY <2>a, <3>1
  <2>6. CASE SaveClose(w) \/ SaveFails(w)
    <3>1. {"reservation"} \in SUBSET Kinds
      BY DEF Kinds
    <3>2. (\E rest : Started(w, rest)) \/ (\E good \in BOOLEAN : Ended(w, good))
      BY <1>0, <2>6, <3>1, Starting, Ending DEF SaveClose, SaveFails
    <3>. QED
      BY <2>a, <3>2 DEF Started, Ended
  <2>. QED
    BY <1>6, <2>b, <2>2, <2>3, <2>4, <2>5, <2>6 DEF Act, Ingest, Save
<1>7. ASSUME NEW w \in Workers, Act(w) PROVE Forward'
  <2>1. CASE UNCHANGED <<table, meta>>
    BY <1>6, <1>7, <2>1
  <2>2. CASE \E v \in Workers : Commit(v)
    BY <1>5, <2>2
  <2>. QED
    BY <1>0, <2>1, <2>2, TablesMove
<1>. QED
  BY <1>4, <1>7 DEF Next, Act

FreshForward == Fresh /\ Forward

LEMMA ForwardInvariant == Spec => []FreshForward
<1>1. Init => FreshForward
  <2> SUFFICES ASSUME Init PROVE FreshForward
    OBVIOUS
  <2>1. Forward
    BY DEF Init, Forward, FwdTable, FwdJob, NoRows
  <2>. QED
    BY <2>1, InitFresh DEF FreshForward
<1>2. FreshForward /\ [Next]_vars => FreshForward'
  <2> SUFFICES ASSUME FreshForward, [Next]_vars PROVE FreshForward'
    OBVIOUS
  <2>1. Fresh'
    BY FreshStep DEF FreshForward
  <2>2. CASE Next
    BY <2>1, <2>2, ForwardStep DEF FreshForward
  <2>3. CASE UNCHANGED vars
    BY <2>1, <2>3 DEF FreshForward, Forward, FwdTable, FwdJob, vars, disk, index
  <2>. QED
    BY <2>2, <2>3
<1>. QED
  BY <1>1, <1>2, PTL DEF Spec

\* Of two ingesters the later to commit has parsed the later version: no table
\* goes back to an older lease, or to an older configuration but an empty file.
THEOREM TablesGoForward == Spec => RowsNeverGoBack
<1> DEFINE Fwd == \A k \in Kinds :
             /\ table'[k].version = 0 \/ table'[k].version >= table[k].version
             /\ \A a \in Addresses : table'[k].rows[a] >= table[k].rows[a]
<1>1. FreshForward /\ [Next]_vars => [Fwd]_vars
  <2> SUFFICES ASSUME FreshForward, Next PROVE Fwd
    OBVIOUS
  <2>0. TypeOK /\ Fresh /\ Forward
    BY DEF FreshForward, Fresh
  <2>1. /\ \A k \in Kinds : table[k].version \in Nat /\ \A a \in Addresses : table[k].rows[a] \in Nat
        /\ \A w \in Workers : job[w].version \in Nat /\ \A a \in Addresses : job[w].rows[a] \in Nat
    BY <2>0, NumberTypes
  <2>2. CASE UNCHANGED <<table, meta>>
    BY <2>1, <2>2
  <2>3. ASSUME NEW w \in Workers, Commit(w) PROVE Fwd
    <3>1. PICK mine \in Kinds :
             /\ mine = job[w].kind
             /\ table'[mine] = [version |-> job[w].version, rows |-> job[w].rows]
             /\ \A k \in Kinds : k # mine => table'[k] = table[k]
      BY <2>0, <2>3, Committed
    <3>2. FwdJob(w) /\ pc[w] = "commit"
      BY <2>0, <2>3 DEF Forward, Commit
    <3>. QED
      BY <2>1, <3>1, <3>2 DEF FwdJob
  <2>. QED
    BY <2>0, <2>2, <2>3, TablesMove
<1>2. RowsNeverGoBack <=> [][Fwd]_vars
  BY DEF RowsNeverGoBack
<1> HIDE DEF Fwd
<1>. QED
  BY <1>1, <1>2, ForwardInvariant, PTL DEF Spec

-----------------------------------------------------------------------------
(* An answered save is shown *)

\* Since a route saved it holds the config lock: the file is still what it was
\* when the route took the fingerprint, and when it parsed it.
ShownBy(s) ==
  /\ pc[s] \in {"compare", "begin", "read_leases", "commit"} => job[s].print.conf = ConfStat(conf)
  /\ pc[s] = "commit" => job[s].version = Version(conf)

Shown == \A s \in Nudgers : ShownBy(s)

LEMMA ShownStep ==
  ASSUME Fresh, Shown, Next
  PROVE  Shown'
<1> USE DEF disk, index
<1>0. TypeOK /\ ControlOK /\ Nudgers \subseteq Savers /\ Nudgers \subseteq Workers
  BY TypeParts, StateIndexAssumption DEF Fresh, Workers, StateIndexAssumption
<1>1. CASE Kea
  BY <1>1 DEF Kea, Compact, Grant, Shown, ShownBy
<1>2. ASSUME NEW w \in Workers, Act(w), NEW s \in Nudgers, s # w PROVE ShownBy(s)'
  <2>1. pc'[s] = pc[s] /\ job'[s] = job[s] /\ ShownBy(s)
    BY <1>0, <1>2, Alone DEF OthersKept, Shown
  <2>2. conf' = conf \/ pc[s] \notin Passing
    <3>1. HoldsOwn(s) /\ HoldsOwn(w) /\ (w \in Savers \/ w = Background)
      BY <1>0 DEF Fresh, Locked, Workers
    <3>2. conf' = conf \/ pc[w] \in Saving
      BY <1>0, <1>2, Alone
    <3>. QED
      BY <1>0, <1>2, <3>1, <3>2 DEF HoldsOwn
  <2>. QED
    BY <2>1, <2>2 DEF ShownBy, Passing
<1>3. ASSUME NEW w \in Nudgers, Act(w) PROVE ShownBy(w)'
  <2>0. job[w] \in JobType /\ JobOK(w) /\ ShownBy(w) /\ w \in Workers /\ w \in Savers
    BY <1>0 DEF ControlOK, Fresh, Jobs, Shown
  <2>a. ASSUME pc'[w] \notin {"compare", "begin", "read_leases", "commit"} PROVE ShownBy(w)'
    BY <2>a DEF ShownBy
  <2>b. ASSUME (\E rest : Started(w, rest)) \/ (\E good \in BOOLEAN : Ended(w, good))
        PROVE  ShownBy(w)'
    BY <2>a, <2>b DEF Started, Ended
  <2>c. ASSUME NEW good \in BOOLEAN, GoOn(w, good) PROVE ShownBy(w)'
    BY <1>0, <2>0, <2>b, <2>c, GoingOn
  <2>1. CASE StartPass(w) \/ SaveClose(w) \/ SaveFails(w)
    <3>1. {"reservation"} \in SUBSET Kinds
      BY DEF Kinds
    <3>. QED
      BY <1>0, <2>0, <2>1, <2>b, <3>1, Starting, Ending DEF StartPass, SaveClose, SaveFails
  <2>2. CASE Stat(w) \/ Load(w) \/ SaveOpen(w) \/ SaveDump(w)
    <3>1. pc'[w] \in {"stat_conf", "open", "dump", "close", "failed"}
      BY <1>0, <2>0, <2>2 DEF Stat, Load, SaveOpen, SaveDump, ControlOK
    <3>. QED
      BY <2>a, <3>1
  <2>3. CASE StatConf(w)
    <3>1. pc'[w] = "compare" /\ conf' = conf /\ job'[w].print.conf = ConfStat(conf)
      BY <1>0, <2>0, <2>3 DEF StatConf, ControlOK, JobType, Meta
    <3>. QED
      BY <3>1 DEF ShownBy
  <2>4. CASE Compare(w)
    <3>1. CASE GoOn(w, TRUE)
      BY <2>c, <3>1
    <3>2. CASE pc' = [pc EXCEPT ![w] = "begin"] /\ UNCHANGED job
      <4>1. pc[w] = "compare" /\ pc'[w] = "begin" /\ job'[w] = job[w] /\ conf' = conf
        BY <1>0, <2>0, <2>4, <3>2 DEF Compare, ControlOK
      <4>. QED
        BY <2>0, <4>1 DEF ShownBy
    <3>. QED
      BY <2>4, <3>1, <3>2 DEF Compare
  <2>5. CASE Begin(w)
    <3>1. CASE GoOn(w, FALSE)
      BY <2>c, <3>1
    <3>2. CASE job' = [job EXCEPT ![w] = [job[w] EXCEPT !.version = Version(conf)]]
      <4>1. /\ pc[w] = "begin" /\ conf' = conf /\ job'[w].version = Version(conf)
            /\ job'[w].print = job[w].print
        BY <1>0, <2>0, <2>5, <3>2 DEF Begin, ControlOK, JobType
      <4>. QED
        BY <2>0, <4>1 DEF ShownBy
    <3>. QED
      BY <2>5, <3>1, <3>2 DEF Begin
  <2>6. CASE ReadLeases(w)
    BY <2>0, <2>6 DEF ReadLeases, JobOK, Passing
  <2>7. CASE Commit(w)
    BY <2>7, <2>c DEF Commit
  <2>. QED
    BY <1>3, <2>1, <2>2, <2>3, <2>4, <2>5, <2>6, <2>7 DEF Act, Ingest, Save
<1>4. ASSUME NEW w \in Workers, Act(w) PROVE Shown'
  <2>1. \A s \in Nudgers : ShownBy(s)'
    BY <1>2, <1>3, <1>4
  <2>. QED
    BY <2>1 DEF Shown
<1>. QED
  BY <1>1, <1>4 DEF Next, Act

FreshShown == Fresh /\ Shown

LEMMA ShownInvariant == Spec => []FreshShown
<1>1. Init => FreshShown
  <2> SUFFICES ASSUME Init PROVE FreshShown
    OBVIOUS
  <2>1. Shown
    BY StateIndexAssumption DEF Init, Shown, ShownBy, Workers, StateIndexAssumption
  <2>. QED
    BY <2>1, InitFresh DEF FreshShown
<1>2. FreshShown /\ [Next]_vars => FreshShown'
  <2> SUFFICES ASSUME FreshShown, [Next]_vars PROVE FreshShown'
    OBVIOUS
  <2>1. Fresh'
    BY FreshStep DEF FreshShown
  <2>2. CASE Next
    BY <2>1, <2>2, ShownStep DEF FreshShown
  <2>3. CASE UNCHANGED vars
    BY <2>1, <2>3 DEF FreshShown, Shown, ShownBy, vars, disk, index
  <2>. QED
    BY <2>2, <2>3
<1>. QED
  BY <1>1, <1>2, PTL DEF Spec

\* What a route saves is in the reservation table when it answers, whatever the
\* background thread was parsing while the file was written.
THEOREM SavedThenFound == Spec => AnsweredSaveIsShown
<1> DEFINE Found == \A s \in Nudgers :
             pc[s] # "answered" /\ pc'[s] = "answered" =>
               table'["reservation"] = Truth("reservation")'
<1>1. FreshShown /\ [Next]_vars => [Found]_vars
  <2> SUFFICES ASSUME FreshShown, Next, NEW s \in Nudgers, pc[s] # "answered", pc'[s] = "answered"
               PROVE  table'["reservation"] = Truth("reservation")'
    OBVIOUS
  <2> USE DEF disk, index
  <2>0. /\ TypeOK /\ ControlOK /\ s \in Workers /\ s \in Savers /\ s # Background
        /\ JobOK(s) /\ ShownBy(s) /\ TableOK("reservation") /\ Fresh
    BY TypeParts, StateIndexAssumption
       DEF FreshShown, Fresh, Workers, Jobs, Shown, Tables, Kinds, StateIndexAssumption
  <2>t. Truth("reservation") = [version |-> Version(conf), rows |-> NoRows]
    BY DEF Truth
  <2>1. ~ Kea
    BY DEF Kea
  <2>2. PICK w \in Workers : Act(w)
    BY <2>1 DEF Next, Act
  <2>3. w = s
    BY <2>0, <2>2, Alone DEF OthersKept
  <2>4. ASSUME NEW rest, Started(s, rest) PROVE FALSE
    BY <2>4 DEF Started
  <2>5. ASSUME Ended(s, FALSE) PROVE FALSE
    BY <2>0, <2>5 DEF Ended
  <2>6. ~ (StartPass(s) \/ Stat(s) \/ StatConf(s) \/ ReadLeases(s) \/ Load(s) \/ SaveOpen(s) \/ SaveDump(s))
    BY <2>0 DEF StartPass, Stat, StatConf, ReadLeases, Load, SaveOpen, SaveDump, ControlOK
  <2>7. ~ SaveFails(s)
    BY <2>0, <2>5, Ending DEF SaveFails
  <2>8. ~ SaveClose(s)
    <3>1. {"reservation"} \in SUBSET Kinds
      BY DEF Kinds
    <3>. QED
      BY <2>0, <2>4, <3>1, Starting DEF SaveClose
  <2>9. ~ Begin(s)
    <3>1. ~ GoOn(s, FALSE)
      BY <2>0, <2>4, <2>5, GoingOn
    <3>2. ~ (pc' = [pc EXCEPT ![s] = IF job[s].kind = "lease" THEN "read_leases" ELSE "commit"])
      BY <2>0 DEF ControlOK
    <3>. QED
      BY <3>1, <3>2 DEF Begin
  <2>10. CASE Compare(s)
    <3>1. pc[s] = "compare" /\ table' = table /\ conf' = conf /\ meta[job[s].kind] = job[s].print
      BY <2>0, <2>10 DEF Compare, ControlOK
    <3>2. table["reservation"].version = Version(conf) /\ table["reservation"].rows = NoRows
      BY <2>0, <3>1 DEF JobOK, ShownBy, TableOK, Passing
    <3>3. table["reservation"] \in [version : Nat, rows : RowsType]
      BY <2>0, TypeParts DEF Kinds
    <3>4. table["reservation"] = Truth("reservation")
      BY <2>t, <3>2, <3>3
    <3>. QED
      BY <3>1, <3>4 DEF Truth
  <2>11. CASE Commit(s)
    <3>1. PICK mine \in Kinds :
             /\ mine = job[s].kind
             /\ table'[mine] = [version |-> job[s].version, rows |-> job[s].rows]
      BY <2>0, <2>11, Committed
    <3>2. pc[s] = "commit" /\ conf' = conf
      BY <2>11 DEF Commit
    <3>3. job[s].kind = "reservation" /\ job[s].rows = NoRows /\ job[s].version = Version(conf)
      BY <2>0, <3>2 DEF JobOK, ShownBy, Passing
    <3>. QED
      BY <3>1, <3>2, <3>3, <2>t DEF Truth
  <2>. QED
    BY <2>2, <2>3, <2>6, <2>7, <2>8, <2>9, <2>10, <2>11 DEF Act, Ingest, Save
<1>2. AnsweredSaveIsShown <=> [][Found]_vars
  BY DEF AnsweredSaveIsShown
<1> HIDE DEF Found
<1>. QED
  BY <1>1, <1>2, ShownInvariant, PTL DEF Spec
=============================================================================
