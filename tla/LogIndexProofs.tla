---------------------------- MODULE LogIndexProofs ----------------------------
(* Theorems about LogIndex, for any workers, files, rotations and bounds.      *)
EXTENDS LogIndex, FiniteSetTheorems, SequenceTheorems, WellFoundedInduction, TLAPS

-----------------------------------------------------------------------------
(* What the helpers return *)

\* A finite set of numbers has a greatest one.
LEMMA Greatest ==
  ASSUME NEW S \in SUBSET Nat, IsFiniteSet(S), S # {}
  PROVE  Max(S) \in S /\ \A i \in S : i <= Max(S)
<1> DEFINE above(i) == {j \in S : j >= i}
           Above == {above(i) : i \in S}
<1>1. IsWellFoundedOn(StrictSubsetOrdering(Nat), FiniteSubsetsOf(Nat))
  BY FS_StrictSubsetOrderingWellFounded
<1>2. Above \subseteq FiniteSubsetsOf(Nat) /\ Above # {}
  <2>1. \A i \in S : above(i) \in SUBSET Nat /\ IsFiniteSet(above(i))
    BY FS_Subset
  <2>. QED
    BY <2>1 DEF FiniteSubsetsOf
<1>3. PICK J \in Above : \A K \in Above : ~ (<<K, J>> \in StrictSubsetOrdering(Nat))
  BY <1>1, <1>2, WFMin
<1>4. PICK m \in S : J = above(m)
  BY <1>3
<1>5. ASSUME NEW i \in S, ~ (i <= m) PROVE FALSE
  <2>1. above(i) \subseteq above(m) /\ m \in above(m) /\ m \notin above(i)
    <3>1. i \in Nat /\ m \in Nat /\ i >= m /\ ~ (m >= i)
      BY <1>5
    <3>2. ASSUME NEW j \in S, j >= i PROVE j >= m
      BY <3>1, <3>2
    <3>3. m >= m
      BY <3>1
    <3>. QED
      BY <3>1, <3>2, <3>3
  <2>2. <<above(i), above(m)>> \in StrictSubsetOrdering(Nat)
    BY <2>1 DEF StrictSubsetOrdering
  <2>. QED
    BY <2>2, <1>3, <1>4
<1>6. \A i \in S : i \in Nat
  OBVIOUS
<1>7. \E x \in S : \A y \in S : x >= y
  BY <1>5, <1>6
<1>8. Max(S) \in S /\ \A y \in S : Max(S) >= y
  BY <1>7 DEF Max
<1>. QED
  BY <1>6, <1>8

LEMMA FiniteRange ==
  ASSUME NEW T, NEW s \in Seq(T)
  PROVE  IsFiniteSet(ToSet(s)) /\ ToSet(s) \subseteq T
<1> DEFINE f == [i \in DOMAIN s |-> s[i]]
<1>1. Len(s) \in Nat /\ DOMAIN s = 1 .. Len(s)
  OBVIOUS
<1>2. IsFiniteSet(DOMAIN s)
  BY <1>1, FS_Interval
<1>3. f \in Surjection(DOMAIN s, ToSet(s))
  BY DEF Surjection, ToSet
<1>. QED
  BY <1>2, <1>3, FS_Surjection DEF ToSet

\* The least of a few numbers, which Min of FiniteSetsExt picks.
LEMMA Least2 ==
  ASSUME NEW a \in Nat, NEW b \in Nat
  PROVE  Min({a, b}) \in {a, b} /\ Min({a, b}) <= a /\ Min({a, b}) <= b
<1>1. \E x \in {a, b} : \A y \in {a, b} : x <= y
  BY a <= b \/ b <= a
<1>2. Min({a, b}) \in {a, b} /\ \A y \in {a, b} : Min({a, b}) <= y
  BY <1>1 DEF Min
<1>. QED
  BY <1>2

LEMMA Least3 ==
  ASSUME NEW a \in Nat, NEW b \in Nat, NEW c \in Nat
  PROVE  LET m == Min({a, b, c}) IN m \in {a, b, c} /\ m <= a /\ m <= b /\ m <= c
<1>1. \E x \in {a, b, c} : \A y \in {a, b, c} : x <= y
  <2>1. \A x \in {a, b, c} : x <= x
    OBVIOUS
  <2>2. CASE a <= b /\ a <= c
    BY <2>1, <2>2
  <2>3. CASE b <= a /\ b <= c
    BY <2>1, <2>3
  <2>4. CASE c <= a /\ c <= b
    BY <2>1, <2>4
  <2>. QED
    BY <2>2, <2>3, <2>4
<1>2. Min({a, b, c}) \in {a, b, c} /\ \A y \in {a, b, c} : Min({a, b, c}) <= y
  BY <1>1 DEF Min
<1>. QED
  BY <1>2

\* The rows that a DELETE keeps are rows that were there, in the same order.
LEMMA KeptRows ==
  ASSUME NEW T, NEW s \in Seq(T), NEW I \in SUBSET (DOMAIN s)
  PROVE  /\ Kept(s, I) \in Seq(T) /\ Len(Kept(s, I)) <= Len(s)
         /\ \A n \in DOMAIN Kept(s, I) : \E i \in I : Kept(s, I)[n] = s[i]
         /\ \A m, n \in DOMAIN Kept(s, I) : m < n =>
              \E i, j \in I : i < j /\ Kept(s, I)[m] = s[i] /\ Kept(s, I)[n] = s[j]
         /\ \A i \in I : \E n \in DOMAIN Kept(s, I) : Kept(s, I)[n] = s[i]
<1> DEFINE N == Cardinality(I)
           upto(i) == {j \in I : j <= i}
           rank == [i \in I |-> Cardinality(upto(i))]
<1>1. Len(s) \in Nat /\ DOMAIN s = 1 .. Len(s) /\ \A i \in I : i \in Nat
  OBVIOUS
<1>2. IsFiniteSet(I) /\ N \in Nat /\ N <= Len(s)
  <2>1. IsFiniteSet(1 .. Len(s)) /\ Cardinality(1 .. Len(s)) = Len(s)
    BY <1>1, FS_Interval
  <2>2. IsFiniteSet(I) /\ Cardinality(I) <= Cardinality(1 .. Len(s))
    BY <1>1, <2>1, FS_Subset
  <2>. QED
    BY <2>1, <2>2, FS_CardinalityType
<1>3. \A i \in I : rank[i] \in 1 .. N
  <2>. SUFFICES ASSUME NEW i \in I PROVE Cardinality(upto(i)) \in 1 .. N
    OBVIOUS
  <2>1. upto(i) \subseteq I /\ i \in upto(i)
    BY <1>1
  <2>2. IsFiniteSet(upto(i)) /\ Cardinality(upto(i)) <= N
    BY <1>2, <2>1, FS_Subset
  <2>3. Cardinality(upto(i)) \in Nat /\ Cardinality(upto(i)) # 0
    BY <2>1, <2>2, FS_CardinalityType, FS_EmptySet
  <2>. QED
    BY <1>2, <2>2, <2>3
<1>4. \A i, j \in I : i < j => rank[i] < rank[j]
  <2>. SUFFICES ASSUME NEW i \in I, NEW j \in I, i < j
                PROVE  Cardinality(upto(i)) < Cardinality(upto(j))
    OBVIOUS
  <2>1. upto(i) \subseteq upto(j) /\ j \in upto(j) /\ j \notin upto(i)
    BY <1>1
  <2>2. IsFiniteSet(upto(j))
    BY <1>2, FS_Subset
  <2>3. Cardinality(upto(i)) <= Cardinality(upto(j)) /\ Cardinality(upto(i)) # Cardinality(upto(j))
    BY <2>1, <2>2, FS_Subset
  <2>4. Cardinality(upto(i)) \in Nat /\ Cardinality(upto(j)) \in Nat
    BY <1>3
  <2>. QED
    BY <2>3, <2>4
<1>5. rank \in Injection(I, 1 .. N)
  <2>1. ASSUME NEW i \in I, NEW j \in I, rank[i] = rank[j], i # j PROVE FALSE
    <3>1. i < j \/ j < i
      BY <1>1, <2>1
    <3>2. rank[i] < rank[j] \/ rank[j] < rank[i]
      BY <1>4, <3>1
    <3>. QED
      BY <1>3, <2>1, <3>2
  <2>. QED
    BY <1>3, <2>1 DEF Injection, IsInjective
<1>6. rank \in Surjection(I, 1 .. N)
  <2>1. IsFiniteSet(1 .. N) /\ Cardinality(1 .. N) = N
    BY <1>2, FS_Interval
  <2>. QED
    BY <1>2, <1>5, <2>1, FS_Injection
<1> DEFINE place(n) == CHOOSE i \in I : Cardinality({j \in I : j <= i}) = n
<1>7. \A n \in 1 .. N : place(n) \in I /\ rank[place(n)] = n
  <2>. SUFFICES ASSUME NEW n \in 1 .. N PROVE place(n) \in I /\ rank[place(n)] = n
    OBVIOUS
  <2>1. \E i \in I : rank[i] = n
    BY <1>6 DEF Surjection
  <2>2. \E i \in I : Cardinality({j \in I : j <= i}) = n
    BY <2>1
  <2>3. place(n) \in I /\ Cardinality({j \in I : j <= place(n)}) = n
    BY <2>2
  <2>. QED
    BY <2>3
<1>8. \A m, n \in 1 .. N : m < n => place(m) < place(n)
  <2>. SUFFICES ASSUME NEW m \in 1 .. N, NEW n \in 1 .. N, m < n PROVE place(m) < place(n)
    OBVIOUS
  <2>1. place(m) \in I /\ place(n) \in I /\ rank[place(m)] = m /\ rank[place(n)] = n
    BY <1>7
  <2> HIDE DEF place, rank
  <2>2. place(m) # place(n) /\ ~(place(n) < place(m))
    BY <1>4, <2>1
  <2>. QED
    BY <1>1, <2>1, <2>2
<1>9. Kept(s, I) = [n \in 1 .. N |-> s[place(n)]]
  BY DEF Kept
<1> HIDE DEF place, rank, N
<1>10. Kept(s, I) \in Seq(T) /\ Len(Kept(s, I)) = N /\ DOMAIN Kept(s, I) = 1 .. N
  <2>1. \A n \in 1 .. N : s[place(n)] \in T
    BY <1>1, <1>7
  <2>. QED
    BY <1>2, <1>9, <2>1
<1>11. ASSUME NEW i \in I PROVE place(rank[i]) = i
  <2>1. rank[i] \in 1 .. N
    BY <1>3
  <2>2. place(rank[i]) \in I /\ rank[place(rank[i])] = rank[i]
    BY <1>7, <2>1
  <2>. QED
    BY <1>5, <2>2 DEF Injection, IsInjective
<1>12. \A i \in I : \E n \in DOMAIN Kept(s, I) : Kept(s, I)[n] = s[i]
  BY <1>3, <1>9, <1>10, <1>11
<1>13. \A n \in DOMAIN Kept(s, I) : \E i \in I : Kept(s, I)[n] = s[i]
  BY <1>7, <1>9, <1>10
<1>14. \A m, n \in DOMAIN Kept(s, I) : m < n =>
         \E i, j \in I : i < j /\ Kept(s, I)[m] = s[i] /\ Kept(s, I)[n] = s[j]
  BY <1>7, <1>8, <1>9, <1>10
<1>. QED
  BY <1>2, <1>10, <1>12, <1>13, <1>14

-----------------------------------------------------------------------------
(* The log directory *)

FileType == [lines : Seq(Line), half : BOOLEAN, torn : BOOLEAN]

DiskTyped ==
  /\ at \in [Paths -> Inodes \cup {None}]
  /\ data \in [Inodes -> FileType]
  /\ kea \in Inodes
  /\ written \in 0..MaxLines /\ expired \in 0..written
  /\ rotations \in 0..MaxRotations
  /\ gzip \in BOOLEAN

Increasing(s) == \A m, n \in DOMAIN s : m < n => s[m] < s[n]

\* Lines are in the order in which Kea wrote them, in every file ...
InOrder == \A i \in Inodes :
  /\ Increasing(data[i].lines)
  /\ Len(data[i].lines) <= written
  /\ \A k \in DOMAIN data[i].lines : data[i].lines[k] <= written

\* ... and those of the renamed log come before those of the live one.
OldFirst == at[Old] # None =>
  \A k \in DOMAIN File(Old).lines, l \in DOMAIN File(Live).lines :
    File(Old).lines[k] < File(Live).lines[l]

\* There is a live log, and Kea writes to it or, until told to reopen, to the
\* renamed one.  gzip reads a log that Kea has left.
Logs ==
  /\ at[Live] # None
  /\ \A p, q \in Paths : p # q /\ at[p] # None => at[p] # at[q]
  /\ kea \in {at[Live], at[Old]}
  /\ kea # at[Live] => File(Live).lines = <<>>
  /\ gzip => at[Gz] # None /\ at[Old] \notin {None, kea}

DiskOK == DiskTyped /\ InOrder /\ OldFirst /\ Logs

LEMMA Bounds ==
  /\ MaxLines \in Nat /\ MaxRotations \in Nat /\ MaxExpired \in Nat /\ MaxCrashes \in Nat
  /\ MaxBatch \in Nat /\ MaxBatch > 0 /\ Fingerprint \in Nat /\ Fingerprint > 0
  /\ None \notin Inodes /\ None \notin Workers
  /\ Background \in Workers /\ Background \notin Refills
BY LogIndexAssumption DEF LogIndexAssumption, Workers

LEMMA LineNumbers ==
  ASSUME NEW s \in Seq(Line)
  PROVE  Len(s) \in Nat /\ DOMAIN s = 1 .. Len(s) /\ \A k \in DOMAIN s : s[k] \in Line /\ s[k] \in Nat
BY Bounds DEF Line

LEMMA ThreePaths ==
  /\ Paths = {Live, Old, Gz}
  /\ Live # Old /\ Live # Gz /\ Old # Gz
  /\ Live \in Paths /\ Old \in Paths /\ Gz \in Paths
BY DEF Paths, Live, Old, Gz

LEMMA BlankFile ==
  Blank \in FileType /\ Blank.lines = <<>> /\ ~Blank.half /\ ~Blank.torn
BY DEF Blank, FileType, Line

\* What Kea adds comes after all it wrote before.
LEMMA NextLine ==
  ASSUME NEW s \in Seq(Line), NEW n \in 0 .. MaxLines - 1, Increasing(s), Len(s) <= n,
         \A k \in DOMAIN s : s[k] <= n
  PROVE  LET t == Append(s, n + 1) IN
         /\ t \in Seq(Line) /\ Increasing(t) /\ Len(t) <= n + 1
         /\ \A k \in DOMAIN t : t[k] <= n + 1 /\ ((k \in DOMAIN s /\ t[k] = s[k]) \/ t[k] = n + 1)
<1> DEFINE t == Append(s, n + 1)
<1>1. n \in Nat /\ n + 1 \in Line /\ Len(s) \in Nat /\ DOMAIN s = 1 .. Len(s)
  BY Bounds DEF Line
<1>2. t \in Seq(Line) /\ Len(t) = Len(s) + 1 /\ DOMAIN t = 1 .. Len(s) + 1
  BY <1>1
<1>3. \A k \in DOMAIN s : t[k] = s[k] /\ s[k] \in Nat
  BY <1>1, LineNumbers
<1>4. t[Len(s) + 1] = n + 1
  BY <1>1
<1>5. \A k \in DOMAIN t : k \in DOMAIN s \/ k = Len(s) + 1
  BY <1>1, <1>2
<1>6. \A k \in DOMAIN t : t[k] <= n + 1 /\ ((k \in DOMAIN s /\ t[k] = s[k]) \/ t[k] = n + 1)
  BY <1>1, <1>3, <1>4, <1>5
<1>7. ASSUME NEW k \in DOMAIN t, NEW l \in DOMAIN t, k < l PROVE t[k] < t[l]
  <2>1. k \in DOMAIN s
    BY <1>1, <1>2, <1>7
  <2>2. CASE l \in DOMAIN s
    BY <1>3, <1>7, <2>1, <2>2 DEF Increasing
  <2>3. CASE l = Len(s) + 1
    BY <1>1, <1>3, <1>4, <2>1, <2>3
  <2>. QED
    BY <1>5, <2>2, <2>3
<1> HIDE DEF t
<1>8. Increasing(t)
  BY <1>7 DEF Increasing
<1>. QED
  BY <1>1, <1>2, <1>6, <1>8 DEF t

LEMMA WriteLineSorted ==
  ASSUME DiskOK, WriteLine
  PROVE  /\ written' = written + 1 /\ written \in 0 .. MaxLines - 1
         /\ data' \in [Inodes -> FileType]
         /\ \A i \in Inodes : i # kea => data'[i] = data[i]
         /\ data'[kea].lines = Append(data[kea].lines, written + 1)
         /\ \A k \in DOMAIN data'[kea].lines :
              \/ k \in DOMAIN data[kea].lines /\ data'[kea].lines[k] = data[kea].lines[k]
              \/ data'[kea].lines[k] = written + 1
         /\ InOrder'
<1> DEFINE s == data[kea].lines
           t == Append(s, written + 1)
<1>1. written \in 0 .. MaxLines - 1 /\ written' = written + 1
  BY Bounds DEF DiskOK, DiskTyped, WriteLine
<1>2. kea \in Inodes /\ data \in [Inodes -> FileType]
  BY DEF DiskOK, DiskTyped
<1>3. s \in Seq(Line) /\ Increasing(s) /\ Len(s) <= written /\ \A k \in DOMAIN s : s[k] <= written
  BY <1>2 DEF DiskOK, FileType, InOrder
<1>4. /\ t \in Seq(Line) /\ Increasing(t) /\ Len(t) <= written + 1
      /\ \A k \in DOMAIN t : t[k] <= written + 1 /\ ((k \in DOMAIN s /\ t[k] = s[k]) \/ t[k] = written + 1)
  BY <1>1, <1>3, NextLine
<1>5. data' = [data EXCEPT ![kea] = [data[kea] EXCEPT !.half = FALSE, !.lines = t]]
  BY <1>2 DEF WriteLine, FileType
<1> HIDE DEF t
<1>6. data'[kea].lines = t /\ data' \in [Inodes -> FileType] /\ \A i \in Inodes : i # kea => data'[i] = data[i]
  BY <1>2, <1>4, <1>5 DEF FileType
<1>7. InOrder'
  <2>. SUFFICES ASSUME NEW i \in Inodes
                PROVE  /\ Increasing(data'[i].lines) /\ Len(data'[i].lines) <= written + 1
                       /\ \A k \in DOMAIN data'[i].lines : data'[i].lines[k] <= written + 1
    BY <1>1 DEF InOrder, Increasing
  <2>1. CASE i = kea
    BY <1>4, <1>6, <2>1
  <2>2. CASE i # kea
    <3>1. data'[i] = data[i] /\ data[i].lines \in Seq(Line)
      BY <1>2, <1>6, <2>2 DEF FileType
    <3>2. \A k \in DOMAIN data[i].lines : data[i].lines[k] \in Nat
      BY <3>1, LineNumbers
    <3>. QED
      BY <1>1, <3>1, <3>2 DEF DiskOK, InOrder
  <2>. QED
    BY <2>1, <2>2
<1>. QED
  BY <1>1, <1>4, <1>6, <1>7 DEF t

FreshInode(i) == i \in Inodes /\ i # kea /\ \A p \in Paths : at[p] # i

\* gzip writes to its archive only.
LEMMA FilledArchive ==
  ASSUME DiskOK, Fill
  PROVE  /\ at[Gz] \in Inodes \ {at[Live], at[Old]} /\ at[Live] \in Inodes /\ at[Old] \in Inodes
         /\ data' \in [Inodes -> FileType] /\ data'[at[Gz]].lines = data[at[Old]].lines
         /\ \A i \in Inodes : i # at[Gz] => data'[i] = data[i]
         /\ UNCHANGED <<at, kea, written, rotations, gzip, expired>>
<1>1. /\ at \in [Paths -> Inodes \cup {None}] /\ data \in [Inodes -> FileType]
      /\ at[Gz] # None /\ at[Live] # None /\ at[Old] # None
      /\ \A p, q \in Paths : p # q /\ at[p] # None => at[p] # at[q]
  BY DEF Fill, DiskOK, DiskTyped, Logs
<1>2. at[Gz] \in Inodes \ {at[Live], at[Old]} /\ at[Live] \in Inodes /\ at[Old] \in Inodes
  BY <1>1, ThreePaths
<1>3. data' = [data EXCEPT ![at[Gz]] = [data[at[Old]] EXCEPT !.torn = TRUE]]
  BY DEF Fill, File
<1>4. [data[at[Old]] EXCEPT !.torn = TRUE] \in FileType
      /\ [data[at[Old]] EXCEPT !.torn = TRUE].lines = data[at[Old]].lines
  BY <1>1, <1>2 DEF FileType
<1>. QED
  BY <1>1, <1>2, <1>3, <1>4 DEF Fill

\* Kea, logrotate and gzip keep the directory in order.
LEMMA DiskStep ==
  ASSUME DiskOK, Outside
  PROVE  DiskOK'
<1>1. /\ at \in [Paths -> Inodes \cup {None}] /\ data \in [Inodes -> FileType] /\ kea \in Inodes
      /\ written \in 0 .. MaxLines /\ expired \in 0 .. written /\ rotations \in 0 .. MaxRotations
      /\ gzip \in BOOLEAN
  BY DEF DiskOK, DiskTyped
<1>2. /\ InOrder /\ OldFirst /\ Logs
      /\ at[Live] \in Inodes /\ (at[Old] # None => at[Old] \in Inodes) /\ (at[Gz] # None => at[Gz] \in Inodes)
  BY <1>1, ThreePaths DEF DiskOK, Logs
<1>3. \A i \in Free : FreshInode(i)
  BY DEF Free, FreshInode
<1>4. \A i \in Inodes : data[i].lines \in Seq(Line) /\ Len(data[i].lines) \in Nat
  BY <1>1, LineNumbers DEF FileType

\* The order of lines is kept when the files of the next step are files of this one, or blank.
<1>5. ASSUME written' = written, data' \in [Inodes -> FileType],
             \A i \in Inodes : data'[i].lines = <<>> \/ \E j \in Inodes : data'[i].lines = data[j].lines
      PROVE  InOrder'
  <2>. SUFFICES ASSUME NEW i \in Inodes
                PROVE  /\ Increasing(data'[i].lines) /\ Len(data'[i].lines) <= written
                       /\ \A k \in DOMAIN data'[i].lines : data'[i].lines[k] <= written
    BY <1>5 DEF InOrder, Increasing
  <2>1. CASE data'[i].lines = <<>>
    BY <1>1, <2>1 DEF Increasing
  <2>2. CASE \E j \in Inodes : data'[i].lines = data[j].lines
    BY <1>2, <2>2 DEF InOrder
  <2>. QED
    BY <1>5, <2>1, <2>2
<1>6. CASE WriteHalf
  <2>1. /\ UNCHANGED <<at, kea, written, rotations, gzip, expired>>
        /\ data' = [data EXCEPT ![kea] = [data[kea] EXCEPT !.half = TRUE]]
    BY <1>6 DEF WriteHalf
  <2>2. data' \in [Inodes -> FileType] /\ \A i \in Inodes : data'[i].lines = data[i].lines
    BY <1>1, <2>1 DEF FileType
  <2>3. DiskTyped' /\ InOrder'
    BY <1>1, <1>5, <2>1, <2>2 DEF DiskTyped
  <2>4. OldFirst' /\ Logs'
    BY <1>2, <2>1, <2>2 DEF OldFirst, Logs, File
  <2>. QED
    BY <2>3, <2>4 DEF DiskOK
<1>7. CASE WriteLine
  <2>1. UNCHANGED <<at, kea, rotations, gzip, expired>>
    BY <1>7 DEF WriteLine
  <2>2. /\ written' = written + 1 /\ written \in 0 .. MaxLines - 1
        /\ data' \in [Inodes -> FileType]
        /\ \A i \in Inodes : i # kea => data'[i] = data[i]
        /\ \A k \in DOMAIN data'[kea].lines :
             \/ k \in DOMAIN data[kea].lines /\ data'[kea].lines[k] = data[kea].lines[k]
             \/ data'[kea].lines[k] = written + 1
        /\ InOrder'
    BY <1>7, WriteLineSorted
  <2>3. DiskTyped'
    BY <1>1, <2>1, <2>2, Bounds DEF DiskTyped
  <2>4. Logs'
    BY <1>2, <2>1, <2>2 DEF Logs, File
  <2>5. ASSUME at[Old] # None, NEW k \in DOMAIN data'[at[Old]].lines, NEW l \in DOMAIN data'[at[Live]].lines
        PROVE  data'[at[Old]].lines[k] < data'[at[Live]].lines[l]
    <3>1. at[Old] \in Inodes /\ at[Old] # at[Live]
      BY <1>2, <2>5, ThreePaths DEF Logs
    <3>2. CASE kea = at[Live]
      <4>1. data'[at[Old]] = data[at[Old]]
        BY <2>2, <3>1, <3>2
      <4>2. data[at[Old]].lines[k] <= written /\ data[at[Old]].lines[k] \in Nat
        BY <1>2, <1>4, <2>5, <3>1, <4>1, LineNumbers DEF InOrder
      <4>3. CASE l \in DOMAIN data[at[Live]].lines /\ data'[kea].lines[l] = data[kea].lines[l]
        BY <1>2, <2>5, <3>2, <4>1, <4>3 DEF OldFirst, File
      <4>4. CASE data'[kea].lines[l] = written + 1
        BY <2>2, <3>2, <4>1, <4>2, <4>4
      <4>. QED
        BY <2>2, <2>5, <3>2, <4>3, <4>4
    <3>3. CASE kea # at[Live]
      BY <1>2, <2>2, <2>5, <3>3 DEF Logs, File
    <3>. QED
      BY <3>2, <3>3
  <2>6. OldFirst'
    BY <2>1, <2>5 DEF OldFirst, File
  <2>. QED
    BY <2>2, <2>3, <2>4, <2>6 DEF DiskOK
<1>8. CASE Rename
  <2>1. PICK i \in Free : /\ at' = [at EXCEPT ![Old] = at[Live], ![Live] = i]
                          /\ data' = [data EXCEPT ![i] = Blank]
    BY <1>8 DEF Rename
  <2>2. /\ rotations < MaxRotations /\ rotations' = rotations + 1 /\ at[Old] = None
        /\ UNCHANGED <<kea, written, gzip, expired>>
    BY <1>8 DEF Rename
  <2>3. FreshInode(i)
    BY <1>3
  <2>4. at'[Old] = at[Live] /\ at'[Live] = i /\ at'[Gz] = at[Gz] /\ at' \in [Paths -> Inodes \cup {None}]
    BY <1>1, <1>2, <2>1, <2>3, ThreePaths DEF FreshInode
  <2>5. data' \in [Inodes -> FileType] /\ data'[i] = Blank /\ \A j \in Inodes : j # i => data'[j] = data[j]
    BY <1>1, <2>1, <2>3, BlankFile DEF FreshInode
  <2>6. DiskTyped'
    BY <1>1, <2>2, <2>4, <2>5, Bounds DEF DiskTyped
  <2>7. InOrder'
    BY <1>5, <2>2, <2>5, BlankFile
  <2>8. OldFirst'
    BY <2>4, <2>5, BlankFile DEF OldFirst, File
  <2>9. kea = at[Live] /\ ~gzip
    BY <1>1, <1>2, <2>2, Bounds DEF Logs
  <2>10. Logs'
    BY <1>2, <2>2, <2>3, <2>4, <2>5, <2>9, BlankFile, ThreePaths, Bounds DEF Logs, File, FreshInode
  <2>. QED
    BY <2>6, <2>7, <2>8, <2>10 DEF DiskOK
<1>9. CASE Reopen
  <2>1. kea' = at[Live] /\ kea # at[Live] /\ UNCHANGED <<at, data, written, rotations, gzip, expired>>
    BY <1>9 DEF Reopen
  <2>2. DiskTyped' /\ InOrder' /\ OldFirst'
    BY <1>1, <1>2, <2>1 DEF DiskTyped, InOrder, OldFirst, File
  <2>3. Logs'
    BY <1>2, <2>1, ThreePaths DEF Logs, File
  <2>. QED
    BY <2>2, <2>3 DEF DiskOK
<1>10. CASE CopyTruncate
  <2>1. PICK i \in Free : /\ at' = [at EXCEPT ![Old] = i]
                          /\ data' = [data EXCEPT ![i] = File(Live), ![at[Live]] = Blank]
    BY <1>10 DEF CopyTruncate
  <2>2. /\ rotations < MaxRotations /\ rotations' = rotations + 1 /\ at[Old] = None
        /\ UNCHANGED <<kea, written, gzip, expired>>
    BY <1>10 DEF CopyTruncate
  <2>3. FreshInode(i) /\ i # at[Live]
    BY <1>3, ThreePaths DEF FreshInode
  <2>4. at'[Old] = i /\ at'[Live] = at[Live] /\ at'[Gz] = at[Gz] /\ at' \in [Paths -> Inodes \cup {None}]
    BY <1>1, <1>2, <2>1, <2>3, ThreePaths DEF FreshInode
  <2>5. /\ data' \in [Inodes -> FileType] /\ data'[i] = data[at[Live]] /\ data'[at[Live]] = Blank
        /\ \A j \in Inodes : j # i /\ j # at[Live] => data'[j] = data[j]
    BY <1>1, <1>2, <2>1, <2>3, BlankFile DEF FreshInode, File
  <2>6. DiskTyped'
    BY <1>1, <2>2, <2>4, <2>5, Bounds DEF DiskTyped
  <2>7. InOrder'
    BY <1>2, <1>5, <2>2, <2>5, BlankFile
  <2>8. OldFirst'
    BY <2>4, <2>5, BlankFile DEF OldFirst, File
  <2>9. kea = at[Live] /\ ~gzip
    BY <1>1, <1>2, <2>2, Bounds DEF Logs
  <2>10. Logs'
    BY <1>2, <2>2, <2>3, <2>4, <2>5, <2>9, BlankFile, ThreePaths, Bounds DEF Logs, File, FreshInode
  <2>. QED
    BY <2>6, <2>7, <2>8, <2>10 DEF DiskOK
<1>11. CASE Compress
  <2>1. PICK i \in Free : /\ at' = [at EXCEPT ![Gz] = i]
                          /\ data' = [data EXCEPT ![i] = Blank]
    BY <1>11 DEF Compress
  <2>2. at[Old] \notin {None, kea} /\ at[Gz] = None /\ gzip' = TRUE /\ UNCHANGED <<kea, written, rotations, expired>>
    BY <1>11 DEF Compress
  <2>3. FreshInode(i)
    BY <1>3
  <2>4. at'[Gz] = i /\ at'[Live] = at[Live] /\ at'[Old] = at[Old] /\ at' \in [Paths -> Inodes \cup {None}]
    BY <1>1, <1>2, <2>1, <2>3, ThreePaths DEF FreshInode
  <2>5. /\ data' \in [Inodes -> FileType] /\ data'[i].lines = <<>>
        /\ \A j \in Inodes : j # i => data'[j] = data[j]
    BY <1>1, <2>1, <2>3, BlankFile DEF FreshInode
  <2>6. DiskTyped'
    BY <1>1, <2>2, <2>4, <2>5 DEF DiskTyped
  <2>7. InOrder'
    BY <1>2, <1>5, <2>2, <2>5
  <2>8. at[Live] # i /\ at[Old] # i
    BY <2>3, ThreePaths DEF FreshInode
  <2>9. OldFirst'
    BY <1>2, <2>2, <2>4, <2>5, <2>8 DEF OldFirst, File
  <2>10. Logs'
    BY <1>2, <2>2, <2>3, <2>4, <2>5, <2>8, ThreePaths, Bounds DEF Logs, File, FreshInode
  <2>. QED
    BY <2>6, <2>7, <2>9, <2>10 DEF DiskOK
<1>12. CASE Compressed
  <2>1. /\ gzip /\ gzip' = FALSE /\ at' = [at EXCEPT ![Old] = None]
        /\ data' = [data EXCEPT ![at[Gz]] = [data[at[Gz]] EXCEPT !.torn = FALSE]]
        /\ UNCHANGED <<kea, written, rotations, expired>>
    BY <1>12 DEF Compressed
  <2>2. at'[Old] = None /\ at'[Live] = at[Live] /\ at'[Gz] = at[Gz] /\ at' \in [Paths -> Inodes \cup {None}]
    BY <1>1, <2>1, ThreePaths
  <2>3. data' \in [Inodes -> FileType] /\ \A j \in Inodes : data'[j].lines = data[j].lines
    BY <1>1, <1>2, <2>1 DEF FileType
  <2>4. DiskTyped'
    BY <1>1, <2>1, <2>2, <2>3 DEF DiskTyped
  <2>5. InOrder' /\ OldFirst'
    BY <1>5, <2>1, <2>2, <2>3 DEF OldFirst
  <2>6. kea = at[Live]
    BY <1>2, <2>1 DEF Logs
  <2>7. Logs'
    BY <1>2, <2>1, <2>2, <2>3, <2>6, ThreePaths DEF Logs, File
  <2>. QED
    BY <2>4, <2>5, <2>7 DEF DiskOK
<1>13. CASE GzipDies \/ Expire
  <2>1. UNCHANGED <<at, data, kea, written, rotations>>
    BY <1>13 DEF GzipDies, Expire
  <2>2. gzip' = FALSE \/ gzip' = gzip
    <3>1. CASE GzipDies
      BY <3>1 DEF GzipDies
    <3>2. CASE Expire
      BY <3>2 DEF Expire
    <3>. QED
      BY <1>13, <3>1, <3>2
  <2>3. expired' \in 0 .. written
    <3>1. CASE GzipDies
      BY <1>1, <3>1 DEF GzipDies
    <3>2. CASE Expire
      BY <1>1, <3>2, Bounds DEF Expire
    <3>. QED
      BY <1>13, <3>1, <3>2
  <2>4. DiskTyped' /\ InOrder' /\ OldFirst'
    BY <1>1, <1>2, <2>1, <2>2, <2>3 DEF DiskTyped, InOrder, OldFirst, File
  <2>5. Logs'
    BY <1>2, <2>1, <2>2 DEF Logs, File
  <2>. QED
    BY <2>4, <2>5 DEF DiskOK
<1>14. CASE Fill
  <2>1. /\ at[Gz] \in Inodes \ {at[Live], at[Old]} /\ at[Old] \in Inodes
        /\ data' \in [Inodes -> FileType] /\ data'[at[Gz]].lines = data[at[Old]].lines
        /\ \A i \in Inodes : i # at[Gz] => data'[i] = data[i]
        /\ UNCHANGED <<at, kea, written, rotations, gzip, expired>>
    BY <1>14, FilledArchive
  <2>2. DiskTyped'
    BY <1>1, <2>1 DEF DiskTyped
  <2>3. \A i \in Inodes : data'[i].lines = <<>> \/ \E j \in Inodes : data'[i].lines = data[j].lines
    BY <2>1
  <2>4. InOrder'
    BY <1>5, <2>1, <2>3
  <2>5. OldFirst'
    BY <1>2, <2>1 DEF OldFirst, File
  <2>6. Logs'
    BY <1>2, <2>1 DEF Logs, File
  <2>. QED
    BY <2>2, <2>4, <2>5, <2>6 DEF DiskOK
<1>. QED
  BY <1>6, <1>7, <1>8, <1>9, <1>10, <1>11, <1>12, <1>13, <1>14 DEF Outside, OnDiskOnly

\* Line l comes before all that the log at p holds after n lines, and before all
\* that it will hold: what is written later, and what is renamed from the live log.
Beyond(l, n, p) ==
  /\ l <= written
  /\ at[p] # None => \A k \in DOMAIN File(p).lines : k > n => l < File(p).lines[k]
  /\ p = Old => \A k \in DOMAIN File(Live).lines : l < File(Live).lines[k]

LEMMA BeyondStep ==
  ASSUME DiskOK, Outside, NEW l \in Line, NEW n \in Nat, NEW p \in {Live, Old}, Beyond(l, n, p)
  PROVE  Beyond(l, n, p)'
<1>1. /\ at \in [Paths -> Inodes \cup {None}] /\ data \in [Inodes -> FileType] /\ kea \in Inodes
      /\ written \in 0 .. MaxLines
  BY DEF DiskOK, DiskTyped
<1>2. /\ Logs
      /\ at[Live] \in Inodes /\ (at[Old] # None => at[Old] \in Inodes) /\ (at[Gz] # None => at[Gz] \in Inodes)
  BY <1>1, ThreePaths DEF DiskOK, Logs
<1>3. \A i \in Free : FreshInode(i)
  BY DEF Free, FreshInode
<1>4. /\ l \in Nat /\ l <= written
      /\ at[p] # None => \A k \in DOMAIN data[at[p]].lines : k > n => l < data[at[p]].lines[k]
      /\ p = Old => \A k \in DOMAIN data[at[Live]].lines : l < data[at[Live]].lines[k]
  BY Bounds DEF Beyond, File, Line
<1>5. \A i \in Inodes : data[i].lines \in Seq(Line)
  BY <1>1 DEF FileType
<1>6. CASE WriteHalf \/ Reopen \/ GzipDies \/ Expire
  <2>1. UNCHANGED <<at, written>>
    BY <1>6 DEF WriteHalf, Reopen, GzipDies, Expire
  <2>2. \A i \in Inodes : data'[i].lines = data[i].lines
    <3>1. CASE WriteHalf
      <4>1. data' = [data EXCEPT ![kea] = [data[kea] EXCEPT !.half = TRUE]]
        BY <3>1 DEF WriteHalf
      <4>. QED
        BY <1>1, <4>1 DEF FileType
    <3>2. CASE Reopen \/ GzipDies \/ Expire
      BY <3>2 DEF Reopen, GzipDies, Expire
    <3>. QED
      BY <1>6, <3>1, <3>2
  <2>. QED
    BY <1>1, <1>2, <1>4, <2>1, <2>2, ThreePaths DEF Beyond, File
<1>7. CASE WriteLine
  <2>1. UNCHANGED at
    BY <1>7 DEF WriteLine
  <2>2. /\ written' = written + 1
        /\ \A i \in Inodes : i # kea => data'[i] = data[i]
        /\ \A k \in DOMAIN data'[kea].lines :
             \/ k \in DOMAIN data[kea].lines /\ data'[kea].lines[k] = data[kea].lines[k]
             \/ data'[kea].lines[k] = written + 1
    BY <1>7, WriteLineSorted
  <2>3. \A i \in Inodes : \A k \in DOMAIN data'[i].lines :
          \/ k \in DOMAIN data[i].lines /\ data'[i].lines[k] = data[i].lines[k]
          \/ l < data'[i].lines[k]
    <3>. SUFFICES ASSUME NEW i \in Inodes, NEW k \in DOMAIN data'[i].lines
                  PROVE  \/ k \in DOMAIN data[i].lines /\ data'[i].lines[k] = data[i].lines[k]
                         \/ l < data'[i].lines[k]
      OBVIOUS
    <3>1. CASE i = kea
      <4>1. l < written + 1
        BY <1>1, <1>4
      <4>. QED
        BY <2>2, <3>1, <4>1
    <3>2. CASE i # kea
      BY <2>2, <3>2
    <3>. QED
      BY <3>1, <3>2
  <2>4. l <= written'
    BY <1>1, <1>4, <2>2
  <2>5. at[p] # None => \A k \in DOMAIN data'[at[p]].lines : k > n => l < data'[at[p]].lines[k]
    <3>. SUFFICES ASSUME at[p] # None, NEW k \in DOMAIN data'[at[p]].lines, k > n
                  PROVE  l < data'[at[p]].lines[k]
      OBVIOUS
    <3>1. at[p] \in Inodes
      BY <1>1, <1>2, ThreePaths
    <3>. QED
      BY <1>4, <2>3, <3>1
  <2>6. p = Old => \A k \in DOMAIN data'[at[Live]].lines : l < data'[at[Live]].lines[k]
    BY <1>2, <1>4, <2>3
  <2>. QED
    BY <2>1, <2>4, <2>5, <2>6 DEF Beyond, File
<1>8. CASE Rename
  <2>1. PICK i \in Free : /\ at' = [at EXCEPT ![Old] = at[Live], ![Live] = i]
                          /\ data' = [data EXCEPT ![i] = Blank]
    BY <1>8 DEF Rename
  <2>2. written' = written
    BY <1>8 DEF Rename
  <2>3. at'[Old] = at[Live] /\ at'[Live] = i
    BY <1>1, <2>1, ThreePaths
  <2>4. data'[i].lines = <<>> /\ data'[at[Live]] = data[at[Live]]
    BY <1>1, <1>2, <1>3, <2>1, BlankFile, ThreePaths DEF FreshInode
  <2>. QED
    BY <1>4, <2>2, <2>3, <2>4 DEF Beyond, File
<1>9. CASE CopyTruncate
  <2>1. PICK i \in Free : /\ at' = [at EXCEPT ![Old] = i]
                          /\ data' = [data EXCEPT ![i] = File(Live), ![at[Live]] = Blank]
    BY <1>9 DEF CopyTruncate
  <2>2. written' = written
    BY <1>9 DEF CopyTruncate
  <2>3. at'[Old] = i /\ at'[Live] = at[Live]
    BY <1>1, <2>1, ThreePaths
  <2>4. data'[at[Live]].lines = <<>> /\ data'[i] = data[at[Live]]
    BY <1>1, <1>2, <1>3, <2>1, BlankFile, ThreePaths DEF FreshInode, File
  <2>. QED
    BY <1>4, <2>2, <2>3, <2>4 DEF Beyond, File
<1>10. CASE Compress
  <2>1. PICK i \in Free : /\ at' = [at EXCEPT ![Gz] = i]
                          /\ data' = [data EXCEPT ![i] = Blank]
    BY <1>10 DEF Compress
  <2>2. written' = written
    BY <1>10 DEF Compress
  <2>3. at'[Old] = at[Old] /\ at'[Live] = at[Live]
    BY <1>1, <2>1, ThreePaths
  <2>4. data'[at[Live]] = data[at[Live]] /\ (at[Old] # None => data'[at[Old]] = data[at[Old]])
    BY <1>1, <1>2, <1>3, <2>1, ThreePaths DEF FreshInode
  <2>. QED
    BY <1>4, <2>2, <2>3, <2>4 DEF Beyond, File
<1>11. CASE Compressed
  <2>1. /\ gzip /\ at' = [at EXCEPT ![Old] = None]
        /\ data' = [data EXCEPT ![at[Gz]] = [data[at[Gz]] EXCEPT !.torn = FALSE]]
        /\ written' = written
    BY <1>11 DEF Compressed
  <2>2. at'[Old] = None /\ at'[Live] = at[Live]
    BY <1>1, <2>1, ThreePaths
  <2>3. \A j \in Inodes : data'[j].lines = data[j].lines
    BY <1>1, <1>2, <2>1 DEF FileType, Logs
  <2>. QED
    BY <1>2, <1>4, <2>1, <2>2, <2>3 DEF Beyond, File
<1>12. CASE Fill
  <2>1. UNCHANGED <<at, written>> /\ data'[at[Live]] = data[at[Live]] /\ data'[at[Old]] = data[at[Old]]
    BY <1>12, FilledArchive
  <2>. QED
    BY <1>4, <2>1 DEF Beyond, File
<1>. QED
  BY <1>6, <1>7, <1>8, <1>9, <1>10, <1>11, <1>12 DEF Outside, OnDiskOnly

-----------------------------------------------------------------------------
(* What a worker reads *)

LEMMA ReadableLog ==
  ASSUME DiskOK, NEW p \in Paths, at[p] # None
  PROVE  /\ at[p] \in Inodes /\ File(p) \in FileType
         /\ File(p).lines \in Seq(Line) /\ Len(File(p).lines) \in 0 .. MaxLines
         /\ Increasing(File(p).lines)
         /\ \A k \in DOMAIN File(p).lines : File(p).lines[k] <= written
         /\ Size(File(p)) \in 2 * Len(File(p).lines) .. 2 * MaxLines + 1
<1>1. at[p] \in Inodes /\ data[at[p]] \in FileType /\ written \in 0 .. MaxLines
  BY DEF DiskOK, DiskTyped
<1>2. /\ data[at[p]].lines \in Seq(Line) /\ Increasing(data[at[p]].lines)
      /\ Len(data[at[p]].lines) <= written
      /\ \A k \in DOMAIN data[at[p]].lines : data[at[p]].lines[k] <= written
  BY <1>1 DEF DiskOK, InOrder, FileType
<1>3. Len(data[at[p]].lines) \in 0 .. MaxLines
  BY <1>1, <1>2, LineNumbers, Bounds
<1>4. Size(File(p)) \in 2 * Len(File(p).lines) .. 2 * MaxLines + 1
  <2>1. CASE data[at[p]].half
    BY <1>3, <2>1, Bounds DEF Size, File
  <2>2. CASE ~data[at[p]].half
    BY <1>3, <2>2, Bounds DEF Size, File
  <2>. QED
    BY <2>1, <2>2
<1>. QED
  BY <1>1, <1>2, <1>3, <1>4 DEF File

\* The lines that a batch takes up are those after the offset, in their order.
LEMMA BatchOfLines ==
  ASSUME DiskOK, NEW p \in Paths, at[p] # None, NEW n \in 0 .. MaxLines
  PROVE  LET t == WholeLines(p, n)
             s == File(p).lines IN
         /\ t \in Seq(Line) /\ n + Len(t) \in 0 .. MaxLines
         /\ Len(t) = 0 \/ n + Len(t) <= Len(s)
         /\ \A k \in DOMAIN t : n + k \in DOMAIN s /\ t[k] = s[n + k]
<1> DEFINE s == File(p).lines
           m == Min({n + MaxBatch, Len(s)})
           t == WholeLines(p, n)
<1>1. s \in Seq(Line) /\ Len(s) \in 0 .. MaxLines
  BY ReadableLog
<1>2. DOMAIN s = 1 .. Len(s) /\ \A k \in DOMAIN s : s[k] \in Line
  BY <1>1, LineNumbers
<1>3. m \in {n + MaxBatch, Len(s)} /\ m <= Len(s)
  <2>1. n + MaxBatch \in Nat /\ Len(s) \in Nat
    BY <1>1, Bounds
  <2>. QED
    BY <2>1, Least2
<1>4. m \in Nat /\ t = SubSeq(s, n + 1, m)
  BY <1>1, <1>3, Bounds DEF WholeLines
<1> HIDE DEF s, m, t
<1>5. /\ t \in Seq(Line) /\ Len(t) = (IF n + 1 <= m THEN m - (n + 1) + 1 ELSE 0)
      /\ \A k \in 1 .. m - (n + 1) + 1 : t[k] = s[n + 1 + k - 1]
  <2>1. ASSUME NEW k \in n + 1 .. m PROVE s[k] \in Line
    <3>1. k \in 1 .. Len(s)
      BY <1>1, <1>3, <1>4
    <3>. QED
      BY <1>2, <3>1
  <2>2. n + 1 \in Int /\ m \in Int
    BY <1>4, Bounds
  <2>. QED
    BY <1>4, <2>1, <2>2, SubSeqProperties
<1>6. DOMAIN t = 1 .. Len(t) /\ Len(t) \in Nat
  BY <1>5, LineNumbers
<1>7. n + Len(t) \in 0 .. MaxLines /\ (Len(t) = 0 \/ n + Len(t) <= Len(s))
  BY <1>1, <1>3, <1>4, <1>5, Bounds
<1>8. \A k \in DOMAIN t : n + k \in DOMAIN s /\ t[k] = s[n + k]
  <2>. SUFFICES ASSUME NEW k \in DOMAIN t PROVE n + k \in DOMAIN s /\ t[k] = s[n + k]
    OBVIOUS
  <2>1. k \in 1 .. m - (n + 1) + 1 /\ n + k \in 1 .. Len(s) /\ n + 1 + k - 1 = n + k
    BY <1>1, <1>3, <1>4, <1>5, <1>6, Bounds
  <2>. QED
    BY <1>2, <1>5, <2>1
<1>. QED
  BY <1>5, <1>7, <1>8 DEF s, t

\* A head hash is of lines of the file; of all that was consumed of a short one.
LEMMA HashOfHead ==
  ASSUME DiskOK, NEW p \in Paths, at[p] # None, NEW n \in Nat
  PROVE  /\ HeadHash(p, n) \in Seq(Line)
         /\ n <= Len(File(p).lines) =>
              HeadHash(p, n) = SubSeq(File(p).lines, 1, IF n < Fingerprint THEN n ELSE Fingerprint)
<1> DEFINE s == File(p).lines
           m == Min({n, Fingerprint, Len(s)})
<1>1. s \in Seq(Line) /\ Len(s) \in Nat /\ DOMAIN s = 1 .. Len(s) /\ \A k \in DOMAIN s : s[k] \in Line
  BY ReadableLog, LineNumbers
<1>2. m \in {n, Fingerprint, Len(s)} /\ m <= n /\ m <= Fingerprint /\ m <= Len(s)
  BY <1>1, Bounds, Least3
<1>3. m \in Nat /\ HeadHash(p, n) = SubSeq(s, 1, m)
  BY <1>1, <1>2, Bounds DEF HeadHash
<1> HIDE DEF s, m
<1>4. SubSeq(s, 1, m) \in Seq(Line)
  <2>1. ASSUME NEW k \in 1 .. m PROVE s[k] \in Line
    <3>1. Len(s) \in Nat /\ m \in Nat /\ m <= Len(s)
      BY <1>1, <1>2, <1>3
    <3>2. k \in 1 .. Len(s)
      BY <3>1
    <3>. QED
      BY <1>1, <3>2
  <2>2. 1 \in Int /\ m \in Int
    BY <1>3
  <2>. QED
    BY <2>1, <2>2, SubSeqProperties
<1>5. ASSUME n <= Len(s) PROVE m = (IF n < Fingerprint THEN n ELSE Fingerprint)
  <2>1. n \in Nat /\ Fingerprint \in Nat /\ Len(s) \in Nat
    BY <1>1, Bounds
  <2>2. CASE n < Fingerprint
    BY <1>2, <1>5, <2>1, <2>2
  <2>3. CASE ~(n < Fingerprint)
    BY <1>2, <1>5, <2>1, <2>3
  <2>. QED
    BY <2>2, <2>3
<1>. QED
  BY <1>3, <1>4, <1>5 DEF s

\* The row that a file resumes is a row of its path, the newest one.
LEMMA NewestOfPath ==
  ASSUME sources \in Seq(Source), NEW p
  PROVE  /\ NewestRow(p) \in 0 .. Len(sources)
         /\ NewestRow(p) # 0 => NewestRow(p) \in DOMAIN sources /\ sources[NewestRow(p)].path = p
         /\ \A i \in DOMAIN sources : sources[i].path = p => i <= NewestRow(p)
<1> DEFINE S == {0} \cup {i \in DOMAIN sources : sources[i].path = p}
<1>1. Len(sources) \in Nat /\ DOMAIN sources = 1 .. Len(sources)
  OBVIOUS
<1>2. S \in SUBSET (0 .. Len(sources)) /\ S # {}
  BY <1>1
<1>3. Max(S) \in S /\ \A i \in S : i <= Max(S)
  <2>1. IsFiniteSet(0 .. Len(sources))
    BY <1>1, FS_Interval
  <2>2. S \in SUBSET Nat
    BY <1>1, <1>2
  <2> HIDE DEF S
  <2>3. IsFiniteSet(S)
    BY <1>2, <2>1, FS_Subset
  <2>. QED
    BY <1>2, <2>2, <2>3, Greatest
<1>4. Max(S) = NewestRow(p)
  BY DEF NewestRow
<1>. QED
  BY <1>1, <1>3, <1>4

\* The ids that SQLite gives to new entries.
LEMMA IdsGiven ==
  ASSUME sources \in Seq(Source), NEW n \in Nat
  PROVE  NewIds(n) \in Seq(Nat) /\ Len(NewIds(n)) = n
<1> DEFINE I == DOMAIN sources
           f == [i \in I |-> ToSet(sources[i].ids)]
           K == {ToSet(sources[i].ids) : i \in I}
           S == {0} \cup UNION K
<1>1. IsFiniteSet(I)
  <2>1. Len(sources) \in Nat /\ I = 1 .. Len(sources)
    OBVIOUS
  <2>. QED
    BY <2>1, FS_Interval
<1>2. \A i \in I : IsFiniteSet(ToSet(sources[i].ids)) /\ ToSet(sources[i].ids) \subseteq Nat
  <2>. SUFFICES ASSUME NEW i \in I
                PROVE  IsFiniteSet(ToSet(sources[i].ids)) /\ ToSet(sources[i].ids) \subseteq Nat
    OBVIOUS
  <2>1. sources[i] \in Source
    OBVIOUS
  <2>2. sources[i].ids \in Seq(Nat)
    BY <2>1 DEF Source
  <2>. QED
    BY <2>2, FiniteRange
<1>3. IsFiniteSet(K)
  <2>1. f \in Surjection(I, K)
    BY DEF Surjection
  <2>. QED
    BY <1>1, <2>1, FS_Surjection
<1>4. IsFiniteSet(S) /\ S \in SUBSET Nat /\ S # {}
  <2>1. IsFiniteSet(UNION K) /\ UNION K \subseteq Nat
    BY <1>2, <1>3, FS_UNION
  <2> HIDE DEF K
  <2>2. IsFiniteSet({0})
    BY FS_Singleton
  <2>3. IsFiniteSet({0} \cup UNION K)
    BY <2>1, <2>2, FS_Union
  <2>. QED
    BY <2>1, <2>3
<1>5. Max(S) \in Nat
  <2> HIDE DEF S
  <2>1. Max(S) \in S
    BY <1>4, Greatest
  <2>. QED
    BY <1>4, <2>1
<1>6. NewIds(n) = [k \in 1 .. n |-> Max(S) + k]
  BY DEF NewIds
<1>. QED
  BY <1>5, <1>6

-----------------------------------------------------------------------------
(* The database and its workers *)

Stages == {"idle", "stat", "begin", "read", "commit", "begin_gz", "read_gz", "prune",
           "delete", "again", "sweep", "over"}

\* Each entry has an id.
Paired(s) == Len(s.ids) = Len(s.got)

DbTyped ==
  /\ sources \in Seq(Source) /\ \A i \in DOMAIN sources : Paired(sources[i])
  /\ writer \in Workers \cup {None}
  /\ pc \in [Workers -> Stages]
  /\ todo \in [Workers -> SUBSET Paths]
  /\ job \in [Workers -> Job]

\* A worker in the middle of a transaction.
Within(w) == pc[w] \in {"read", "commit", "read_gz"}

\* What it resumes is still the row that it read, at the offset that it read.
Resumes(j) ==
  \/ j.row = 0 /\ j.start = 0
  \/ /\ j.row \in DOMAIN sources
     /\ sources[j.row].path = j.path /\ sources[j.row].offset = j.start

Working(w) ==
  /\ Within(w) => writer = w
  /\ pc[w] \in {"begin", "read", "commit"} => job[w].path \in {Live, Old} /\ job[w].ino \in Inodes
  /\ pc[w] \in {"begin_gz", "read_gz"} => job[w].ino \in Inodes /\ at[Gz] # None
  /\ pc[w] \in {"read", "commit"} => Resumes(job[w])
  /\ pc[w] = "commit" => job[w].start + Len(job[w].lines) \in 0..MaxLines

IndexOK == DiskOK /\ DbTyped /\ \A w \in Workers : Working(w)

\* What is left: the losses of the process, the ids in hand, and the history.
Lossy == /\ crashes \in 0..MaxCrashes
         /\ picked \in [Workers -> SUBSET Nat]
         /\ swapped \subseteq Workers /\ lost \subseteq Line

LEMMA JobType ==
  /\ NoJob \in Job
  /\ NoJob.path = None /\ NoJob.row = 0 /\ NoJob.start = 0 /\ NoJob.lines = <<>>
<1>1. <<>> \in Seq(Line)
  OBVIOUS
<1>. QED
  BY <1>1, Bounds DEF NoJob, Job

\* No other worker's transaction sees a step of w.
Apart(w) == \A v \in Workers \ {w} :
  /\ pc'[v] = pc[v] /\ todo'[v] = todo[v] /\ job'[v] = job[v]
  /\ Within(v) => sources' = sources /\ writer' = writer

\* The end of a file, or of a pass, leaves the worker with nothing in hand.
LEMMA Onward ==
  ASSUME DbTyped, NEW w \in Workers,
         NextFile(w) \/ EndPass(w) \/ \E files \in SUBSET Paths : Take(w, files)
  PROVE  /\ pc' \in [Workers -> Stages] /\ todo' \in [Workers -> SUBSET Paths]
         /\ job' \in [Workers -> Job]
         /\ pc'[w] \in {"idle", "over", "prune", "stat"} /\ job'[w] = NoJob
         /\ w \in Refills => pc'[w] # "idle"
         /\ \A v \in Workers \ {w} : pc'[v] = pc[v] /\ todo'[v] = todo[v] /\ job'[v] = job[v]
<1>1. pc \in [Workers -> Stages] /\ todo \in [Workers -> SUBSET Paths] /\ job \in [Workers -> Job]
  BY DEF DbTyped
<1>2. ASSUME NEW files \in SUBSET Paths, Take(w, files)
      PROVE  /\ pc' = [pc EXCEPT ![w] = IF files = {} THEN "prune" ELSE "stat"]
             /\ todo' = [todo EXCEPT ![w] = files] /\ job' = [job EXCEPT ![w] = NoJob]
  BY <1>2 DEF Take
<1>3. CASE EndPass(w)
  BY <1>1, <1>3, JobType, Bounds DEF EndPass, Stages
<1>4. CASE \E files \in SUBSET Paths : Take(w, files)
  BY <1>1, <1>2, <1>4, JobType DEF Stages
<1>5. CASE NextFile(w)
  <2>1. todo[w] \ {job[w].path} \in SUBSET Paths
    BY <1>1
  <2>. QED
    BY <1>4, <1>5, <2>1 DEF NextFile
<1>. QED
  BY <1>3, <1>4, <1>5

\* A rollback by whoever may hold the lock.
LEMMA RolledBack ==
  ASSUME DbTyped, NEW w \in Workers, Rollback(w), UNCHANGED <<disk, crashes>>,
         \A v \in Workers \ {w} : Working(v), writer \in {None, w}
  PROVE  DbTyped' /\ Working(w)' /\ Apart(w) /\ UNCHANGED sources
<1>1. NextFile(w) /\ writer' = None /\ sources' = sources
  BY DEF Rollback
<1>2. /\ pc' \in [Workers -> Stages] /\ todo' \in [Workers -> SUBSET Paths]
      /\ job' \in [Workers -> Job] /\ pc'[w] \in {"idle", "over", "prune", "stat"}
      /\ \A v \in Workers \ {w} : pc'[v] = pc[v] /\ todo'[v] = todo[v] /\ job'[v] = job[v]
  BY <1>1, Onward
<1>3. DbTyped' /\ Working(w)'
  BY <1>1, <1>2 DEF DbTyped, Working, Within
<1>4. \A v \in Workers \ {w} : ~Within(v)
  BY Bounds DEF Working
<1>. QED
  BY <1>1, <1>2, <1>3, <1>4 DEF Apart

\* The two row operations of a commit keep the type of the table.
LEMMA StoredRows ==
  ASSUME IndexOK, NEW w \in Workers, pc[w] = "commit", at[job[w].path] # None
  PROVE  LET j == job[w]
             n == j.start + Len(j.lines)
             h == HeadHash(j.path, n) IN
         /\ j.path \in {Live, Old} /\ n \in 0 .. MaxLines /\ h \in Seq(Line)
         /\ j.lines \in Seq(Line) /\ j.ino \in Inodes
         /\ [path |-> j.path, ino |-> j.ino, hash |-> h, offset |-> n, complete |-> FALSE,
             got |-> j.lines, ids |-> NewIds(Len(j.lines)), mixed |-> w \in swapped] \in Source
         /\ Len(NewIds(Len(j.lines))) = Len(j.lines)
         /\ j.row # 0 => /\ j.row \in DOMAIN sources /\ sources[j.row] \in Source
                         /\ [sources[j.row] EXCEPT !.hash = h, !.offset = n, !.got = @ \o j.lines,
                                                   !.ids = @ \o NewIds(Len(j.lines)),
                                                   !.mixed = @ \/ w \in swapped]
                              \in Source
                         /\ Len(sources[j.row].ids \o NewIds(Len(j.lines)))
                              = Len(sources[j.row].got \o j.lines)
<1> DEFINE j == job[w]
           n == j.start + Len(j.lines)
           h == HeadHash(j.path, n)
<1>1. j \in Job /\ j.path \in {Live, Old} /\ j.ino \in Inodes /\ n \in 0 .. MaxLines /\ Resumes(j)
  BY DEF IndexOK, DbTyped, Working
<1>2. j.lines \in Seq(Line) /\ h \in Seq(Line) /\ j.path \in Paths
  <2>1. j.lines \in Seq(Line) /\ j.path \in Paths /\ n \in Nat
    BY <1>1, ThreePaths, Bounds DEF Job
  <2>. QED
    BY <2>1, HashOfHead DEF IndexOK
<1> DEFINE ids == NewIds(Len(j.lines))
<1>3. ids \in Seq(Nat) /\ Len(ids) = Len(j.lines)
  <2>1. sources \in Seq(Source) /\ Len(j.lines) \in Nat
    BY <1>2 DEF IndexOK, DbTyped
  <2>. QED
    BY <2>1, IdsGiven
<1> HIDE DEF j, n, h, ids
<1>4. [path |-> j.path, ino |-> j.ino, hash |-> h, offset |-> n, complete |-> FALSE,
       got |-> j.lines, ids |-> ids, mixed |-> w \in swapped] \in Source
  BY <1>1, <1>2, <1>3 DEF Source
<1>5. ASSUME j.row # 0
      PROVE  /\ j.row \in DOMAIN sources /\ sources[j.row] \in Source
             /\ [sources[j.row] EXCEPT !.hash = h, !.offset = n, !.got = @ \o j.lines,
                                       !.ids = @ \o ids, !.mixed = @ \/ w \in swapped] \in Source
             /\ Len(sources[j.row].ids \o ids) = Len(sources[j.row].got \o j.lines)
  <2>1. j.row \in DOMAIN sources /\ sources[j.row] \in Source /\ Paired(sources[j.row])
    BY <1>1, <1>5 DEF Resumes, IndexOK, DbTyped
  <2>2. sources[j.row].got \in Seq(Line) /\ sources[j.row].ids \in Seq(Nat)
        /\ sources[j.row].mixed \in BOOLEAN
    BY <2>1 DEF Source
  <2>3. /\ sources[j.row].got \o j.lines \in Seq(Line)
        /\ Len(sources[j.row].got \o j.lines) = Len(sources[j.row].got) + Len(j.lines)
    BY <1>2, <2>2, ConcatProperties
  <2>4. /\ sources[j.row].ids \o ids \in Seq(Nat)
        /\ Len(sources[j.row].ids \o ids) = Len(sources[j.row].ids) + Len(ids)
    BY <1>3, <2>2, ConcatProperties
  <2>5. (sources[j.row].mixed \/ w \in swapped) \in BOOLEAN
    BY Zenon
  <2>. QED
    BY <1>1, <1>2, <1>3, <2>1, <2>3, <2>4, <2>5 DEF Source, Paired
<1>. QED
  BY <1>1, <1>2, <1>3, <1>4, <1>5 DEF j, n, h, ids

\* Pruning drops entries and nothing else, and keeps the order of the rest.
LEMMA WithoutRow ==
  ASSUME NEW s \in Source, Paired(s), NEW ids
  PROVE  /\ Without(s, ids) \in Source /\ Paired(Without(s, ids))
         /\ \A f \in {"path", "ino", "hash", "offset", "complete", "mixed"} : Without(s, ids)[f] = s[f]
         /\ \A n \in DOMAIN Without(s, ids).got :
              \E i \in DOMAIN s.got : Without(s, ids).got[n] = s.got[i]
         /\ \A i \in DOMAIN s.got : s.ids[i] \notin ids =>
              \E n \in DOMAIN Without(s, ids).got : Without(s, ids).got[n] = s.got[i]
         /\ Increasing(s.got) => Increasing(Without(s, ids).got)
<1> DEFINE I == {n \in DOMAIN s.ids : s.ids[n] \notin ids}
           t == s.got
           u == s.ids
           kept == Kept(t, I)
           left == Kept(u, I)
<1>1. t \in Seq(Line) /\ u \in Seq(Nat) /\ DOMAIN t = DOMAIN u
      /\ I \in SUBSET (DOMAIN t) /\ I \in SUBSET (DOMAIN u)
  BY DEF Source, Paired
<1>2. Without(s, ids) = [s EXCEPT !.got = kept, !.ids = left]
  BY DEF Without, Source
<1>3. Len(left) = Len(kept)
  <2>1. Cardinality(I) \in Nat
    <3>1. Len(u) \in Nat /\ DOMAIN u = 1 .. Len(u)
      BY <1>1
    <3>2. IsFiniteSet(DOMAIN u)
      BY <3>1, FS_Interval
    <3> HIDE DEF I, t, u
    <3>3. IsFiniteSet(I)
      BY <1>1, <3>2, FS_Subset
    <3>. QED
      BY <3>3, FS_CardinalityType
  <2> HIDE DEF I, t, u
  <2>. QED
    BY <2>1 DEF Kept
<1> HIDE DEF I, t, u
<1>4. /\ kept \in Seq(Line)
      /\ \A n \in DOMAIN kept : \E i \in I : kept[n] = t[i]
      /\ \A m, n \in DOMAIN kept : m < n =>
           \E i, j \in I : i < j /\ kept[m] = t[i] /\ kept[n] = t[j]
      /\ \A i \in I : \E n \in DOMAIN kept : kept[n] = t[i]
  BY <1>1, KeptRows, Zenon
<1>5. left \in Seq(Nat)
  BY <1>1, KeptRows, Zenon
<1> HIDE DEF kept, left
<1>6. Without(s, ids) \in Source /\ Without(s, ids).got = kept /\ Without(s, ids).ids = left
      /\ \A f \in {"path", "ino", "hash", "offset", "complete", "mixed"} : Without(s, ids)[f] = s[f]
  BY <1>2, <1>4, <1>5 DEF Source
<1>7. Increasing(t) => Increasing(kept)
  BY <1>1, <1>4 DEF Increasing
<1>8. \A i \in DOMAIN s.got : s.ids[i] \notin ids => i \in I
  BY <1>1 DEF I, t, u
<1>. QED
  BY <1>1, <1>3, <1>4, <1>6, <1>7, <1>8 DEF t, Paired

\* No step but Kea's and logrotate's, and a crash, disturbs another worker.
LEMMA WorkerStep ==
  ASSUME IndexOK, NEW w \in Workers, Ingest(w) \/ Reindex(w)
  PROVE  DbTyped' /\ Working(w)' /\ Apart(w) /\ UNCHANGED <<disk, crashes>>
<1>1. /\ DbTyped /\ Working(w) /\ \A v \in Workers \ {w} : Working(v)
      /\ sources \in Seq(Source) /\ writer \in Workers \cup {None} /\ pc \in [Workers -> Stages]
      /\ todo \in [Workers -> SUBSET Paths] /\ job \in [Workers -> Job]
  BY DEF IndexOK, DbTyped
<1>2. (writer = None \/ writer = w) => \A v \in Workers \ {w} : ~Within(v)
  BY <1>1, Bounds DEF Working
<1>3. Siblings \cup {Live} \in SUBSET Paths
  BY ThreePaths DEF Siblings
<1>4. CASE StartPass(w)
  <2>1. Take(w, Siblings \cup {Live}) /\ UNCHANGED <<disk, sources, writer, crashes>>
    BY <1>4 DEF StartPass, Aside
  <2>2. /\ pc' \in [Workers -> Stages] /\ todo' \in [Workers -> SUBSET Paths]
        /\ job' \in [Workers -> Job] /\ pc'[w] \in {"idle", "over", "prune", "stat"}
        /\ \A v \in Workers \ {w} : pc'[v] = pc[v] /\ todo'[v] = todo[v] /\ job'[v] = job[v]
    BY <1>1, <1>3, <2>1, Onward
  <2>. QED
    BY <1>1, <2>1, <2>2 DEF DbTyped, Working, Within, Apart
<1>5. CASE Reindex(w)
  <2>1. Take(w, Siblings \cup {Live}) /\ UNCHANGED <<disk, writer, crashes>> /\ sources' = <<>> /\ writer = None
    BY <1>5 DEF Reindex, Aside
  <2>2. /\ pc' \in [Workers -> Stages] /\ todo' \in [Workers -> SUBSET Paths]
        /\ job' \in [Workers -> Job] /\ pc'[w] \in {"idle", "over", "prune", "stat"}
        /\ \A v \in Workers \ {w} : pc'[v] = pc[v] /\ todo'[v] = todo[v] /\ job'[v] = job[v]
    BY <1>1, <1>3, <2>1, Onward
  <2>3. <<>> \in Seq(Source)
    OBVIOUS
  <2>. QED
    BY <1>1, <1>2, <2>1, <2>2, <2>3 DEF DbTyped, Working, Within, Apart
<1>6. CASE Stat(w)
  <2>1. PICK p \in Upcoming(w) :
          \/ /\ at[p] # None
             /\ job' = [job EXCEPT ![w] = [NoJob EXCEPT !.path = p, !.ino = at[p], !.size = Size(File(p))]]
             /\ pc' = [pc EXCEPT ![w] = IF p = Gz THEN "begin_gz" ELSE "begin"]
             /\ UNCHANGED todo
          \/ /\ at[p] = None
             /\ Take(w, todo[w] \ {p})
    BY <1>6 DEF Stat, Aside
  <2>2. UNCHANGED <<disk, sources, writer, crashes>>
    BY <1>6 DEF Stat, Aside
  <2>3. p \in Paths
    BY <1>1, <2>1, ThreePaths DEF Upcoming
  <2>4. CASE at[p] = None
    <3>1. Take(w, todo[w] \ {p}) /\ todo[w] \ {p} \in SUBSET Paths
      BY <1>1, <2>1, <2>4
    <3>2. /\ pc' \in [Workers -> Stages] /\ todo' \in [Workers -> SUBSET Paths]
          /\ job' \in [Workers -> Job] /\ pc'[w] \in {"idle", "over", "prune", "stat"}
          /\ \A v \in Workers \ {w} : pc'[v] = pc[v] /\ todo'[v] = todo[v] /\ job'[v] = job[v]
      BY <1>1, <3>1, Onward
    <3>. QED
      BY <1>1, <2>2, <3>2 DEF DbTyped, Working, Within, Apart
  <2>5. CASE at[p] # None
    <3>1. at[p] \in Inodes /\ Size(File(p)) \in 0 .. 2 * MaxLines + 1
      <4>1. /\ at[p] \in Inodes /\ Len(File(p).lines) \in 0 .. MaxLines
            /\ Size(File(p)) \in 2 * Len(File(p).lines) .. 2 * MaxLines + 1
        BY <2>3, <2>5, ReadableLog DEF IndexOK
      <4>. QED
        BY <4>1, Bounds
    <3>2. [NoJob EXCEPT !.path = p, !.ino = at[p], !.size = Size(File(p))] \in Job
      BY <2>3, <3>1, JobType DEF Job
    <3>3. /\ job' = [job EXCEPT ![w] = [NoJob EXCEPT !.path = p, !.ino = at[p], !.size = Size(File(p))]]
          /\ pc' = [pc EXCEPT ![w] = IF p = Gz THEN "begin_gz" ELSE "begin"]
          /\ todo' = todo
      BY <2>1, <2>5
    <3>4. /\ job' \in [Workers -> Job] /\ pc' \in [Workers -> Stages]
          /\ job'[w].path = p /\ job'[w].ino = at[p]
          /\ \A v \in Workers \ {w} : pc'[v] = pc[v] /\ job'[v] = job[v]
      BY <1>1, <3>2, <3>3 DEF Stages, NoJob
    <3>5. CASE p = Gz
      <4>1. pc'[w] = "begin_gz"
        BY <1>1, <3>3, <3>5
      <4>. QED
        BY <1>1, <2>2, <2>5, <3>1, <3>3, <3>4, <3>5, <4>1 DEF DbTyped, Working, Within, Apart, disk
    <3>6. CASE p # Gz
      <4>1. pc'[w] = "begin" /\ p \in {Live, Old}
        BY <1>1, <2>3, <3>3, <3>6, ThreePaths
      <4>. QED
        BY <1>1, <2>2, <3>1, <3>3, <3>4, <4>1 DEF DbTyped, Working, Within, Apart
    <3>. QED
      BY <3>5, <3>6
  <2>. QED
    BY <2>4, <2>5
<1>7. CASE Resume(w)
  <2> DEFINE p == job[w].path
             r == IF SameFile(p, job[w].ino, job[w].size) THEN NewestRow(p) ELSE 0
             n == IF r = 0 THEN 0 ELSE sources[r].offset
  <2>1. pc[w] = "begin" /\ writer = None /\ UNCHANGED <<disk, crashes>>
    BY <1>7 DEF Resume, Aside
  <2>2. \/ Rollback(w)
        \/ /\ writer' = w
           /\ job' = [job EXCEPT ![w] = [job[w] EXCEPT !.row = r, !.start = n, !.size = 0]]
           /\ pc' = [pc EXCEPT ![w] = "read"]
           /\ UNCHANGED <<sources, todo>>
    BY <1>1, <1>7 DEF Resume, Aside, Job
  <2>3. CASE Rollback(w)
    BY <1>1, <2>1, <2>3, RolledBack
  <2>4. CASE /\ writer' = w
             /\ job' = [job EXCEPT ![w] = [job[w] EXCEPT !.row = r, !.start = n, !.size = 0]]
             /\ pc' = [pc EXCEPT ![w] = "read"]
             /\ UNCHANGED <<sources, todo>>
    <3>1. p \in {Live, Old} /\ job[w].ino \in Inodes
      BY <1>1, <2>1 DEF Working
    <3>2. \/ r = 0 /\ n = 0
          \/ r \in DOMAIN sources /\ sources[r].path = p /\ n = sources[r].offset
      BY <1>1, NewestOfPath
    <3>3. r \in Nat /\ n \in 0 .. MaxLines
      <4>1. ASSUME NEW i \in DOMAIN sources PROVE i \in Nat /\ sources[i].offset \in 0 .. MaxLines
        <5>1. i \in Nat /\ sources[i] \in Source
          BY <1>1
        <5>. QED
          BY <5>1 DEF Source
      <4> HIDE DEF r, n
      <4>. QED
        BY <3>2, <4>1, Bounds
    <3> HIDE DEF r, n
    <3>4. [job[w] EXCEPT !.row = r, !.start = n, !.size = 0] \in Job
      <4>1. job[w] \in Job /\ 0 \in 0 .. 2 * MaxLines + 1
        BY <1>1, Bounds
      <4>. QED
        BY <3>3, <4>1 DEF Job
    <3>5. /\ job' \in [Workers -> Job] /\ pc' \in [Workers -> Stages] /\ pc'[w] = "read"
          /\ job'[w].path = p /\ job'[w].ino = job[w].ino /\ job'[w].row = r /\ job'[w].start = n
          /\ \A v \in Workers \ {w} : pc'[v] = pc[v] /\ job'[v] = job[v]
      BY <1>1, <2>4, <3>4 DEF Stages, Job
    <3>6. Resumes(job[w])'
      BY <2>4, <3>2, <3>5 DEF Resumes
    <3>7. DbTyped' /\ Working(w)'
      BY <1>1, <2>4, <3>1, <3>5, <3>6 DEF DbTyped, Working, Within
    <3>. QED
      BY <1>2, <2>1, <2>4, <3>5, <3>7 DEF Apart
  <2>. QED
    BY <2>2, <2>3, <2>4
<1>8. CASE Read(w)
  <2>1. pc[w] = "read" /\ UNCHANGED <<disk, crashes>>
    BY <1>8 DEF Read, Aside
  <2>2. \/ Rollback(w)
        \/ /\ at[job[w].path] # None
           /\ job' = [job EXCEPT ![w] = [job[w] EXCEPT !.lines = WholeLines(job[w].path, job[w].start)]]
           /\ pc' = [pc EXCEPT ![w] = "commit"]
           /\ UNCHANGED <<sources, writer, todo>>
    BY <1>1, <1>8 DEF Read, Aside, Job
  <2>3. /\ writer = w /\ job[w].path \in {Live, Old} /\ job[w].ino \in Inodes /\ Resumes(job[w])
        /\ job[w].start \in 0 .. MaxLines /\ job[w] \in Job /\ job[w].path \in Paths
    BY <1>1, <2>1, ThreePaths DEF Working, Within, Job
  <2>4. CASE Rollback(w)
    BY <1>1, <2>1, <2>3, <2>4, RolledBack
  <2>5. CASE /\ at[job[w].path] # None
             /\ job' = [job EXCEPT ![w] = [job[w] EXCEPT !.lines = WholeLines(job[w].path, job[w].start)]]
             /\ pc' = [pc EXCEPT ![w] = "commit"]
             /\ UNCHANGED <<sources, writer, todo>>
    <3> DEFINE t == WholeLines(job[w].path, job[w].start)
    <3>1. t \in Seq(Line) /\ job[w].start + Len(t) \in 0 .. MaxLines
      BY <2>3, <2>5, BatchOfLines DEF IndexOK
    <3> HIDE DEF t
    <3>2. job' = [job EXCEPT ![w] = [job[w] EXCEPT !.lines = t]]
      BY <2>5 DEF t
    <3>3. /\ job' \in [Workers -> Job] /\ pc' \in [Workers -> Stages] /\ pc'[w] = "commit"
          /\ job'[w].path = job[w].path /\ job'[w].ino = job[w].ino /\ job'[w].row = job[w].row
          /\ job'[w].start = job[w].start /\ job'[w].lines = t
          /\ \A v \in Workers \ {w} : pc'[v] = pc[v] /\ job'[v] = job[v]
      <4>1. [job[w] EXCEPT !.lines = t] \in Job
        BY <2>3, <3>1 DEF Job
      <4>2. job'[w] = [job[w] EXCEPT !.lines = t]
        BY <1>1, <3>2
      <4>3. /\ job' \in [Workers -> Job] /\ pc' \in [Workers -> Stages] /\ pc'[w] = "commit"
            /\ \A v \in Workers \ {w} : pc'[v] = pc[v] /\ job'[v] = job[v]
        BY <1>1, <2>5, <3>2, <4>1 DEF Stages
      <4>. QED
        BY <2>3, <4>2, <4>3 DEF Job
    <3>4. Resumes(job[w])'
      BY <2>3, <2>5, <3>3 DEF Resumes
    <3>5. DbTyped' /\ Working(w)'
      BY <1>1, <2>3, <2>5, <3>1, <3>3, <3>4 DEF DbTyped, Working, Within
    <3>. QED
      BY <1>2, <2>1, <2>5, <3>3, <3>5 DEF Apart
  <2>. QED
    BY <2>2, <2>4, <2>5
<1>9. CASE Commit(w)
  <2> DEFINE j == job[w]
             n == j.start + Len(j.lines)
             h == HeadHash(j.path, n)
             fresh == [path |-> j.path, ino |-> j.ino, hash |-> h, offset |-> n,
                       complete |-> FALSE, got |-> j.lines, ids |-> NewIds(Len(j.lines)),
                       mixed |-> w \in swapped]
             longer == [sources[j.row] EXCEPT !.hash = h, !.offset = n, !.got = @ \o j.lines,
                                              !.ids = @ \o NewIds(Len(j.lines)),
                                              !.mixed = @ \/ w \in swapped]
  <2>1. pc[w] = "commit" /\ writer = w /\ UNCHANGED <<disk, crashes>>
    BY <1>1, <1>9 DEF Commit, Aside, Working, Within
  <2>2. CASE at[j.path] = None
    <3>1. Rollback(w)
      BY <1>9, <2>2 DEF Commit, Aside
    <3>. QED
      BY <1>1, <2>1, <3>1, RolledBack
  <2>3. CASE at[j.path] # None
    <3>1. /\ fresh \in Source
          /\ Len(fresh.ids) = Len(fresh.got)
          /\ j.row # 0 => /\ j.row \in DOMAIN sources /\ sources[j.row] \in Source /\ longer \in Source
                          /\ Len(longer.ids) = Len(longer.got)
      <4>1. /\ fresh \in Source /\ Len(NewIds(Len(j.lines))) = Len(j.lines)
            /\ j.row # 0 => /\ j.row \in DOMAIN sources /\ sources[j.row] \in Source /\ longer \in Source
                            /\ Len(sources[j.row].ids \o NewIds(Len(j.lines)))
                                 = Len(sources[j.row].got \o j.lines)
        BY <2>1, <2>3, StoredRows
      <4>2. \A s \in Source : /\ [s EXCEPT !.hash = h, !.offset = n, !.got = @ \o j.lines,
                                       !.ids = @ \o NewIds(Len(j.lines)), !.mixed = @ \/ w \in swapped].got
                                   = s.got \o j.lines
                              /\ [s EXCEPT !.hash = h, !.offset = n, !.got = @ \o j.lines,
                                       !.ids = @ \o NewIds(Len(j.lines)), !.mixed = @ \/ w \in swapped].ids
                                   = s.ids \o NewIds(Len(j.lines))
        BY DEF Source
      <4>. QED
        BY <4>1, <4>2
    <3>2. /\ \/ j.row = 0 /\ sources' = Append(sources, fresh)
             \/ j.row # 0 /\ sources' = [sources EXCEPT ![j.row] = longer]
          /\ writer' = None /\ NextFile(w)
      BY <1>9, <2>3, <3>1 DEF Commit, Aside, Source
    <3> HIDE DEF fresh, longer
    <3>3. sources' \in Seq(Source) /\ \A i \in DOMAIN sources' : Paired(sources'[i])
      <4>1. CASE sources' = Append(sources, fresh)
        BY <1>1, <3>1, <4>1 DEF DbTyped, Paired
      <4>2. CASE j.row # 0 /\ sources' = [sources EXCEPT ![j.row] = longer]
        BY <1>1, <3>1, <4>2 DEF DbTyped, Paired
      <4>. QED
        BY <3>2, <4>1, <4>2
    <3>4. /\ pc' \in [Workers -> Stages] /\ todo' \in [Workers -> SUBSET Paths]
          /\ job' \in [Workers -> Job] /\ pc'[w] \in {"idle", "over", "prune", "stat"}
          /\ \A v \in Workers \ {w} : pc'[v] = pc[v] /\ todo'[v] = todo[v] /\ job'[v] = job[v]
      BY <1>1, <3>2, Onward
    <3>. QED
      BY <1>2, <2>1, <3>2, <3>3, <3>4 DEF DbTyped, Working, Within, Apart
  <2>. QED
    BY <2>2, <2>3
<1>10. CASE BeginGz(w)
  <2>1. pc[w] = "begin_gz" /\ writer = None /\ UNCHANGED <<disk, crashes>>
    BY <1>10 DEF BeginGz, Aside
  <2>2. \/ Rollback(w)
        \/ writer' = w /\ pc' = [pc EXCEPT ![w] = "read_gz"] /\ UNCHANGED <<sources, todo, job>>
    BY <1>10 DEF BeginGz, Aside
  <2>3. CASE Rollback(w)
    BY <1>1, <2>1, <2>3, RolledBack
  <2>4. CASE writer' = w /\ pc' = [pc EXCEPT ![w] = "read_gz"] /\ UNCHANGED <<sources, todo, job>>
    <3>1. pc' \in [Workers -> Stages] /\ pc'[w] = "read_gz" /\ \A v \in Workers \ {w} : pc'[v] = pc[v]
      BY <1>1, <2>4 DEF Stages
    <3>2. job[w].ino \in Inodes /\ at[Gz] # None
      BY <1>1, <2>1 DEF Working
    <3>. QED
      BY <1>1, <1>2, <2>1, <2>4, <3>1, <3>2 DEF DbTyped, Working, Within, Apart, disk
  <2>. QED
    BY <2>2, <2>3, <2>4
<1>11. CASE ReadGz(w)
  <2> DEFINE fresh == [path |-> Gz, ino |-> job[w].ino, hash |-> <<>>, offset |-> 0,
                       complete |-> TRUE, got |-> File(Gz).lines,
             ids |-> NewIds(Len(File(Gz).lines)), mixed |-> FALSE]
  <2>1. pc[w] = "read_gz" /\ writer = w /\ writer' = None /\ UNCHANGED <<disk, crashes>>
    BY <1>1, <1>11 DEF ReadGz, Aside, Working, Within
  <2>2. \/ sources' = Append(sources, fresh) /\ NextFile(w)
        \/ sources' = sources /\ EndPass(w)
    BY <1>11 DEF ReadGz, Aside
  <2>3. fresh \in Source /\ Paired(fresh)
    <3>1. at[Gz] # None /\ job[w].ino \in Inodes
      BY <1>1, <2>1 DEF Working
    <3>2. File(Gz).lines \in Seq(Line) /\ <<>> \in Seq(Line)
      BY <3>1, ReadableLog, ThreePaths DEF IndexOK
    <3> DEFINE ids == NewIds(Len(File(Gz).lines))
    <3>3. ids \in Seq(Nat) /\ Len(ids) = Len(File(Gz).lines)
      BY <1>1, <3>2, IdsGiven
    <3> HIDE DEF ids
    <3>. QED
      BY <3>1, <3>2, <3>3, ThreePaths, Bounds DEF Source, Paired, ids
  <2> HIDE DEF fresh
  <2>4. sources' \in Seq(Source) /\ \A i \in DOMAIN sources' : Paired(sources'[i])
    BY <1>1, <2>2, <2>3 DEF DbTyped
  <2>5. /\ pc' \in [Workers -> Stages] /\ todo' \in [Workers -> SUBSET Paths]
        /\ job' \in [Workers -> Job] /\ pc'[w] \in {"idle", "over", "prune", "stat"}
        /\ \A v \in Workers \ {w} : pc'[v] = pc[v] /\ todo'[v] = todo[v] /\ job'[v] = job[v]
    BY <1>1, <2>2, Onward
  <2>. QED
    BY <1>2, <2>1, <2>4, <2>5 DEF DbTyped, Working, Within, Apart
<1>12. CASE Pick(w)
  <2>1. /\ pc[w] \in {"prune", "again"} /\ UNCHANGED <<disk, sources, writer, crashes>>
        /\ \/ EndPass(w)
           \/ pc' = [pc EXCEPT ![w] = "sweep"] /\ UNCHANGED <<todo, job>>
           \/ pc' = [pc EXCEPT ![w] = "delete"] /\ UNCHANGED <<todo, job>>
    BY <1>12 DEF Pick
  <2>2. /\ pc' \in [Workers -> Stages] /\ todo' \in [Workers -> SUBSET Paths]
        /\ job' \in [Workers -> Job]
        /\ pc'[w] \in {"idle", "over", "prune", "stat", "sweep", "delete"}
        /\ \A v \in Workers \ {w} : pc'[v] = pc[v] /\ todo'[v] = todo[v] /\ job'[v] = job[v]
    <3>1. CASE EndPass(w)
      BY <1>1, <3>1, Onward
    <3>2. CASE \/ pc' = [pc EXCEPT ![w] = "sweep"] /\ UNCHANGED <<todo, job>>
               \/ pc' = [pc EXCEPT ![w] = "delete"] /\ UNCHANGED <<todo, job>>
      BY <1>1, <3>2 DEF Stages
    <3>. QED
      BY <2>1, <3>1, <3>2
  <2>. QED
    BY <1>1, <2>1, <2>2 DEF DbTyped, Working, Within, Apart
<1>14. CASE Delete(w)
  <2> DEFINE ids == picked[w]
             kept == [i \in DOMAIN sources |-> Without(sources[i], ids)]
  <2>1. /\ pc[w] = "delete" /\ writer = None /\ writer' = None /\ sources' = kept
        /\ pc' = [pc EXCEPT ![w] = "again"] /\ UNCHANGED <<disk, todo, job, crashes>>
    BY <1>14 DEF Delete
  <2>2. kept \in Seq(Source) /\ DOMAIN kept = DOMAIN sources
        /\ \A i \in DOMAIN kept : Paired(kept[i])
    <3>1. \A i \in DOMAIN sources : Without(sources[i], ids) \in Source /\ Paired(Without(sources[i], ids))
      BY <1>1, WithoutRow DEF DbTyped
    <3>2. Len(sources) \in Nat /\ DOMAIN sources = 1 .. Len(sources)
      BY <1>1
    <3>. QED
      BY <3>1, <3>2
  <2>3. /\ pc' \in [Workers -> Stages] /\ pc'[w] = "again"
        /\ \A v \in Workers \ {w} : pc'[v] = pc[v]
    BY <1>1, <2>1 DEF Stages
  <2> HIDE DEF kept
  <2>. QED
    BY <1>1, <1>2, <2>1, <2>2, <2>3 DEF DbTyped, Working, Within, Apart
<1>13. CASE Sweep(w)
  <2> DEFINE I == {i \in DOMAIN sources : ~(sources[i].complete /\ sources[i].got = <<>>)}
  <2>1. pc[w] = "sweep" /\ writer = None /\ writer' = None /\ sources' = Kept(sources, I)
        /\ EndPass(w) /\ UNCHANGED <<disk, crashes>>
    BY <1>13 DEF Sweep, Aside
  <2>2. sources' \in Seq(Source) /\ \A i \in DOMAIN sources' : Paired(sources'[i])
    <3>1. I \in SUBSET (DOMAIN sources)
      OBVIOUS
    <3> HIDE DEF I
    <3>2. /\ sources' \in Seq(Source)
          /\ \A n \in DOMAIN sources' : \E i \in I : sources'[n] = sources[i]
      BY <1>1, <2>1, <3>1, KeptRows
    <3>. QED
      BY <1>1, <3>1, <3>2 DEF DbTyped
  <2>3. /\ pc' \in [Workers -> Stages] /\ todo' \in [Workers -> SUBSET Paths]
        /\ job' \in [Workers -> Job] /\ pc'[w] \in {"idle", "over", "prune", "stat"}
        /\ \A v \in Workers \ {w} : pc'[v] = pc[v] /\ todo'[v] = todo[v] /\ job'[v] = job[v]
    BY <1>1, <2>1, Onward
  <2>. QED
    BY <1>2, <2>1, <2>2, <2>3 DEF DbTyped, Working, Within, Apart
<1>. QED
  BY <1>4, <1>5, <1>6, <1>7, <1>8, <1>9, <1>10, <1>11, <1>12, <1>13, <1>14 DEF Ingest

LEMMA InitOK == Init => IndexOK /\ Lossy
<1> SUFFICES ASSUME Init PROVE IndexOK /\ Lossy
  OBVIOUS
<1>1. PICK i \in Inodes : at = [p \in Paths |-> IF p = Live THEN i ELSE None] /\ kea = i
  BY DEF Init
<1>2. /\ data = [j \in Inodes |-> Blank] /\ written = 0 /\ rotations = 0 /\ gzip = FALSE
      /\ expired = 0 /\ crashes = 0 /\ picked = [w \in Workers |-> {}] /\ swapped = {} /\ lost = {}
      /\ sources = <<>> /\ writer = None /\ pc = [w \in Workers |-> "idle"]
      /\ todo = [w \in Workers |-> {}] /\ job = [w \in Workers |-> NoJob]
  BY DEF Init
<1>3. at[Live] = i /\ at[Old] = None /\ at[Gz] = None /\ at \in [Paths -> Inodes \cup {None}]
  BY <1>1, ThreePaths
<1>4. \A j \in Inodes : data[j] = Blank
  BY <1>2
<1>5. DiskTyped
  <2>1. data \in [Inodes -> FileType]
    BY <1>2, BlankFile
  <2>2. 0 \in 0 .. MaxLines /\ 0 \in 0 .. 0 /\ 0 \in 0 .. MaxRotations
    BY Bounds
  <2>. QED
    BY <1>1, <1>2, <1>3, <2>1, <2>2 DEF DiskTyped
<1>6. InOrder /\ OldFirst
  BY <1>2, <1>3, <1>4, BlankFile DEF InOrder, Increasing, OldFirst
<1>7. Logs
  BY <1>1, <1>2, <1>3, ThreePaths, Bounds DEF Logs
<1>8. DbTyped
  <2>1. <<>> \in Seq(Source) /\ "idle" \in Stages
    BY DEF Stages
  <2>. QED
    BY <1>2, <2>1, JobType DEF DbTyped
<1>9. \A w \in Workers : Working(w)
  BY <1>2 DEF Working, Within
<1>. QED
  BY <1>2, <1>5, <1>6, <1>7, <1>8, <1>9, Bounds DEF IndexOK, DiskOK, Lossy

\* An archive stays where gzip put it.
LEMMA ArchiveStays ==
  ASSUME DiskOK, Outside, at[Gz] # None
  PROVE  at'[Gz] # None
<1>1. at \in [Paths -> Inodes \cup {None}]
  BY DEF DiskOK, DiskTyped
<1>2. CASE WriteHalf \/ WriteLine \/ Reopen \/ GzipDies \/ Expire
  BY <1>2 DEF WriteHalf, WriteLine, Reopen, GzipDies, Expire
<1>3. CASE Rename
  BY <1>1, <1>3, ThreePaths DEF Rename
<1>4. CASE CopyTruncate
  BY <1>1, <1>4, ThreePaths DEF CopyTruncate
<1>5. CASE Compress
  BY <1>5 DEF Compress
<1>6. CASE Compressed
  BY <1>1, <1>6, ThreePaths DEF Compressed
<1>7. CASE Fill
  BY <1>7 DEF Fill
<1>. QED
  BY <1>2, <1>3, <1>4, <1>5, <1>6, <1>7 DEF Outside, OnDiskOnly

\* What a crash leaves of the workers.
LEMMA CrashedWorkers ==
  ASSUME DbTyped, Crash
  PROVE  /\ DbTyped' /\ \A w \in Workers : pc'[w] \in {"idle", "over"} /\ Working(w)'
         /\ UNCHANGED <<disk, sources>>
<1>1. /\ writer' = None /\ todo' = [w \in Workers |-> {}] /\ job' = [w \in Workers |-> NoJob]
      /\ pc' = [w \in Workers |-> IF w = Background \/ pc[w] = "idle" THEN "idle" ELSE "over"]
      /\ UNCHANGED <<disk, sources>>
  BY DEF Crash
<1>2. \A w \in Workers : pc'[w] \in {"idle", "over"}
  BY <1>1
<1>3. pc' \in [Workers -> Stages]
  BY <1>1 DEF Stages
<1>. QED
  BY <1>1, <1>2, <1>3, JobType DEF DbTyped, Working, Within

LEMMA IndexStep ==
  ASSUME IndexOK, Next
  PROVE  IndexOK'
<1>1. DiskOK /\ DbTyped /\ \A w \in Workers : Working(w)
  BY DEF IndexOK
<1>2. CASE Outside
  <2>1. UNCHANGED <<sources, writer, pc, todo, job>>
    BY <1>2 DEF Outside, OnDiskOnly
  <2>2. at[Gz] # None => at'[Gz] # None
    BY <1>1, <1>2, ArchiveStays
  <2>3. DiskOK'
    BY <1>1, <1>2, DiskStep
  <2>4. DbTyped'
    BY <1>1, <2>1 DEF DbTyped
  <2>5. \A w \in Workers : Working(w)'
    BY <1>1, <2>1, <2>2 DEF Working, Within, Resumes
  <2>. QED
    BY <2>3, <2>4, <2>5 DEF IndexOK
<1>3. ASSUME NEW w \in Workers, Ingest(w) \/ Reindex(w)
      PROVE  IndexOK'
  <2>1. DbTyped' /\ Working(w)' /\ Apart(w) /\ UNCHANGED <<disk, crashes>>
    BY <1>3, WorkerStep
  <2>2. UNCHANGED <<at, data, kea, written, rotations, gzip, expired>>
    BY <2>1 DEF disk
  <2>3. DiskOK'
    BY <1>1, <2>2 DEF DiskOK, DiskTyped, InOrder, OldFirst, Logs, File
  <2>4. ASSUME NEW v \in Workers, v # w PROVE Working(v)'
    <3>1. /\ pc'[v] = pc[v] /\ job'[v] = job[v]
          /\ (Within(v) => sources' = sources /\ writer' = writer)
      BY <2>1, <2>4 DEF Apart
    <3>. QED
      BY <1>1, <2>2, <3>1 DEF Working, Within, Resumes
  <2>. QED
    BY <2>1, <2>3, <2>4 DEF IndexOK
<1>4. CASE Crash
  <2>1. DbTyped' /\ (\A w \in Workers : Working(w)') /\ UNCHANGED <<disk, sources>>
    BY <1>1, <1>4, CrashedWorkers
  <2>2. DiskOK'
    BY <1>1, <2>1 DEF disk, DiskOK, DiskTyped, InOrder, OldFirst, Logs, File
  <2>. QED
    BY <2>1, <2>2 DEF IndexOK
<1>. QED
  BY <1>2, <1>3, <1>4 DEF Next

\* The ids that a prune picks are ids of entries.
LEMMA PickedIds ==
  ASSUME IndexOK, NEW e \in Stored
  PROVE  e[1] \in Nat /\ e[2] \in Line
<1>1. PICK i \in DOMAIN sources :
        \E n \in DOMAIN sources[i].got : e = <<sources[i].ids[n], sources[i].got[n]>>
  BY DEF Stored
<1>2. sources[i] \in Source /\ Paired(sources[i])
  BY DEF IndexOK, DbTyped
<1>3. sources[i].ids \in Seq(Nat) /\ sources[i].got \in Seq(Line)
      /\ DOMAIN sources[i].ids = DOMAIN sources[i].got
  BY <1>2 DEF Source, Paired
<1>4. PICK n \in DOMAIN sources[i].got : e = <<sources[i].ids[n], sources[i].got[n]>>
  BY <1>1
<1>. QED
  BY <1>3, <1>4

LEMMA LossyStep ==
  ASSUME IndexOK, Lossy, Next
  PROVE  Lossy'
<1>1. /\ crashes \in 0 .. MaxCrashes /\ picked \in [Workers -> SUBSET Nat]
      /\ swapped \subseteq Workers /\ lost \subseteq Line
  BY DEF Lossy
<1>2. CASE Outside
  <2>1. UNCHANGED <<crashes, picked, lost>> /\ Swaps
    BY <1>2 DEF Outside, OnDiskOnly
  <2>. QED
    BY <1>1, <2>1 DEF Lossy, Swaps
<1>3. ASSUME NEW w \in Workers, Ingest(w) \/ (Reindex(w) /\ Swaps)
      PROVE  Lossy'
  <2>1. crashes' = crashes /\ swapped' \subseteq Workers
    <3>1. Swaps
      BY <1>3 DEF Ingest
    <3>. QED
      BY <1>3, <3>1, WorkerStep DEF Swaps
  <2>2. CASE UNCHANGED <<picked, lost>>
    BY <1>1, <2>1, <2>2 DEF Lossy
  <2>3. CASE Reindex(w)
    BY <1>1, <2>1, <2>3 DEF Reindex, Aside, Lossy
  <2>4. CASE ReadGz(w)
    <3>1. Pending \subseteq Line
      <4>1. CASE gzip
        <5>1. at[Old] # None
          BY <4>1 DEF IndexOK, DiskOK, Logs
        <5>2. File(Old).lines \in Seq(Line)
          BY <5>1, ReadableLog, ThreePaths DEF IndexOK
        <5>. QED
          BY <5>2, FiniteRange DEF Pending
      <4>2. CASE ~gzip
        BY <4>2 DEF Pending
      <4>. QED
        BY <4>1, <4>2
    <3>2. /\ UNCHANGED picked
          /\ lost' = lost \/ lost' = lost \cup {l \in Pending : l > expired /\ Entries(l) = {}}
      BY <2>4 DEF ReadGz, Aside
    <3>. QED
      BY <1>1, <2>1, <3>1, <3>2 DEF Lossy
  <2>5. CASE Pick(w)
    <3> DEFINE old == {e[1] : e \in {d \in Stored : d[2] <= expired}}
    <3>1. old \subseteq Nat
      BY PickedIds
    <3>2. /\ UNCHANGED lost
          /\ picked' = picked \/ \E ids \in SUBSET old : picked' = [picked EXCEPT ![w] = ids]
      BY <2>5 DEF Pick
    <3> HIDE DEF old
    <3>. QED
      BY <1>1, <2>1, <3>1, <3>2 DEF Lossy
  <2>6. CASE Delete(w)
    <3>1. /\ picked' = [picked EXCEPT ![w] = {}]
          /\ lost' = lost \cup {l \in Line : l > expired /\ \E e \in Stored : e[1] \in picked[w] /\ e[2] = l}
      BY <2>6 DEF Delete
    <3>. QED
      BY <1>1, <2>1, <3>1 DEF Lossy
  <2>7. CASE StartPass(w) \/ Stat(w) \/ Resume(w)
    BY <2>2, <2>7 DEF StartPass, Stat, Resume, Aside
  <2>8. CASE Read(w) \/ Commit(w)
    BY <2>2, <2>8 DEF Read, Commit, Aside
  <2>9. CASE BeginGz(w) \/ Sweep(w)
    BY <2>2, <2>9 DEF BeginGz, Sweep, Aside
  <2>. QED
    BY <1>3, <2>3, <2>4, <2>5, <2>6, <2>7, <2>8, <2>9 DEF Ingest
<1>4. CASE Crash
  <2>1. /\ crashes < MaxCrashes /\ crashes' = crashes + 1 /\ lost' = lost
        /\ picked' = [w \in Workers |-> {}] /\ swapped' = {}
    BY <1>4 DEF Crash
  <2>. QED
    BY <1>1, <2>1, Bounds DEF Lossy
<1>. QED
  BY <1>2, <1>3, <1>4 DEF Next

LEMMA IndexHolds == Spec => [](IndexOK /\ Lossy)
<1>1. ASSUME IndexOK, Lossy, [Next]_vars
      PROVE  IndexOK' /\ Lossy'
  <2>1. CASE Next
    BY <1>1, <2>1, IndexStep, LossyStep
  <2>2. CASE UNCHANGED vars
    BY <1>1, <2>2 DEF vars, disk, Lossy, IndexOK, DiskOK, DiskTyped, InOrder, OldFirst, Logs, File,
                      DbTyped, Paired, Working, Within, Resumes
  <2>. QED
    BY <1>1, <2>1, <2>2
<1>. QED
  BY InitOK, <1>1, PTL DEF Spec

\* Type correctness, for any number of workers, rotations, losses of the process and
\* lines: offsets and rows always name what is there, and a batch never makes an
\* offset pass the lines that were written (ingest_file, log_index.py:457-541).
THEOREM TypeCorrect == Spec => []TypeOK
<1>1. IndexOK /\ Lossy => TypeOK
  BY DEF IndexOK, DiskOK, DiskTyped, FileType, DbTyped, Paired, Stages, TypeOK, Lossy
<1>. QED
  BY IndexHolds, <1>1, PTL

-----------------------------------------------------------------------------
(* The entries of a source are in the order of the lines *)

Ahead(s, n, p) == \A k \in DOMAIN s : Beyond(s[k], n, p)

\* A source has its lines in order, and what its path holds after the offset, now
\* or later, comes after all of them.
InLine(s) == Increasing(s.got) /\ (s.path \in {Live, Old} => Ahead(s.got, s.offset, s.path))

\* So has a batch that is about to be stored, and it comes after the source's lines.
BatchInLine(w) == pc[w] = "commit" =>
  LET j == job[w] IN
  /\ Increasing(j.lines)
  /\ Ahead(j.lines, j.start + Len(j.lines), j.path)
  /\ j.row # 0 => \A i \in DOMAIN sources[j.row].got, k \in DOMAIN j.lines :
                    sources[j.row].got[i] < j.lines[k]

Ordered ==
  /\ \A i \in DOMAIN sources : InLine(sources[i])
  /\ \A w \in Workers : BatchInLine(w)

LEMMA FurtherAhead ==
  ASSUME NEW s, NEW n \in Nat, NEW m \in Nat, n <= m, NEW p \in {Live, Old}, DiskOK, Ahead(s, n, p)
  PROVE  Ahead(s, m, p)
<1>1. p \in Paths
  BY ThreePaths
<1>2. at[p] # None => \A k \in DOMAIN File(p).lines : k \in Nat
  <2>1. at[p] # None => File(p).lines \in Seq(Line)
    BY <1>1, ReadableLog
  <2>. QED
    BY <2>1, LineNumbers
<1>. QED
  BY <1>2 DEF Ahead, Beyond

LEMMA Joined ==
  ASSUME NEW s \in Seq(Line), NEW t \in Seq(Line), Increasing(s), Increasing(t),
         \A i \in DOMAIN s, k \in DOMAIN t : s[i] < t[k]
  PROVE  /\ Increasing(s \o t)
         /\ \A m \in DOMAIN (s \o t) : \/ \E i \in DOMAIN s : (s \o t)[m] = s[i]
                                       \/ \E k \in DOMAIN t : (s \o t)[m] = t[k]
<1> DEFINE u == s \o t
<1>1. /\ u \in Seq(Line) /\ Len(u) = Len(s) + Len(t)
      /\ \A i \in 1 .. Len(s) + Len(t) : u[i] = IF i <= Len(s) THEN s[i] ELSE t[i - Len(s)]
  BY ConcatProperties
<1>2. /\ Len(s) \in Nat /\ DOMAIN s = 1 .. Len(s) /\ Len(t) \in Nat /\ DOMAIN t = 1 .. Len(t)
      /\ DOMAIN u = 1 .. Len(s) + Len(t)
  BY <1>1, LineNumbers
<1> HIDE DEF u
<1>3. \A m \in DOMAIN u : m <= Len(s) => m \in DOMAIN s /\ u[m] = s[m]
  BY <1>1, <1>2
<1>4. \A m \in DOMAIN u : m > Len(s) => m - Len(s) \in DOMAIN t /\ u[m] = t[m - Len(s)]
  BY <1>1, <1>2
<1>5. \A m \in DOMAIN u : m \in Nat /\ (m <= Len(s) \/ m > Len(s))
  BY <1>2
<1>6. ASSUME NEW m \in DOMAIN u, NEW n \in DOMAIN u, m < n PROVE u[m] < u[n]
  <2>1. CASE n <= Len(s)
    <3>1. m <= Len(s)
      BY <1>2, <1>5, <1>6, <2>1
    <3>. QED
      BY <1>3, <1>6, <2>1, <3>1 DEF Increasing
  <2>2. CASE m <= Len(s) /\ n > Len(s)
    BY <1>3, <1>4, <2>2
  <2>3. CASE m > Len(s) /\ n > Len(s)
    <3>1. m - Len(s) < n - Len(s)
      BY <1>2, <1>5, <1>6
    <3>. QED
      BY <1>4, <2>3, <3>1 DEF Increasing
  <2>. QED
    BY <1>5, <2>1, <2>2, <2>3
<1>7. Increasing(u)
  BY <1>6 DEF Increasing
<1>8. \A m \in DOMAIN u : \/ \E i \in DOMAIN s : u[m] = s[i]
                          \/ \E k \in DOMAIN t : u[m] = t[k]
  BY <1>3, <1>4, <1>5
<1>. QED
  BY <1>7, <1>8 DEF u

\* A batch that has just been read is in line.
LEMMA BatchRead ==
  ASSUME DiskOK, NEW p \in {Live, Old}, at[p] # None, NEW n \in 0 .. MaxLines
  PROVE  LET t == WholeLines(p, n) IN
         /\ t \in Seq(Line) /\ Increasing(t) /\ Ahead(t, n + Len(t), p)
         /\ \A l : Beyond(l, n, p) => \A k \in DOMAIN t : l < t[k]
<1> DEFINE s == File(p).lines
           t == WholeLines(p, n)
<1>1. p \in Paths /\ n \in Nat
  BY ThreePaths, Bounds
<1>2. /\ t \in Seq(Line) /\ \A k \in DOMAIN t : n + k \in DOMAIN s /\ t[k] = s[n + k]
  BY <1>1, BatchOfLines
<1>3. s \in Seq(Line) /\ Increasing(s) /\ \A k \in DOMAIN s : s[k] <= written
  BY <1>1, ReadableLog
<1>4. /\ Len(t) \in Nat /\ DOMAIN t = 1 .. Len(t) /\ DOMAIN s = 1 .. Len(s) /\ Len(s) \in Nat
      /\ \A k \in DOMAIN t : k \in Nat /\ k > 0 /\ k <= Len(t)
      /\ \A k \in DOMAIN s : k \in Nat
  BY <1>2, <1>3, LineNumbers
<1>5. p = Old => \A k \in DOMAIN s, l \in DOMAIN File(Live).lines : s[k] < File(Live).lines[l]
  BY DEF DiskOK, OldFirst
<1> HIDE DEF s, t
<1>6. \A k, l \in DOMAIN t : k < l => t[k] < t[l]
  <2>. SUFFICES ASSUME NEW k \in DOMAIN t, NEW l \in DOMAIN t, k < l PROVE t[k] < t[l]
    OBVIOUS
  <2>1. n + k < n + l
    BY <1>1, <1>4
  <2>. QED
    BY <1>2, <1>3, <2>1 DEF Increasing
<1>7. ASSUME NEW k \in DOMAIN t PROVE Beyond(t[k], n + Len(t), p)
  <2>1. n + k \in DOMAIN s /\ t[k] = s[n + k]
    BY <1>2
  <2>2. \A l \in DOMAIN s : l > n + Len(t) => n + k < l
    BY <1>1, <1>4
  <2>3. \A l \in DOMAIN s : l > n + Len(t) => t[k] < s[l]
    BY <1>3, <2>1, <2>2 DEF Increasing
  <2>. QED
    BY <1>3, <1>5, <2>1, <2>3 DEF Beyond, s
<1>8. ASSUME NEW l, Beyond(l, n, p), NEW k \in DOMAIN t PROVE l < t[k]
  <2>1. n + k \in DOMAIN s /\ t[k] = s[n + k] /\ n + k > n
    BY <1>1, <1>2, <1>4
  <2>. QED
    BY <1>8, <2>1 DEF Beyond, s
<1>9. Increasing(t)
  BY <1>6 DEF Increasing
<1>10. Ahead(t, n + Len(t), p)
  BY <1>7 DEF Ahead
<1>. QED
  BY <1>2, <1>8, <1>9, <1>10 DEF t

Batches(w) ==
  /\ pc[w] = "read" /\ at[job[w].path] # None
  /\ job'[w] = [job[w] EXCEPT !.lines = WholeLines(job[w].path, job[w].start)]
  /\ sources' = sources

Stores(w) ==
  LET j == job[w]
      n == j.start + Len(j.lines)
      h == HeadHash(j.path, n) IN
  /\ pc[w] = "commit" /\ at[j.path] # None
  /\ \/ /\ j.row = 0
        /\ sources' = Append(sources, [path |-> j.path, ino |-> j.ino, hash |-> h, offset |-> n,
                                       complete |-> FALSE, got |-> j.lines, ids |-> NewIds(Len(j.lines)),
                                       mixed |-> w \in swapped])
     \/ /\ j.row # 0
        /\ sources' = [sources EXCEPT ![j.row] =
                         [sources[j.row] EXCEPT !.hash = h, !.offset = n, !.got = @ \o j.lines,
                                                !.ids = @ \o NewIds(Len(j.lines)),
                                                !.mixed = @ \/ w \in swapped]]

Archives(w) ==
  /\ pc[w] = "read_gz"
  /\ sources' = Append(sources, [path |-> Gz, ino |-> job[w].ino, hash |-> <<>>, offset |-> 0,
                                 complete |-> TRUE, got |-> File(Gz).lines,
             ids |-> NewIds(Len(File(Gz).lines)), mixed |-> FALSE])

Deletes(w) ==
  /\ sources' = [i \in DOMAIN sources |-> Without(sources[i], picked[w])]
  /\ lost' = lost \cup {l \in Line : l > expired /\ \E e \in Stored : e[1] \in picked[w] /\ e[2] = l}

NotEmptied == {i \in DOMAIN sources : ~(sources[i].complete /\ sources[i].got = <<>>)}

\* What a worker's step does to the index, that only a read has a batch to commit, and
\* that a refill never rests.
LEMMA WorkerShape ==
  ASSUME IndexOK, NEW w \in Workers, Ingest(w) \/ Reindex(w)
  PROVE  /\ w \in Refills => pc'[w] # "idle"
         /\ \/ Batches(w)
            \/ /\ pc'[w] # "commit"
               /\ \/ sources' = sources \/ (sources' = <<>> /\ w \in Refills)
                  \/ Stores(w) \/ Archives(w) \/ Deletes(w)
                  \/ sources' = Kept(sources, NotEmptied)
<1>1. /\ DbTyped /\ Working(w) /\ sources \in Seq(Source) /\ pc \in [Workers -> Stages]
      /\ todo \in [Workers -> SUBSET Paths] /\ job \in [Workers -> Job] /\ job[w] \in Job
  BY DEF IndexOK, DbTyped
<1>2. ASSUME NextFile(w) \/ EndPass(w) \/ \E files \in SUBSET Paths : Take(w, files)
      PROVE  pc'[w] # "commit" /\ (w \in Refills => pc'[w] # "idle")
  BY <1>1, <1>2, Onward
<1>3. ASSUME Rollback(w)
      PROVE  pc'[w] # "commit" /\ (w \in Refills => pc'[w] # "idle") /\ sources' = sources
  BY <1>2, <1>3 DEF Rollback
<1>4. CASE StartPass(w) \/ Reindex(w)
  <2>1. Take(w, Siblings \cup {Live}) /\ Siblings \cup {Live} \in SUBSET Paths
    BY <1>4, ThreePaths DEF StartPass, Aside, Reindex, Siblings
  <2>2. sources' = sources \/ (sources' = <<>> /\ w \in Refills)
    BY <1>4 DEF StartPass, Aside, Reindex
  <2>. QED
    BY <1>2, <2>1, <2>2
<1>5. CASE Stat(w)
  <2>1. sources' = sources
    BY <1>5 DEF Stat, Aside
  <2>2. PICK p \in Upcoming(w) :
          \/ pc' = [pc EXCEPT ![w] = IF p = Gz THEN "begin_gz" ELSE "begin"]
          \/ Take(w, todo[w] \ {p})
    BY <1>5 DEF Stat, Aside
  <2>3. CASE Take(w, todo[w] \ {p})
    <3>1. todo[w] \ {p} \in SUBSET Paths
      BY <1>1
    <3>. QED
      BY <1>2, <2>1, <2>3, <3>1
  <2>4. CASE pc' = [pc EXCEPT ![w] = IF p = Gz THEN "begin_gz" ELSE "begin"]
    BY <1>1, <2>1, <2>4
  <2>. QED
    BY <2>2, <2>3, <2>4
<1>6. CASE Resume(w)
  <2>1. Rollback(w) \/ (pc' = [pc EXCEPT ![w] = "read"] /\ sources' = sources)
    BY <1>6 DEF Resume, Aside
  <2>. QED
    BY <1>1, <1>3, <2>1
<1>7. CASE Read(w)
  <2>1. \/ Rollback(w)
        \/ /\ pc[w] = "read" /\ at[job[w].path] # None
           /\ job' = [job EXCEPT ![w] = [job[w] EXCEPT !.lines = WholeLines(job[w].path, job[w].start)]]
           /\ pc' = [pc EXCEPT ![w] = "commit"]
           /\ sources' = sources
    BY <1>1, <1>7 DEF Read, Aside, Job
  <2>. QED
    BY <1>1, <1>3, <2>1 DEF Batches
<1>8. CASE Commit(w)
  <2>1. pc[w] = "commit"
    BY <1>8 DEF Commit, Aside
  <2>2. CASE at[job[w].path] = None
    <3>1. Rollback(w)
      BY <1>8, <2>2 DEF Commit, Aside
    <3>. QED
      BY <1>3, <3>1
  <2>3. CASE at[job[w].path] # None
    <3>1. job[w].row # 0 => job[w].row \in DOMAIN sources /\ sources[job[w].row] \in Source
      BY <2>1, <2>3, StoredRows
    <3>2. Stores(w) /\ NextFile(w)
      BY <1>8, <2>1, <2>3, <3>1 DEF Commit, Aside, Stores, Source
    <3>. QED
      BY <1>2, <3>2
  <2>. QED
    BY <2>2, <2>3
<1>9. CASE BeginGz(w)
  <2>1. Rollback(w) \/ (pc' = [pc EXCEPT ![w] = "read_gz"] /\ sources' = sources)
    BY <1>9 DEF BeginGz, Aside
  <2>. QED
    BY <1>1, <1>3, <2>1
<1>10. CASE ReadGz(w)
  <2>1. (Archives(w) /\ NextFile(w)) \/ (sources' = sources /\ EndPass(w))
    BY <1>10 DEF ReadGz, Aside, Archives
  <2>. QED
    BY <1>2, <2>1
<1>11. CASE Pick(w)
  <2>1. /\ sources' = sources
        /\ \/ EndPass(w)
           \/ pc' = [pc EXCEPT ![w] = "sweep"] \/ pc' = [pc EXCEPT ![w] = "delete"]
    BY <1>11 DEF Pick
  <2>. QED
    BY <1>1, <1>2, <2>1
<1>13. CASE Delete(w)
  <2>1. Deletes(w) /\ pc' = [pc EXCEPT ![w] = "again"]
    BY <1>13 DEF Delete, Deletes
  <2>. QED
    BY <1>1, <2>1
<1>12. CASE Sweep(w)
  <2>1. sources' = Kept(sources, NotEmptied) /\ EndPass(w)
    BY <1>12 DEF Sweep, Aside, NotEmptied
  <2>. QED
    BY <1>2, <2>1
<1>. QED
  BY <1>4, <1>5, <1>6, <1>7, <1>8, <1>9, <1>10, <1>11, <1>12, <1>13 DEF Ingest

LEMMA OrderedStep ==
  ASSUME IndexOK, Ordered, Next
  PROVE  Ordered'
<1>1. /\ DiskOK /\ DbTyped /\ (\A w \in Workers : Working(w))
      /\ sources \in Seq(Source) /\ job \in [Workers -> Job] /\ DOMAIN sources = 1 .. Len(sources)
      /\ Len(sources) \in Nat
  BY DEF IndexOK, DbTyped
<1>2. /\ \A i \in DOMAIN sources : InLine(sources[i]) /\ sources[i] \in Source
      /\ \A w \in Workers : BatchInLine(w)
  BY <1>1 DEF Ordered
<1>3. CASE Outside
  <2>1. UNCHANGED <<sources, pc, job>>
    BY <1>3 DEF Outside, OnDiskOnly
  <2>2. ASSUME NEW s \in Seq(Line), NEW n \in Nat, NEW p \in {Live, Old}, Ahead(s, n, p)
        PROVE  Ahead(s, n, p)'
    <3>1. \A k \in DOMAIN s : s[k] \in Line
      BY LineNumbers
    <3>. QED
      BY <1>1, <1>3, <2>2, <3>1, BeyondStep DEF Ahead
  <2>3. ASSUME NEW i \in DOMAIN sources PROVE InLine(sources[i])'
    <3>1. sources[i].got \in Seq(Line) /\ sources[i].offset \in Nat
      BY <1>2, Bounds DEF Source
    <3>. QED
      BY <1>2, <2>1, <2>2, <3>1 DEF InLine, Increasing
  <2>4. ASSUME NEW w \in Workers PROVE BatchInLine(w)'
    <3>. SUFFICES ASSUME pc[w] = "commit" PROVE BatchInLine(w)'
      BY <2>1 DEF BatchInLine
    <3>1. /\ job[w].lines \in Seq(Line) /\ job[w].start + Len(job[w].lines) \in Nat
          /\ job[w].path \in {Live, Old}
      <4>1. job[w].lines \in Seq(Line)
        BY <1>1 DEF Job
      <4>2. job[w].path \in {Live, Old} /\ job[w].start + Len(job[w].lines) \in 0..MaxLines
        BY <1>1 DEF Working
      <4>. QED
        BY <4>1, <4>2, Bounds
    <3>. QED
      BY <1>2, <2>1, <2>2, <3>1 DEF BatchInLine, Increasing
  <2>. QED
    BY <2>1, <2>3, <2>4 DEF Ordered
<1>4. ASSUME NEW w \in Workers, Ingest(w) \/ Reindex(w)
      PROVE  Ordered'
  <2>1. Apart(w) /\ UNCHANGED <<disk, crashes>>
    BY <1>4, WorkerStep DEF IndexOK
  <2>2. UNCHANGED <<at, data, kea, written, rotations, gzip, expired>>
    BY <2>1 DEF disk
  <2>3. ASSUME NEW l, NEW n, NEW p PROVE Beyond(l, n, p)' <=> Beyond(l, n, p)
    BY <2>2 DEF Beyond, File
  <2>4. ASSUME NEW s PROVE InLine(s)' <=> InLine(s)
    BY <2>3 DEF InLine, Ahead, Increasing
  <2>5. ASSUME NEW v \in Workers, v # w PROVE BatchInLine(v)'
    <3>1. /\ pc'[v] = pc[v] /\ job'[v] = job[v]
          /\ (Within(v) => sources' = sources)
      BY <2>1, <2>5 DEF Apart
    <3>2. Within(v) <=> pc[v] \in {"read", "commit", "read_gz"}
      BY DEF Within
    <3>. QED
      BY <1>2, <2>3, <3>1, <3>2 DEF BatchInLine, Ahead, Increasing
  <2>6. CASE Batches(w)
    <3> DEFINE j == job[w]
               t == WholeLines(j.path, j.start)
    <3>1. j.path \in {Live, Old} /\ at[j.path] # None /\ Resumes(j) /\ j \in Job /\ j.start \in 0 .. MaxLines
      BY <1>1, <2>6 DEF Batches, Working, Job
    <3>2. /\ t \in Seq(Line) /\ Increasing(t) /\ Ahead(t, j.start + Len(t), j.path)
          /\ \A l : Beyond(l, j.start, j.path) => \A k \in DOMAIN t : l < t[k]
      BY <1>1, <3>1, BatchRead
    <3> HIDE DEF t
    <3>3. /\ job'[w].path = j.path /\ job'[w].start = j.start /\ job'[w].row = j.row
          /\ job'[w].lines = t /\ sources' = sources
      BY <2>6, <3>1 DEF Batches, t, Job
    <3>4. ASSUME j.row # 0, NEW i \in DOMAIN sources[j.row].got, NEW k \in DOMAIN t
          PROVE  sources[j.row].got[i] < t[k]
      <4>1. /\ j.row \in DOMAIN sources /\ sources[j.row].path = j.path
            /\ sources[j.row].offset = j.start
        BY <3>1, <3>4 DEF Resumes
      <4>2. Beyond(sources[j.row].got[i], j.start, j.path)
        BY <1>2, <3>1, <3>4, <4>1 DEF InLine, Ahead
      <4>. QED
        BY <3>2, <4>2
    <3>5. BatchInLine(w)'
      BY <2>3, <3>2, <3>3, <3>4 DEF BatchInLine, Ahead, Increasing
    <3>6. \A i \in DOMAIN sources' : InLine(sources'[i])
      BY <1>2, <3>3
    <3>. QED
      BY <2>4, <2>5, <3>5, <3>6 DEF Ordered
  <2>7. ASSUME pc'[w] # "commit", \A i \in DOMAIN sources' : InLine(sources'[i])
        PROVE  Ordered'
    <3>1. BatchInLine(w)'
      BY <2>7 DEF BatchInLine
    <3>. QED
      BY <2>4, <2>5, <2>7, <3>1 DEF Ordered
  <2>8. CASE sources' = sources \/ sources' = <<>>
    <3>1. \A i \in DOMAIN sources' : InLine(sources'[i])
      BY <1>2, <2>8
    <3>2. Batches(w) \/ pc'[w] # "commit"
      BY <1>4, WorkerShape
    <3>. QED
      BY <2>6, <2>7, <3>1, <3>2
  <2>9. CASE Stores(w)
    <3> DEFINE j == job[w]
               n == j.start + Len(j.lines)
               h == HeadHash(j.path, n)
               fresh == [path |-> j.path, ino |-> j.ino, hash |-> h, offset |-> n,
                         complete |-> FALSE, got |-> j.lines, ids |-> NewIds(Len(j.lines)),
                         mixed |-> w \in swapped]
               longer == [sources[j.row] EXCEPT !.hash = h, !.offset = n, !.got = @ \o j.lines,
                                                !.ids = @ \o NewIds(Len(j.lines)),
                                                !.mixed = @ \/ w \in swapped]
    <3>1. /\ j.path \in {Live, Old} /\ n \in Nat /\ j.lines \in Seq(Line) /\ fresh \in Source
          /\ j.row # 0 => j.row \in DOMAIN sources /\ sources[j.row] \in Source /\ longer \in Source
      <4>1. pc[w] = "commit" /\ at[j.path] # None
        BY <2>9 DEF Stores
      <4>2. /\ j.path \in {Live, Old} /\ n \in 0 .. MaxLines /\ j.lines \in Seq(Line) /\ fresh \in Source
            /\ j.row # 0 => j.row \in DOMAIN sources /\ sources[j.row] \in Source /\ longer \in Source
        BY <4>1, StoredRows
      <4> HIDE DEF fresh, longer, n
      <4>. QED
        BY <4>2, Bounds
    <3>2. Increasing(j.lines) /\ Ahead(j.lines, n, j.path)
      BY <1>2, <2>9 DEF Stores, BatchInLine
    <3>3. InLine(fresh)
      BY <3>2 DEF InLine
    <3>4. ASSUME j.row # 0 PROVE InLine(longer)
      <4> DEFINE s == sources[j.row]
      <4>1. /\ j.row \in DOMAIN sources /\ s \in Source /\ s.path = j.path
            /\ s.offset = j.start /\ s.got \in Seq(Line) /\ j.start \in Nat /\ Len(j.lines) \in Nat
        <5>1. Resumes(j)
          BY <1>1, <2>9 DEF Stores, Working
        <5>2. sources[j.row].path = j.path /\ sources[j.row].offset = j.start
          BY <3>4, <5>1 DEF Resumes
        <5>3. s \in Source /\ j.row \in DOMAIN sources
          BY <3>1, <3>4
        <5>4. s.got \in Seq(Line) /\ s.offset \in 0 .. MaxLines
          BY <5>3 DEF Source
        <5>5. Len(j.lines) \in Nat
          BY <3>1, LineNumbers
        <5>6. s.offset \in Nat
          BY <5>4, Bounds
        <5>. QED
          BY <5>2, <5>3, <5>4, <5>5, <5>6
      <4>2. Increasing(s.got) /\ Ahead(s.got, j.start, j.path)
        BY <1>2, <3>1, <4>1 DEF InLine
      <4>3. \A i \in DOMAIN s.got, k \in DOMAIN j.lines : s.got[i] < j.lines[k]
        BY <1>2, <2>9, <3>4 DEF Stores, BatchInLine
      <4>4. /\ Increasing(s.got \o j.lines)
            /\ \A m \in DOMAIN (s.got \o j.lines) :
                 \/ \E i \in DOMAIN s.got : (s.got \o j.lines)[m] = s.got[i]
                 \/ \E k \in DOMAIN j.lines : (s.got \o j.lines)[m] = j.lines[k]
        BY <3>1, <3>2, <4>1, <4>2, <4>3, Joined
      <4>5. Ahead(s.got, n, j.path)
        <5>1. j.start <= n
          BY <4>1
        <5>. QED
          BY <1>1, <3>1, <4>1, <4>2, <5>1, FurtherAhead
      <4>6. Ahead(s.got \o j.lines, n, j.path)
        BY <3>2, <4>4, <4>5 DEF Ahead
      <4>7. longer.got = s.got \o j.lines /\ longer.offset = n /\ longer.path = j.path
        BY <4>1 DEF Source
      <4> HIDE DEF longer
      <4>. QED
        BY <4>4, <4>6, <4>7 DEF InLine
    <3>5. \/ sources' = Append(sources, fresh)
          \/ j.row # 0 /\ sources' = [sources EXCEPT ![j.row] = longer]
      BY <2>9 DEF Stores
    <3> HIDE DEF fresh, longer
    <3>6. \A i \in DOMAIN sources' : InLine(sources'[i])
      <4>1. CASE sources' = Append(sources, fresh)
        <5>1. /\ DOMAIN sources' = 1 .. Len(sources) + 1 /\ sources'[Len(sources) + 1] = fresh
              /\ \A i \in 1 .. Len(sources) : sources'[i] = sources[i]
          BY <1>1, <3>1, <4>1
        <5>. QED
          BY <1>1, <1>2, <3>3, <5>1
      <4>2. CASE j.row # 0 /\ sources' = [sources EXCEPT ![j.row] = longer]
        <5>1. \A i \in DOMAIN sources' : i \in DOMAIN sources /\ (sources'[i] = sources[i] \/ sources'[i] = longer)
          BY <4>2
        <5>. QED
          BY <1>2, <3>4, <4>2, <5>1
      <4>. QED
        BY <3>5, <4>1, <4>2
    <3>7. pc[w] # "read"
      BY <2>9 DEF Stores
    <3>. QED
      BY <1>4, <2>6, <2>7, <3>6, <3>7, WorkerShape DEF Batches
  <2>10. CASE Archives(w)
    <3> DEFINE fresh == [path |-> Gz, ino |-> job[w].ino, hash |-> <<>>, offset |-> 0,
                         complete |-> TRUE, got |-> File(Gz).lines,
             ids |-> NewIds(Len(File(Gz).lines)), mixed |-> FALSE]
    <3>1. sources' = Append(sources, fresh) /\ pc[w] = "read_gz"
      BY <2>10 DEF Archives
    <3>2. at[Gz] # None
      BY <1>1, <3>1 DEF Working
    <3>3. Increasing(File(Gz).lines)
      BY <1>1, <3>2, ReadableLog, ThreePaths
    <3>4. InLine(fresh)
      BY <3>3, ThreePaths DEF InLine
    <3> HIDE DEF fresh
    <3>5. /\ DOMAIN sources' = 1 .. Len(sources) + 1 /\ sources'[Len(sources) + 1] = fresh
          /\ \A i \in 1 .. Len(sources) : sources'[i] = sources[i]
      BY <1>1, <3>1
    <3>6. \A i \in DOMAIN sources' : InLine(sources'[i])
      BY <1>1, <1>2, <3>4, <3>5
    <3>. QED
      BY <1>4, <2>6, <2>7, <3>1, <3>6, WorkerShape DEF Batches
  <2>11. CASE Deletes(w)
    <3>1. DOMAIN sources' = DOMAIN sources /\ \A i \in DOMAIN sources : sources'[i] = Without(sources[i], picked[w])
      BY <2>11 DEF Deletes
    <3>2. ASSUME NEW i \in DOMAIN sources PROVE InLine(Without(sources[i], picked[w]))
      <4>. sources[i] \in Source /\ Paired(sources[i])
        BY DEF IndexOK, DbTyped
      <4>1. /\ Without(sources[i], picked[w])["path"] = sources[i]["path"]
            /\ Without(sources[i], picked[w])["offset"] = sources[i]["offset"]
            /\ \A n \in DOMAIN Without(sources[i], picked[w]).got :
                 \E m \in DOMAIN sources[i].got : Without(sources[i], picked[w]).got[n] = sources[i].got[m]
            /\ Increasing(sources[i].got) => Increasing(Without(sources[i], picked[w]).got)
        BY <1>2, WithoutRow
      <4>. QED
        BY <1>2, <4>1 DEF InLine, Ahead
    <3>3. \A i \in DOMAIN sources' : InLine(sources'[i])
      BY <3>1, <3>2
    <3>. QED
      BY <1>4, <2>6, <2>7, <3>3, WorkerShape
  <2>12. CASE sources' = Kept(sources, NotEmptied)
    <3>1. NotEmptied \in SUBSET (DOMAIN sources)
      BY DEF NotEmptied
    <3>2. \A n \in DOMAIN sources' : \E i \in DOMAIN sources : sources'[n] = sources[i]
      BY <1>1, <2>12, <3>1, KeptRows
    <3>3. \A i \in DOMAIN sources' : InLine(sources'[i])
      BY <1>2, <3>2
    <3>. QED
      BY <1>4, <2>6, <2>7, <3>3, WorkerShape
  <2>. QED
    BY <1>4, <2>6, <2>7, <2>8, <2>9, <2>10, <2>11, <2>12, WorkerShape
<1>5. CASE Crash
  <2>1. /\ \A w \in Workers : pc'[w] \in {"idle", "over"}
        /\ UNCHANGED <<disk, sources>>
    BY <1>1, <1>5, CrashedWorkers
  <2>2. UNCHANGED <<at, data, written>>
    BY <2>1 DEF disk
  <2>3. \A w \in Workers : BatchInLine(w)'
    BY <2>1 DEF BatchInLine
  <2>4. \A i \in DOMAIN sources : InLine(sources[i])'
    BY <1>2, <2>1, <2>2 DEF InLine, Ahead, Beyond, Increasing, File
  <2>. QED
    BY <2>1, <2>3, <2>4 DEF Ordered
<1>. QED
  BY <1>3, <1>4, <1>5 DEF Next

LEMMA OrderedHolds == Spec => []Ordered
<1>1. Init => Ordered
  BY DEF Init, Ordered, BatchInLine
<1>2. ASSUME IndexOK, Ordered, [Next]_vars PROVE Ordered'
  <2>1. CASE Next
    BY <1>2, <2>1, OrderedStep
  <2>2. CASE UNCHANGED vars
    BY <1>2, <2>2 DEF vars, disk, Ordered, InLine, BatchInLine, Ahead, Beyond, Increasing, File
  <2>. QED
    BY <1>2, <2>1, <2>2
<1>. QED
  BY <1>1, <1>2, IndexHolds, PTL DEF Spec

\* From one source no line is indexed twice, and its lines stay in order, however many
\* ingesters run at once, whatever rotates, and wherever the process is lost ("what makes
\* concurrent ingesters safe without any extra locking", log_index.py:460-464).
THEOREM NoLineTwice == Spec => []EachSourceInOrder
<1>1. Ordered => EachSourceInOrder
  BY DEF Ordered, InLine, Increasing, EachSourceInOrder
<1>. QED
  BY <1>1, OrderedHolds, PTL

-----------------------------------------------------------------------------
(* One ingester and a log that has not rotated *)

Alone == rotations = 0 /\ \A w \in Refills : pc[w] = "idle"

HeadOf(s, n) == SubSeq(s, 1, IF n < Fingerprint THEN n ELSE Fingerprint)

\* There is one row at most, and it is always found to be the live log's.
OneRow == \A i \in DOMAIN sources :
  /\ i = 1 /\ sources[i].path = Live /\ sources[i].ino = at[Live] /\ ~sources[i].complete
  /\ sources[i].offset <= Len(File(Live).lines)
  /\ sources[i].hash = HeadOf(File(Live).lines, sources[i].offset)

\* The ingester is at the live log, resumes that row, and never beyond the file's end.
OneJob ==
  LET w == Background IN
  /\ todo[w] \subseteq {Live}
  /\ pc[w] \notin {"begin_gz", "read_gz"}
  /\ pc[w] \in {"begin", "read", "commit"} => job[w].path = Live /\ job[w].ino = at[Live]
  /\ pc[w] = "begin" => \A i \in DOMAIN sources : job[w].size >= 2 * sources[i].offset
  /\ pc[w] \in {"read", "commit"} => job[w].row = Len(sources)
  /\ pc[w] = "commit" => job[w].start + Len(job[w].lines) <= Len(File(Live).lines)

Single ==
  /\ rotations = 0 => at[Old] = None /\ at[Gz] = None
  /\ Alone => OneRow /\ OneJob

\* A hash of the head does not change when the file grows.
LEMMA SameHead ==
  ASSUME NEW s \in Seq(Line), NEW t \in Seq(Line), Len(s) <= Len(t),
         \A k \in DOMAIN s : t[k] = s[k], NEW n \in Nat, n <= Len(s)
  PROVE  HeadOf(t, n) = HeadOf(s, n)
<1> DEFINE m == IF n < Fingerprint THEN n ELSE Fingerprint
<1>1. /\ Len(s) \in Nat /\ DOMAIN s = 1 .. Len(s) /\ Len(t) \in Nat /\ DOMAIN t = 1 .. Len(t)
      /\ \A k \in DOMAIN s : s[k] \in Line
  BY LineNumbers
<1>2. m \in Nat /\ m <= Len(s)
  BY <1>1, Bounds
<1> HIDE DEF m
<1>3. \A k \in 1 .. m : k \in DOMAIN s /\ s[k] \in Line /\ t[k] = s[k]
  <2>1. \A k \in 1 .. m : k \in 1 .. Len(s)
    <3>1. Len(s) \in Nat
      BY <1>1
    <3>. QED
      BY <1>2, <3>1
  <2>. QED
    BY <1>1, <2>1
<1>4. /\ SubSeq(s, 1, m) \in Seq(Line) /\ Len(SubSeq(s, 1, m)) = (IF 1 <= m THEN m - 1 + 1 ELSE 0)
      /\ \A k \in 1 .. m - 1 + 1 : SubSeq(s, 1, m)[k] = s[1 + k - 1]
  <2>1. 1 \in Int /\ m \in Int
    BY <1>2
  <2>. QED
    BY <1>3, <2>1, SubSeqProperties
<1>5. /\ SubSeq(t, 1, m) \in Seq(Line) /\ Len(SubSeq(t, 1, m)) = (IF 1 <= m THEN m - 1 + 1 ELSE 0)
      /\ \A k \in 1 .. m - 1 + 1 : SubSeq(t, 1, m)[k] = t[1 + k - 1]
  <2>1. 1 \in Int /\ m \in Int
    BY <1>2
  <2>2. \A k \in 1 .. m : t[k] \in Line
    BY <1>3
  <2>. QED
    BY <2>1, <2>2, SubSeqProperties
<1>6. /\ Len(SubSeq(s, 1, m)) = m /\ Len(SubSeq(t, 1, m)) = m
      /\ \A k \in 1 .. m : SubSeq(s, 1, m)[k] = s[k] /\ SubSeq(t, 1, m)[k] = t[k]
  <2>1. m - 1 + 1 = m /\ (IF 1 <= m THEN m - 1 + 1 ELSE 0) = m /\ \A k \in 1 .. m : 1 + k - 1 = k
    BY <1>2
  <2>. QED
    BY <1>4, <1>5, <2>1
<1>7. SubSeq(s, 1, m) = SubSeq(t, 1, m)
  BY <1>3, <1>4, <1>5, <1>6
<1>. QED
  BY <1>7 DEF HeadOf, m

\* Until it rotates, a log only grows.
LEMMA LogGrows ==
  ASSUME DiskOK, Outside, rotations' = 0, at[Old] = None, at[Gz] = None
  PROVE  /\ rotations = 0 /\ at' = at
         /\ Len(File(Live).lines) <= Len(File(Live)'.lines)
         /\ File(Live)'.lines \in Seq(Line)
         /\ \A k \in DOMAIN File(Live).lines : File(Live)'.lines[k] = File(Live).lines[k]
<1>1. /\ at \in [Paths -> Inodes \cup {None}] /\ data \in [Inodes -> FileType] /\ kea \in Inodes
      /\ rotations \in Nat /\ at[Live] \in Inodes /\ data[at[Live]].lines \in Seq(Line)
  BY ThreePaths, Bounds DEF DiskOK, DiskTyped, Logs, FileType
<1>2. ~Rename /\ ~CopyTruncate /\ ~Compress
  BY <1>1 DEF Rename, CopyTruncate, Compress
<1>3. ~gzip
  BY DEF DiskOK, Logs
<1>4. CASE WriteLine
  <2>1. rotations' = rotations /\ at' = at
    BY <1>4 DEF WriteLine
  <2>2. /\ data' \in [Inodes -> FileType]
        /\ \A i \in Inodes : i # kea => data'[i] = data[i]
        /\ data'[kea].lines = Append(data[kea].lines, written + 1) /\ written \in 0 .. MaxLines - 1
    BY <1>4, WriteLineSorted
  <2>3. kea = at[Live]
    BY <1>1, Bounds DEF DiskOK, Logs
  <2>4. data'[at[Live]].lines \in Seq(Line) /\ written + 1 \in Line
    BY <1>1, <2>2, Bounds DEF FileType, Line
  <2>5. /\ Len(data'[at[Live]].lines) = Len(data[at[Live]].lines) + 1
        /\ \A k \in 1 .. Len(data[at[Live]].lines) : data'[at[Live]].lines[k] = data[at[Live]].lines[k]
    BY <1>1, <2>2, <2>3, <2>4, AppendProperties
  <2>6. Len(data[at[Live]].lines) \in Nat /\ DOMAIN data[at[Live]].lines = 1 .. Len(data[at[Live]].lines)
    BY <1>1, LineNumbers
  <2>7. File(Live) = data[at[Live]] /\ File(Live)' = data'[at[Live]]
    BY <2>1 DEF File
  <2>8. Len(data[at[Live]].lines) <= Len(data'[at[Live]].lines)
    BY <2>5, <2>6
  <2>9. \A k \in DOMAIN data[at[Live]].lines : data'[at[Live]].lines[k] = data[at[Live]].lines[k]
    BY <2>5, <2>6
  <2>. QED
    BY <2>1, <2>4, <2>7, <2>8, <2>9
<1>5. CASE WriteHalf
  <2>1. rotations' = rotations /\ at' = at /\ data' = [data EXCEPT ![kea] = [data[kea] EXCEPT !.half = TRUE]]
    BY <1>5 DEF WriteHalf
  <2>2. data'[at[Live]].lines = data[at[Live]].lines
    BY <1>1, <2>1 DEF FileType
  <2>3. Len(data[at[Live]].lines) \in Nat
    BY <1>1, LineNumbers
  <2>. QED
    BY <1>1, <2>1, <2>2, <2>3 DEF File
<1>6. CASE Reopen \/ GzipDies \/ Expire
  <2>1. rotations' = rotations /\ at' = at /\ data' = data
    BY <1>6 DEF Reopen, GzipDies, Expire
  <2>2. Len(data[at[Live]].lines) \in Nat
    BY <1>1, LineNumbers
  <2>. QED
    BY <1>1, <2>1, <2>2 DEF File
<1>7. ~Compressed /\ ~Fill
  BY <1>3 DEF Compressed, Fill
<1>. QED
  BY <1>2, <1>4, <1>5, <1>6, <1>7 DEF Outside, OnDiskOnly

\* A worker that is not the background thread's ends the hypothesis, and nothing restores it.
LEMMA AloneBefore ==
  ASSUME IndexOK, Next, Alone'
  PROVE  Alone /\ ~ \E w \in Refills : Ingest(w) \/ Reindex(w)
<1>1. DiskOK /\ DbTyped /\ pc \in [Workers -> Stages] /\ rotations \in Nat
  BY Bounds DEF IndexOK, DiskOK, DiskTyped, DbTyped
<1>2. rotations' = 0 /\ \A w \in Refills : w \in Workers /\ pc'[w] = "idle"
  BY DEF Alone, Workers
<1>3. ASSUME NEW w \in Refills, Ingest(w) \/ Reindex(w) PROVE FALSE
  BY <1>2, <1>3, WorkerShape
<1>4. CASE Outside
  <2>1. pc' = pc
    BY <1>4 DEF Outside, OnDiskOnly
  <2>2. rotations' = rotations \/ rotations' = rotations + 1
    BY <1>4 DEF Outside, OnDiskOnly, WriteHalf, WriteLine, Rename, Reopen, CopyTruncate, Compress, Fill,
                Compressed, GzipDies, Expire
  <2>. QED
    BY <1>1, <1>2, <1>3, <2>1, <2>2 DEF Alone
<1>5. ASSUME NEW w \in Workers, Ingest(w) \/ Reindex(w) PROVE Alone
  <2>1. Apart(w) /\ UNCHANGED <<disk, crashes>>
    BY <1>5, WorkerStep
  <2>2. w \notin Refills
    BY <1>3, <1>5
  <2>3. \A v \in Refills : pc'[v] = pc[v]
    BY <1>2, <2>1, <2>2 DEF Apart
  <2>. QED
    BY <1>2, <2>1, <2>3 DEF Alone, disk
<1>6. CASE Crash
  <2>1. UNCHANGED disk /\ pc' = [w \in Workers |-> IF w = Background \/ pc[w] = "idle" THEN "idle" ELSE "over"]
    BY <1>6 DEF Crash
  <2>2. ASSUME NEW w \in Refills PROVE pc[w] = "idle"
    <3>1. w # Background /\ w \in Workers /\ pc'[w] = "idle"
      BY <1>2, Bounds
    <3>2. pc'[w] = IF pc[w] = "idle" THEN "idle" ELSE "over"
      BY <2>1, <3>1
    <3>. QED
      BY <3>1, <3>2
  <2>. QED
    BY <1>2, <1>3, <2>1, <2>2 DEF Alone, disk
<1>. QED
  BY <1>3, <1>4, <1>5, <1>6 DEF Next

LEMMA RowType ==
  ASSUME sources \in Seq(Source), NEW i \in DOMAIN sources
  PROVE  sources[i] \in Source /\ sources[i].offset \in Nat /\ sources[i].got \in Seq(Line)
<1>1. sources[i] \in Source
  OBVIOUS
<1>2. sources[i].offset \in 0 .. MaxLines /\ sources[i].got \in Seq(Line)
  BY <1>1 DEF Source
<1>. QED
  BY <1>1, <1>2, Bounds

\* The live log is always found to be the file of its row.
LEMMA SameLog ==
  ASSUME IndexOK, OneRow, NEW size \in Nat, \A i \in DOMAIN sources : size >= 2 * sources[i].offset
  PROVE  /\ Len(sources) \in {0, 1} /\ NewestRow(Live) = Len(sources)
         /\ Len(sources) # 0 => SameFile(Live, at[Live], size)
<1>1. /\ sources \in Seq(Source) /\ Len(sources) \in Nat /\ DOMAIN sources = 1 .. Len(sources)
      /\ at[Live] # None /\ Live \in Paths /\ DiskOK
  BY ThreePaths DEF IndexOK, DbTyped, DiskOK, Logs
<1>2. Len(sources) \in {0, 1}
  <2>1. CASE Len(sources) = 0
    BY <2>1
  <2>2. CASE Len(sources) # 0
    <3>1. Len(sources) \in DOMAIN sources
      BY <1>1, <2>2
    <3>. QED
      BY <3>1 DEF OneRow
  <2>. QED
    BY <2>1, <2>2
<1>3. NewestRow(Live) \in 0 .. Len(sources)
      /\ \A i \in DOMAIN sources : sources[i].path = Live => i <= NewestRow(Live)
  BY <1>1, NewestOfPath
<1>4. CASE Len(sources) = 0
  BY <1>3, <1>4
<1>5. CASE Len(sources) = 1
  <2>1. 1 \in DOMAIN sources
    BY <1>1, <1>5
  <2>2. /\ sources[1].path = Live /\ sources[1].ino = at[Live]
        /\ sources[1].offset <= Len(File(Live).lines)
        /\ sources[1].hash = HeadOf(File(Live).lines, sources[1].offset)
    BY <2>1 DEF OneRow
  <2>3. NewestRow(Live) = 1
    BY <1>3, <1>5, <2>1, <2>2
  <2>4. sources[1].offset \in Nat
    BY <1>1, <2>1, RowType
  <2>5. HeadHash(Live, sources[1].offset) = sources[1].hash
    BY <1>1, <2>2, <2>4, HashOfHead DEF HeadOf
  <2>. QED
    BY <1>1, <1>5, <2>1, <2>2, <2>3, <2>5 DEF SameFile
<1>. QED
  BY <1>2, <1>4, <1>5

\* What the background thread has in hand stays the live log and its row.
LEMMA OneJobStep ==
  ASSUME IndexOK, at[Old] = None, at[Gz] = None, OneRow, OneJob,
         Ingest(Background)
  PROVE  OneJob'
<1> DEFINE w == Background
<1>1. /\ w \in Workers /\ DbTyped /\ Working(w) /\ sources \in Seq(Source) /\ pc \in [Workers -> Stages]
      /\ todo \in [Workers -> SUBSET Paths] /\ job \in [Workers -> Job] /\ job[w] \in Job
      /\ DiskOK /\ at[Live] # None /\ todo[w] \subseteq {Live}
  BY Bounds DEF IndexOK, DbTyped, DiskOK, Logs, OneJob
<1>2. UNCHANGED <<disk, crashes>> /\ at' = at /\ data' = data
  <2>1. UNCHANGED <<disk, crashes>>
    BY <1>1, WorkerStep
  <2>. QED
    BY <2>1 DEF disk
<1>3. ASSUME NEW files \in SUBSET {Live}, Take(w, files) PROVE OneJob'
  <2>1. todo'[w] = files /\ pc'[w] = IF files = {} THEN "prune" ELSE "stat"
    BY <1>1, <1>3 DEF Take
  <2>. QED
    BY <2>1 DEF OneJob
<1>4. ASSUME EndPass(w) PROVE OneJob'
  BY <1>1, <1>4 DEF EndPass, OneJob
<1>5. ASSUME NextFile(w) PROVE OneJob'
  <2>1. todo[w] \ {job[w].path} \in SUBSET {Live}
    BY <1>1
  <2>. QED
    BY <1>3, <1>5, <2>1 DEF NextFile
<1>6. CASE StartPass(w)
  <2>1. Siblings \cup {Live} = {Live}
    BY ThreePaths DEF Siblings
  <2>. QED
    BY <1>3, <1>6, <2>1 DEF StartPass, Aside
<1>7. CASE Stat(w)
  <2>1. PICK p \in Upcoming(w) :
          \/ /\ at[p] # None
             /\ job' = [job EXCEPT ![w] = [NoJob EXCEPT !.path = p, !.ino = at[p], !.size = Size(File(p))]]
             /\ pc' = [pc EXCEPT ![w] = IF p = Gz THEN "begin_gz" ELSE "begin"]
             /\ UNCHANGED todo
          \/ at[p] = None
    BY <1>7 DEF Stat, Aside
  <2>2. p = Live /\ p # Gz
    BY <1>1, <2>1, ThreePaths DEF Upcoming
  <2>3. /\ job' = [job EXCEPT ![w] = [NoJob EXCEPT !.path = Live, !.ino = at[Live], !.size = Size(File(Live))]]
        /\ pc' = [pc EXCEPT ![w] = "begin"] /\ todo' = todo /\ sources' = sources
    BY <1>1, <1>7, <2>1, <2>2 DEF Stat, Aside
  <2>4. /\ job'[w].path = Live /\ job'[w].ino = at[Live] /\ job'[w].size = Size(File(Live))
        /\ pc'[w] = "begin"
    BY <1>1, <2>3 DEF NoJob
  <2>5. ASSUME NEW i \in DOMAIN sources PROVE Size(File(Live)) >= 2 * sources[i].offset
    <3>1. sources[i].offset \in Nat /\ sources[i].offset <= Len(File(Live).lines)
      BY <1>1, RowType DEF OneRow
    <3>2. /\ Size(File(Live)) \in 2 * Len(File(Live).lines) .. 2 * MaxLines + 1
          /\ Len(File(Live).lines) \in 0 .. MaxLines
      BY <1>1, ReadableLog, ThreePaths
    <3>. QED
      BY <3>1, <3>2, Bounds
  <2>. QED
    BY <1>1, <1>2, <2>3, <2>4, <2>5 DEF OneJob
<1>8. CASE Resume(w)
  <2> DEFINE p == job[w].path
             r == IF SameFile(p, job[w].ino, job[w].size) THEN NewestRow(p) ELSE 0
             n == IF r = 0 THEN 0 ELSE sources[r].offset
  <2>1. pc[w] = "begin"
    BY <1>8 DEF Resume, Aside
  <2>2. \/ NextFile(w)
        \/ /\ job' = [job EXCEPT ![w] = [job[w] EXCEPT !.row = r, !.start = n, !.size = 0]]
           /\ pc' = [pc EXCEPT ![w] = "read"]
           /\ UNCHANGED <<sources, todo>>
    BY <1>1, <1>8 DEF Resume, Aside, Rollback, Job
  <2>3. CASE /\ job' = [job EXCEPT ![w] = [job[w] EXCEPT !.row = r, !.start = n, !.size = 0]]
             /\ pc' = [pc EXCEPT ![w] = "read"]
             /\ UNCHANGED <<sources, todo>>
    <3>1. /\ p = Live /\ job[w].ino = at[Live] /\ job[w].size \in Nat
          /\ \A i \in DOMAIN sources : job[w].size >= 2 * sources[i].offset
      <4>1. job[w].size \in 0 .. 2 * MaxLines + 1
        BY <1>1 DEF Job
      <4>2. job[w].size \in Nat
        BY <4>1, Bounds
      <4>. QED
        BY <2>1, <4>2 DEF OneJob
    <3>2. r = Len(sources)
      BY <3>1, SameLog
    <3> HIDE DEF r, n
    <3>3. /\ pc'[w] = "read" /\ job'[w].path = Live /\ job'[w].ino = at[Live] /\ job'[w].row = r
      BY <1>1, <2>3, <3>1 DEF Job
    <3>. QED
      BY <1>1, <1>2, <2>3, <3>2, <3>3 DEF OneJob
  <2>. QED
    BY <1>5, <2>2, <2>3
<1>9. CASE Read(w)
  <2>1. \/ NextFile(w)
        \/ /\ job' = [job EXCEPT ![w] = [job[w] EXCEPT !.lines = WholeLines(job[w].path, job[w].start)]]
           /\ pc' = [pc EXCEPT ![w] = "commit"]
           /\ UNCHANGED <<sources, todo>>
    BY <1>1, <1>9 DEF Read, Aside, Rollback, Job
  <2>2. CASE /\ job' = [job EXCEPT ![w] = [job[w] EXCEPT !.lines = WholeLines(job[w].path, job[w].start)]]
             /\ pc' = [pc EXCEPT ![w] = "commit"]
             /\ UNCHANGED <<sources, todo>>
    <3> DEFINE t == WholeLines(job[w].path, job[w].start)
    <3>1. /\ pc[w] = "read" /\ job[w].path = Live /\ job[w].ino = at[Live] /\ job[w].row = Len(sources)
          /\ Resumes(job[w])
      BY <1>1, <1>9 DEF Read, Aside, OneJob, Working
    <3>2. job[w].start \in 0 .. MaxLines /\ job[w].start <= Len(File(Live).lines)
      <4>1. job[w].start \in 0 .. MaxLines /\ Len(File(Live).lines) \in 0 .. MaxLines
        BY <1>1, ReadableLog, ThreePaths DEF Job
      <4>2. CASE job[w].start = 0
        BY <4>1, <4>2, Bounds
      <4>3. CASE job[w].start # 0
        BY <3>1, <4>1, <4>3 DEF Resumes, OneRow
      <4>. QED
        BY <4>2, <4>3
    <3>3. /\ t \in Seq(Line)
          /\ Len(t) = 0 \/ job[w].start + Len(t) <= Len(File(Live).lines)
      BY <1>1, <3>1, <3>2, BatchOfLines, ThreePaths
    <3>4. job[w].start + Len(t) <= Len(File(Live).lines)
      BY <3>2, <3>3, Bounds
    <3> HIDE DEF t
    <3>5. job' = [job EXCEPT ![w] = [job[w] EXCEPT !.lines = t]]
      BY <2>2 DEF t
    <3>6. /\ pc'[w] = "commit" /\ job'[w].path = Live /\ job'[w].ino = at[Live]
          /\ job'[w].row = Len(sources) /\ job'[w].start = job[w].start /\ job'[w].lines = t
      BY <1>1, <2>2, <3>1, <3>5 DEF Job
    <3>. QED
      BY <1>1, <1>2, <2>2, <3>4, <3>6 DEF OneJob, File
  <2>. QED
    BY <1>5, <2>1, <2>2
<1>10. CASE Commit(w)
  <2>1. NextFile(w)
    BY <1>10 DEF Commit, Aside, Rollback
  <2>. QED
    BY <1>5, <2>1
<1>11. ~BeginGz(w) /\ ~ReadGz(w)
  BY DEF BeginGz, Aside, ReadGz, OneJob
<1>12. CASE Pick(w) \/ Delete(w)
  <2>1. \/ EndPass(w)
        \/ (\E s \in {"sweep", "delete", "again"} : pc' = [pc EXCEPT ![w] = s]) /\ UNCHANGED todo
    BY <1>12 DEF Pick, Delete
  <2>2. CASE (\E s \in {"sweep", "delete", "again"} : pc' = [pc EXCEPT ![w] = s]) /\ UNCHANGED todo
    <3>1. pc'[w] \in {"sweep", "delete", "again"} /\ todo'[w] \subseteq {Live}
      BY <1>1, <2>2
    <3>. QED
      BY <3>1 DEF OneJob
  <2>. QED
    BY <1>4, <2>1, <2>2
<1>13. CASE Sweep(w)
  BY <1>4, <1>13 DEF Sweep, Aside
<1>. QED
  BY <1>6, <1>7, <1>8, <1>9, <1>10, <1>11, <1>12, <1>13 DEF Ingest

LEMMA OneRowStep ==
  ASSUME IndexOK, OneRow, OneJob, Ingest(Background)
  PROVE  OneRow'
<1> DEFINE w == Background
<1>1. /\ w \in Workers /\ w \notin Refills /\ DbTyped /\ Working(w) /\ sources \in Seq(Source)
      /\ Len(sources) \in Nat /\ DOMAIN sources = 1 .. Len(sources)
      /\ DiskOK /\ at[Live] # None /\ Live \in Paths
  BY Bounds, ThreePaths DEF IndexOK, DbTyped, DiskOK, Logs
<1>2. at' = at /\ data' = data /\ File(Live)' = File(Live)
  <2>1. UNCHANGED disk
    BY <1>1, WorkerStep
  <2>. QED
    BY <2>1 DEF disk, File
<1>3. Len(sources) \in {0, 1}
  <2>1. CASE Len(sources) # 0
    <3>1. Len(sources) \in DOMAIN sources
      BY <1>1, <2>1
    <3>. QED
      BY <3>1 DEF OneRow
  <2>. QED
    BY <2>1
<1>4. \/ sources' = sources
      \/ Stores(w) \/ Archives(w) \/ Deletes(w) \/ sources' = Kept(sources, NotEmptied)
  BY <1>1, WorkerShape DEF Batches
<1>5. CASE sources' = sources
  BY <1>2, <1>5 DEF OneRow
<1>6. CASE Stores(w)
  <2> DEFINE j == job[w]
             n == j.start + Len(j.lines)
             h == HeadHash(Live, n)
             fresh == [path |-> j.path, ino |-> j.ino, hash |-> h, offset |-> n,
                       complete |-> FALSE, got |-> j.lines, ids |-> NewIds(Len(j.lines)),
                       mixed |-> w \in swapped]
             longer == [sources[j.row] EXCEPT !.hash = h, !.offset = n, !.got = @ \o j.lines,
                                              !.ids = @ \o NewIds(Len(j.lines)),
                                              !.mixed = @ \/ w \in swapped]
  <2>1. /\ pc[w] = "commit" /\ j.path = Live /\ j.ino = at[Live] /\ j.row = Len(sources)
        /\ n <= Len(File(Live).lines)
    BY <1>6 DEF Stores, OneJob
  <2>2. /\ n \in Nat
        /\ j.row # 0 => j.row \in DOMAIN sources /\ sources[j.row] \in Source
        /\ fresh \in Source
    <3>1. /\ n \in 0 .. MaxLines
          /\ j.row # 0 => j.row \in DOMAIN sources /\ sources[j.row] \in Source
          /\ [path |-> j.path, ino |-> j.ino, hash |-> HeadHash(j.path, n), offset |-> n,
              complete |-> FALSE, got |-> j.lines, ids |-> NewIds(Len(j.lines)),
              mixed |-> w \in swapped] \in Source
      BY <1>1, <2>1, StoredRows
    <3> HIDE DEF n
    <3>. QED
      BY <2>1, <3>1, Bounds
  <2>3. h = HeadOf(File(Live).lines, n)
    BY <1>1, <2>1, <2>2, HashOfHead DEF HeadOf
  <2>4. \/ j.row = 0 /\ sources' = Append(sources, fresh)
        \/ j.row # 0 /\ sources' = [sources EXCEPT ![j.row] = longer]
    BY <1>6, <2>1 DEF Stores
  <2>5. /\ fresh.path = Live /\ fresh.ino = at[Live] /\ ~fresh.complete /\ fresh.offset = n /\ fresh.hash = h
    BY <2>1
  <2>6. j.row # 0 => /\ longer.path = sources[j.row].path /\ longer.ino = sources[j.row].ino
                     /\ longer.complete = sources[j.row].complete /\ longer.offset = n /\ longer.hash = h
    BY <2>2 DEF Source
  <2> HIDE DEF fresh, longer, n, h
  <2>7. CASE j.row = 0
    <3>1. Len(sources) = 0 /\ sources' = Append(sources, fresh)
      BY <2>1, <2>4, <2>7
    <3>2. DOMAIN sources' = {1} /\ sources'[1] = fresh
      <4>1. DOMAIN sources' = 1 .. Len(sources) + 1 /\ sources'[Len(sources) + 1] = fresh
        BY <1>1, <2>2, <3>1
      <4>. QED
        BY <3>1, <4>1
    <3>. QED
      BY <1>2, <2>1, <2>3, <2>5, <3>2 DEF OneRow
  <2>8. CASE j.row # 0
    <3>1. j.row = 1 /\ DOMAIN sources = {1}
      BY <1>1, <1>3, <2>1, <2>8
    <3>2. DOMAIN sources' = {1} /\ sources'[1] = longer
      BY <2>4, <2>8, <3>1
    <3>3. sources[1].path = Live /\ sources[1].ino = at[Live] /\ ~sources[1].complete
      BY <3>1 DEF OneRow
    <3>. QED
      BY <1>2, <2>1, <2>3, <2>6, <2>8, <3>1, <3>2, <3>3 DEF OneRow
  <2>. QED
    BY <2>7, <2>8
<1>7. ~Archives(w)
  BY DEF Archives, OneJob
<1>8. CASE Deletes(w)
  <2>1. DOMAIN sources' = DOMAIN sources /\ \A i \in DOMAIN sources : sources'[i] = Without(sources[i], picked[w])
    BY <1>8 DEF Deletes
  <2>2. ASSUME NEW i \in DOMAIN sources
        PROVE  /\ Without(sources[i], picked[w]).path = sources[i].path
               /\ Without(sources[i], picked[w]).ino = sources[i].ino
               /\ Without(sources[i], picked[w]).hash = sources[i].hash
               /\ Without(sources[i], picked[w]).offset = sources[i].offset
               /\ Without(sources[i], picked[w]).complete = sources[i].complete
    <3>. sources[i] \in Source /\ Paired(sources[i])
      BY DEF IndexOK, DbTyped
    <3>1. /\ Without(sources[i], picked[w])["path"] = sources[i]["path"]
          /\ Without(sources[i], picked[w])["ino"] = sources[i]["ino"]
          /\ Without(sources[i], picked[w])["hash"] = sources[i]["hash"]
          /\ Without(sources[i], picked[w])["offset"] = sources[i]["offset"]
          /\ Without(sources[i], picked[w])["complete"] = sources[i]["complete"]
      BY <1>1, WithoutRow
    <3>. QED
      BY <3>1
  <2>. QED
    BY <1>2, <2>1, <2>2 DEF OneRow
<1>9. CASE sources' = Kept(sources, NotEmptied)
  <2>1. NotEmptied \in SUBSET (DOMAIN sources)
    BY DEF NotEmptied
  <2>2. /\ sources' \in Seq(Source) /\ Len(sources') <= Len(sources)
        /\ \A m \in DOMAIN sources' : \E i \in NotEmptied : sources'[m] = sources[i]
    BY <1>1, <1>9, <2>1, KeptRows
  <2>3. \A m \in DOMAIN sources' : m = 1
    <3>1. DOMAIN sources' = 1 .. Len(sources') /\ Len(sources') \in Nat
      BY <2>2, LenProperties
    <3>2. Len(sources') <= Len(sources)
      BY <2>2
    <3>3. \A m \in Nat, n \in {0, 1} : m <= n => m \in {0, 1}
      OBVIOUS
    <3>4. Len(sources') \in {0, 1}
      BY <1>3, <3>1, <3>2, <3>3
    <3>5. \A m \in 1 .. 1 : m = 1
      OBVIOUS
    <3>. QED
      BY <3>1, <3>4, <3>5
  <2>. QED
    BY <1>2, <2>1, <2>2, <2>3 DEF OneRow
<1>. QED
  BY <1>4, <1>5, <1>6, <1>7, <1>8, <1>9

LEMMA SingleStep ==
  ASSUME IndexOK, Single, Next
  PROVE  Single'
<1>1. /\ DiskOK /\ DbTyped /\ sources \in Seq(Source) /\ at \in [Paths -> Inodes \cup {None}]
      /\ rotations \in Nat /\ at[Live] \in Inodes
  BY ThreePaths, Bounds DEF IndexOK, DbTyped, DiskOK, DiskTyped, Logs
<1>2. CASE Outside
  <2>1. rotations' = 0 => rotations = 0
    <3>1. rotations' = rotations \/ rotations' = rotations + 1
      BY <1>2 DEF Outside, OnDiskOnly, WriteHalf, WriteLine, Rename, Reopen, CopyTruncate, Compress, Fill,
                  Compressed, GzipDies, Expire
    <3>. QED
      BY <1>1, <3>1
  <2>2. ASSUME rotations' = 0
        PROVE  /\ at' = at /\ at[Old] = None /\ at[Gz] = None
               /\ Len(File(Live).lines) <= Len(File(Live)'.lines)
               /\ File(Live)'.lines \in Seq(Line)
               /\ \A k \in DOMAIN File(Live).lines : File(Live)'.lines[k] = File(Live).lines[k]
    BY <1>1, <1>2, <2>1, <2>2, LogGrows DEF Single
  <2>3. UNCHANGED <<sources, pc, todo, job>>
    BY <1>2 DEF Outside, OnDiskOnly
  <2>4. ASSUME Alone' PROVE OneRow' /\ OneJob'
    <3>1. rotations' = 0 /\ Alone
      BY <2>1, <2>3, <2>4 DEF Alone
    <3>2. OneRow /\ OneJob
      BY <3>1 DEF Single
    <3>3. File(Live).lines \in Seq(Line) /\ Len(File(Live).lines) \in Nat /\ Len(File(Live)'.lines) \in Nat
      <4>1. File(Live).lines \in Seq(Line)
        BY <1>1, ThreePaths, ReadableLog, Bounds
      <4>. QED
        BY <2>2, <3>1, <4>1, LineNumbers
    <3>4. ASSUME NEW i \in DOMAIN sources
          PROVE  /\ sources[i].offset <= Len(File(Live)'.lines)
                 /\ sources[i].hash = HeadOf(File(Live)'.lines, sources[i].offset)
      <4>1. /\ sources[i].offset \in Nat /\ sources[i].offset <= Len(File(Live).lines)
            /\ sources[i].hash = HeadOf(File(Live).lines, sources[i].offset)
        BY <1>1, <3>2, RowType DEF OneRow
      <4>2. HeadOf(File(Live)'.lines, sources[i].offset) = HeadOf(File(Live).lines, sources[i].offset)
        BY <2>2, <3>1, <3>3, <4>1, SameHead
      <4>3. sources[i].offset <= Len(File(Live)'.lines)
        BY <2>2, <3>1, <3>3, <4>1
      <4>. QED
        BY <4>1, <4>2, <4>3
    <3>5. OneRow'
      BY <2>2, <2>3, <3>1, <3>2, <3>4 DEF OneRow, HeadOf
    <3>6. pc[Background] = "commit" =>
            job[Background].start + Len(job[Background].lines) <= Len(File(Live)'.lines)
      <4>. SUFFICES ASSUME pc[Background] = "commit"
                    PROVE  job[Background].start + Len(job[Background].lines) <= Len(File(Live)'.lines)
        OBVIOUS
      <4>1. job[Background].start + Len(job[Background].lines) \in 0..MaxLines
        BY Bounds DEF IndexOK, Working
      <4>2. job[Background].start + Len(job[Background].lines) <= Len(File(Live).lines)
        BY <3>2 DEF OneJob
      <4>3. job[Background].start + Len(job[Background].lines) \in Nat
        BY <4>1, Bounds
      <4>. QED
        BY <2>2, <3>1, <3>3, <4>2, <4>3
    <3>7. OneJob'
      BY <2>2, <2>3, <3>1, <3>2, <3>6 DEF OneJob
    <3>. QED
      BY <3>5, <3>7
  <2>. QED
    BY <2>2, <2>4 DEF Single
<1>3. CASE Crash
  <2>1. UNCHANGED <<disk, sources>> /\ todo' = [w \in Workers |-> {}]
        /\ pc' = [w \in Workers |-> IF w = Background \/ pc[w] = "idle" THEN "idle" ELSE "over"]
    BY <1>3 DEF Crash
  <2>2. at' = at /\ data' = data /\ rotations' = rotations
    BY <2>1 DEF disk
  <2>3. Alone' => Alone
    BY <1>3, AloneBefore DEF Next
  <2>4. OneJob'
    <3>1. pc'[Background] = "idle" /\ todo'[Background] = {}
      BY <2>1, Bounds
    <3>. QED
      BY <3>1 DEF OneJob
  <2>5. OneRow => OneRow'
    BY <2>1, <2>2 DEF OneRow, HeadOf, File
  <2>. QED
    BY <2>2, <2>3, <2>4, <2>5 DEF Single
<1>4. ASSUME NEW w \in Workers, Ingest(w) \/ Reindex(w) PROVE Single'
  <2>1. at' = at /\ rotations' = rotations
    <3>1. UNCHANGED disk
      BY <1>4, WorkerStep
    <3>. QED
      BY <3>1 DEF disk
  <2>2. ASSUME Alone' PROVE OneRow' /\ OneJob'
    <3>1. Alone /\ w \notin Refills
      BY <1>4, <2>2, AloneBefore DEF Next
    <3>2. w = Background /\ Ingest(Background)
      BY <1>4, <3>1 DEF Workers, Reindex, Aside
    <3>3. OneRow /\ OneJob /\ at[Old] = None /\ at[Gz] = None
      BY <3>1 DEF Single, Alone
    <3>. QED
      BY <3>2, <3>3, OneRowStep, OneJobStep
  <2>. QED
    BY <2>1, <2>2 DEF Single
<1>. QED
  BY <1>2, <1>3, <1>4 DEF Next

LEMMA SingleHolds == Spec => []Single
<1>1. Init => Single
  <2>. SUFFICES ASSUME Init PROVE Single
    OBVIOUS
  <2>1. at[Old] = None /\ at[Gz] = None
    BY ThreePaths DEF Init
  <2>2. /\ sources = <<>> /\ pc = [w \in Workers |-> "idle"] /\ todo = [w \in Workers |-> {}]
    BY DEF Init
  <2>3. pc[Background] = "idle" /\ todo[Background] = {}
    BY <2>2, Bounds
  <2>4. OneRow
    BY <2>2 DEF OneRow
  <2>5. OneJob
    BY <2>3 DEF OneJob
  <2>. QED
    BY <2>1, <2>4, <2>5 DEF Single
<1>2. ASSUME IndexOK, Single, [Next]_vars PROVE Single'
  <2>1. CASE Next
    BY <1>2, <2>1, SingleStep
  <2>2. CASE UNCHANGED vars
    BY <1>2, <2>2 DEF vars, disk, Single, Alone, OneRow, OneJob, HeadOf, File
  <2>. QED
    BY <1>2, <2>1, <2>2
<1>. QED
  BY <1>1, <1>2, IndexHolds, PTL DEF Spec

\* One ingester never takes a log that grew for another file, before and after any
\* number of restarts: while the log has not rotated and nobody reindexed, one source has
\* all that is indexed (_head_hash, log_index.py:343-356; _resume_point, 388-423).
THEOREM GrowthIsNoRotation == Spec => []ReadOnceAlone
<1>1. IndexOK /\ Single => ReadOnceAlone
  <2>. SUFFICES ASSUME IndexOK, Single, \A w \in Refills : pc[w] = "idle", rotations = 0,
                       NEW l \in 1 .. written
                PROVE  Cardinality(Entries(l)) <= 1
    BY DEF ReadOnceAlone, ReadOnceUntilRotated
  <2>1. OneRow
    BY DEF Single, Alone
  <2>2. Entries(l) \subseteq {1}
    BY <2>1 DEF Entries, OneRow
  <2>3. IsFiniteSet({1}) /\ Cardinality({1}) = 1
    BY FS_Singleton
  <2>. QED
    BY <2>2, <2>3, FS_Subset
<1>. QED
  BY <1>1, IndexHolds, SingleHolds, PTL
-----------------------------------------------------------------------------
(* A file that is resumed has been read up to the offset *)

\* The log at p grows where it is ...
Grows(p) ==
  /\ at[p] # None /\ at'[p] = at[p]
  /\ Len(File(p).lines) <= Len(File(p)'.lines) /\ Size(File(p)) <= Size(File(p)')
  /\ \A k \in DOMAIN File(p).lines : File(p)'.lines[k] = File(p).lines[k]
  /\ \A k \in DOMAIN File(p)'.lines : k > Len(File(p).lines) => File(p)'.lines[k] > written

\* ... or the live log, or a copy of it, is renamed to p ...
Renamed(p) ==
  /\ p = Old /\ File(p)'.lines = File(Live).lines
  /\ at'[p] = at[Live] \/ at'[p] \notin {at[Live], at[Old]}

\* ... or it starts again, as a new file or in place.
Restarts(p) ==
  /\ File(p)'.lines = <<>>
  /\ \/ at'[p] \notin {at[Live], at[Old]}
     \/ at'[p] = at[p] /\ Len(File(p).lines) > 0

LEMMA LogMoves ==
  ASSUME DiskOK, Outside, NEW p \in {Live, Old}, at'[p] # None
  PROVE  /\ Grows(p) \/ Renamed(p) \/ Restarts(p)
         /\ at'[Live] = at[Live] \/ at'[Live] \notin {at[Live], at[Old]}
<1>1. /\ at \in [Paths -> Inodes \cup {None}] /\ data \in [Inodes -> FileType] /\ kea \in Inodes
      /\ written \in 0 .. MaxLines
  BY DEF DiskOK, DiskTyped
<1>2. at[Live] \in Inodes /\ (at[Old] # None => at[Old] \in Inodes) /\ (at[Gz] # None => at[Gz] \in Inodes)
  BY <1>1, ThreePaths DEF DiskOK, Logs
<1>3. \A i \in Free : FreshInode(i)
  BY DEF Free, FreshInode
<1>4. \A i \in Inodes : data[i].lines \in Seq(Line) /\ Len(data[i].lines) \in Nat
                        /\ DOMAIN data[i].lines = 1 .. Len(data[i].lines)
  BY <1>1, LineNumbers DEF FileType

\* A log that the step leaves where it is, and does not write to but to end a line.
<1>5. ASSUME at'[p] = at[p], data'[at[p]].lines = data[at[p]].lines,
             data[at[p]].half => data'[at[p]].half
      PROVE  Grows(p)
  <2>1. at[p] \in Inodes
    BY <1>2, <1>5
  <2>2. Size(File(p)) <= Size(File(p)')
    BY <1>4, <1>5, <2>1 DEF Size, File
  <2>3. /\ Len(data[at[p]].lines) <= Len(data'[at[p]].lines)
        /\ \A k \in DOMAIN data'[at[p]].lines : ~ (k > Len(data[at[p]].lines))
    BY <1>4, <1>5, <2>1
  <2>. QED
    BY <1>5, <2>2, <2>3 DEF Grows, File
<1>6. CASE WriteHalf
  <2>1. at' = at /\ data' = [data EXCEPT ![kea] = [data[kea] EXCEPT !.half = TRUE]]
    BY <1>6 DEF WriteHalf
  <2>2. at[p] \in Inodes
    BY <1>2, <2>1
  <2>3. data'[at[p]].lines = data[at[p]].lines /\ (data[at[p]].half => data'[at[p]].half)
    BY <1>1, <2>1, <2>2 DEF FileType
  <2>. QED
    BY <1>5, <2>1, <2>3
<1>7. CASE Reopen \/ GzipDies \/ Expire
  <2>1. at' = at /\ data' = data
    BY <1>7 DEF Reopen, GzipDies, Expire
  <2>. QED
    BY <1>5, <2>1
<1>8. CASE WriteLine
  <2>1. at' = at /\ at[p] \in Inodes
    BY <1>2, <1>8 DEF WriteLine
  <2>2. /\ written \in 0 .. MaxLines - 1 /\ data' \in [Inodes -> FileType]
        /\ \A i \in Inodes : i # kea => data'[i] = data[i]
        /\ data'[kea].lines = Append(data[kea].lines, written + 1)
    BY <1>8, WriteLineSorted
  <2>3. CASE at[p] # kea
    BY <1>5, <2>1, <2>2, <2>3
  <2>4. CASE at[p] = kea
    <3>1. written + 1 \in Line /\ written + 1 > written
      BY <2>2, Bounds DEF Line
    <3>2. /\ Len(data'[kea].lines) = Len(data[kea].lines) + 1
          /\ DOMAIN data'[kea].lines = 1 .. Len(data[kea].lines) + 1
          /\ \A k \in 1 .. Len(data[kea].lines) : data'[kea].lines[k] = data[kea].lines[k]
          /\ data'[kea].lines[Len(data[kea].lines) + 1] = written + 1
      <4>1. data[kea].lines \in Seq(Line)
        BY <1>1, <1>4
      <4>. QED
        BY <2>2, <3>1, <4>1, AppendProperties
    <3>3. Size(data[kea]) <= Size(data'[kea])
      <4>1. Len(data[kea].lines) \in Nat
        BY <1>1, <1>4
      <4>2. Size(data[kea]) \in Nat /\ Size(data[kea]) <= 2 * Len(data[kea].lines) + 1
        <5>1. CASE data[kea].half
          BY <4>1, <5>1 DEF Size
        <5>2. CASE ~data[kea].half
          BY <4>1, <5>2 DEF Size
        <5>. QED
          BY <5>1, <5>2
      <4>3. Size(data'[kea]) \in Nat /\ 2 * Len(data'[kea].lines) <= Size(data'[kea])
        <5>1. CASE data'[kea].half
          BY <3>2, <4>1, <5>1 DEF Size
        <5>2. CASE ~data'[kea].half
          BY <3>2, <4>1, <5>2 DEF Size
        <5>. QED
          BY <5>1, <5>2
      <4>. QED
        BY <3>2, <4>1, <4>2, <4>3
    <3>4. \A k \in DOMAIN data'[kea].lines : k > Len(data[kea].lines) => data'[kea].lines[k] > written
      <4>1. Len(data[kea].lines) \in Nat
        BY <1>1, <1>4
      <4>2. \A k \in DOMAIN data'[kea].lines : k > Len(data[kea].lines) => k = Len(data[kea].lines) + 1
        BY <3>2, <4>1
      <4>. QED
        BY <3>1, <3>2, <4>2
    <3>5. Len(data[kea].lines) <= Len(data'[kea].lines)
          /\ \A k \in DOMAIN data[kea].lines : data'[kea].lines[k] = data[kea].lines[k]
      BY <1>1, <1>4, <3>2
    <3>. QED
      BY <2>1, <2>4, <3>3, <3>4, <3>5 DEF Grows, File
  <2>. QED
    BY <2>1, <2>3, <2>4
<1>9. CASE Rename
  <2>1. PICK i \in Free : /\ at' = [at EXCEPT ![Old] = at[Live], ![Live] = i]
                          /\ data' = [data EXCEPT ![i] = Blank]
    BY <1>9 DEF Rename
  <2>2. FreshInode(i) /\ at'[Old] = at[Live] /\ at'[Live] = i
    BY <1>1, <1>3, <2>1, ThreePaths
  <2>3. i \notin {at[Live], at[Old]} /\ data'[i].lines = <<>> /\ data'[at[Live]] = data[at[Live]]
    BY <1>1, <1>2, <2>1, <2>2, BlankFile, ThreePaths DEF FreshInode
  <2>4. p = Live => Restarts(p)
    BY <2>2, <2>3 DEF Restarts, File
  <2>5. p = Old => Renamed(p)
    BY <2>2, <2>3 DEF Renamed, File
  <2>. QED
    BY <2>2, <2>3, <2>4, <2>5
<1>10. CASE CopyTruncate
  <2>1. PICK i \in Free : /\ at' = [at EXCEPT ![Old] = i]
                          /\ data' = [data EXCEPT ![i] = File(Live), ![at[Live]] = Blank]
    BY <1>10 DEF CopyTruncate
  <2>2. FreshInode(i) /\ at'[Old] = i /\ at'[Live] = at[Live]
    BY <1>1, <1>3, <2>1, ThreePaths
  <2>3. i \notin {at[Live], at[Old]} /\ data'[i] = data[at[Live]] /\ data'[at[Live]] = Blank
    BY <1>1, <1>2, <2>1, <2>2, ThreePaths DEF FreshInode, File
  <2>4. p = Old => Renamed(p)
    BY <2>2, <2>3 DEF Renamed, File
  <2>5. CASE p = Live /\ Len(data[at[Live]].lines) > 0
    BY <2>2, <2>3, <2>5, BlankFile DEF Restarts, File
  <2>6. CASE p = Live /\ ~ (Len(data[at[Live]].lines) > 0)
    <3>1. data[at[Live]].lines = <<>> /\ ~data[at[Live]].half
      <4>1. Len(data[at[Live]].lines) = 0 /\ data[at[Live]].lines \in Seq(Line)
        BY <1>2, <1>4, <2>6
      <4>2. kea = at[Live]
        BY <1>1, <1>10, Bounds DEF CopyTruncate, DiskOK, Logs
      <4>. QED
        BY <1>10, <4>1, <4>2, EmptySeq DEF CopyTruncate
    <3>. QED
      BY <1>5, <2>2, <2>3, <2>6, <3>1, BlankFile
  <2>. QED
    BY <1>2, <1>4, <2>2, <2>4, <2>5, <2>6
<1>11. CASE Compress
  <2>1. PICK i \in Free : /\ at' = [at EXCEPT ![Gz] = i]
                          /\ data' = [data EXCEPT ![i] = Blank]
    BY <1>11 DEF Compress
  <2>2. FreshInode(i) /\ at'[Old] = at[Old] /\ at'[Live] = at[Live]
    BY <1>1, <1>3, <2>1, ThreePaths
  <2>3. at[p] # i /\ at[p] \in Inodes /\ at'[p] = at[p]
    BY <1>2, <2>2, ThreePaths DEF FreshInode
  <2>4. data'[at[p]] = data[at[p]]
    BY <1>1, <2>1, <2>3
  <2>. QED
    BY <1>5, <2>2, <2>3, <2>4
<1>12. CASE Compressed
  <2>1. /\ at' = [at EXCEPT ![Old] = None] /\ at[Gz] \in Inodes
        /\ data' = [data EXCEPT ![at[Gz]] = [data[at[Gz]] EXCEPT !.torn = FALSE]]
    BY <1>2, <1>12 DEF Compressed, DiskOK, Logs
  <2>2. at'[Old] = None /\ at'[Live] = at[Live]
    BY <1>1, <2>1, ThreePaths
  <2>3. \A j \in Inodes : data'[j].lines = data[j].lines /\ data'[j].half = data[j].half
    BY <1>1, <2>1 DEF FileType
  <2>4. p = Live
    BY <2>2
  <2>. QED
    BY <1>2, <1>5, <2>2, <2>3, <2>4
<1>13. CASE Fill
  <2>1. UNCHANGED at /\ data'[at[Live]] = data[at[Live]] /\ data'[at[Old]] = data[at[Old]]
    BY <1>13, FilledArchive
  <2>2. at'[p] = at[p] /\ data'[at[p]] = data[at[p]]
    BY <2>1
  <2>. QED
    BY <1>5, <2>1, <2>2
<1>. QED
  BY <1>6, <1>7, <1>8, <1>9, <1>10, <1>11, <1>12, <1>13 DEF Outside, OnDiskOnly

\* Line l of a source has been indexed, or is past its retention, or was pruned by an id
\* that had been given again.
Had(s, l) == l <= expired \/ l \in lost \/ \E i \in DOMAIN s.got : s.got[i] = l

\* What a source's hash begins with comes before what its path will get from the live log.
Hashed(s) == s.hash # <<>> => Beyond(s.hash[1], MaxLines, s.path)

\* The file at the path of s begins as the file did that s was read from.
IsOf(s) ==
  /\ at[s.path] = s.ino
  /\ s.hash # <<>> /\ File(s.path).lines # <<>> /\ File(s.path).lines[1] = s.hash[1]

\* All that precedes the offset has been read.
ReadUpTo(s, n) ==
  /\ n <= Len(File(s.path).lines)
  /\ \A k \in 1 .. n : Had(s, File(s.path).lines[k])

Faithful(s) == s.path \in {Live, Old} =>
  /\ Hashed(s)
  /\ s.offset > 0 /\ IsOf(s) => ReadUpTo(s, s.offset)

\* The file that a worker stat'ed is, while its path has the same inode, the file that it
\* reads, and the row that it resumes has all that precedes the offset.
InHand(w) ==
  LET j     == job[w]
      lines == File(j.path).lines IN
  /\ pc[w] \in {"begin", "read", "commit"} /\ j.path = Old => at[Live] # j.ino
  /\ pc[w] = "begin" /\ at[j.path] = j.ino => j.size <= Size(File(j.path))
  /\ pc[w] \in {"read", "commit"} =>
       /\ j.row # 0 => sources[j.row].ino = j.ino
       /\ at[j.path] = j.ino => /\ j.start <= Len(lines)
                                /\ j.row # 0 /\ ~sources[j.row].mixed =>
                                     ReadUpTo(sources[j.row], j.start)
  /\ pc[w] = "commit" /\ at[j.path] = j.ino =>
       /\ j.start + Len(j.lines) <= Len(lines)
       /\ \A k \in DOMAIN j.lines : lines[j.start + k] = j.lines[k]

AllRead ==
  /\ \A i \in DOMAIN sources : ~sources[i].mixed => Faithful(sources[i])
  /\ \A w \in Workers \ swapped : InHand(w)

\* A log that a resume takes for the file of its newest row has been read up to the offset.
LEMMA SameFileRead ==
  ASSUME IndexOK, \A i \in DOMAIN sources : ~sources[i].mixed => Faithful(sources[i]),
         NEW p \in {Live, Old}, at[p] # None,
         NEW size \in Nat, size <= Size(File(p)), SameFile(p, at[p], size)
  PROVE  LET s == sources[NewestRow(p)] IN
         /\ NewestRow(p) \in DOMAIN sources /\ s \in Source /\ s.path = p /\ s.ino = at[p]
         /\ s.offset \in Nat /\ s.offset <= Len(File(p).lines)
         /\ ~s.mixed => ReadUpTo(s, s.offset)
<1> DEFINE s == sources[NewestRow(p)]
           lines == File(p).lines
<1>1. /\ sources \in Seq(Source) /\ DiskOK /\ p \in Paths
  BY ThreePaths DEF IndexOK, DbTyped
<1>2. NewestRow(p) \in DOMAIN sources /\ s.path = p
  BY <1>1, NewestOfPath DEF SameFile
<1>3. /\ s \in Source /\ s.offset \in Nat /\ s.ino = at[p] /\ 2 * s.offset <= size
      /\ HeadHash(p, s.offset) = s.hash
  BY <1>1, <1>2, RowType DEF SameFile
<1>4. /\ lines \in Seq(Line) /\ Len(lines) \in Nat /\ Size(File(p)) \in Nat
      /\ Size(File(p)) <= 2 * Len(lines) + 1
  <2>1. lines \in Seq(Line) /\ Len(lines) \in Nat
    BY <1>1, ReadableLog, LineNumbers
  <2>2. CASE File(p).half
    BY <2>1, <2>2 DEF Size
  <2>3. CASE ~File(p).half
    BY <2>1, <2>3 DEF Size
  <2>. QED
    BY <2>1, <2>2, <2>3
<1>5. s.offset <= Len(lines)
  BY <1>3, <1>4
<1>6. CASE s.offset = 0
  BY <1>2, <1>3, <1>5, <1>6 DEF ReadUpTo
<1>7. CASE s.offset > 0 /\ ~s.mixed
  <2> DEFINE m == IF s.offset < Fingerprint THEN s.offset ELSE Fingerprint
  <2>1. s.hash = SubSeq(lines, 1, m)
    BY <1>1, <1>3, <1>5, HashOfHead
  <2>2. m \in Nat /\ 1 <= m /\ m <= Len(lines)
    BY <1>3, <1>4, <1>5, <1>7, Bounds
  <2> HIDE DEF m
  <2>3. Len(s.hash) = m /\ s.hash[1] = lines[1]
    <3>1. \A k \in 1 .. m : lines[k] \in Line
      BY <1>4, <2>2, LineNumbers
    <3>. QED
      BY <2>1, <2>2, <3>1, SubSeqProperties
  <2>4. s.hash # <<>> /\ lines # <<>>
    BY <1>4, <2>2, <2>3, EmptySeq
  <2>5. IsOf(s)
    BY <1>2, <1>3, <2>3, <2>4 DEF IsOf
  <2>6. Faithful(s)
    BY <1>2, <1>7
  <2>. QED
    BY <1>2, <1>3, <1>5, <1>7, <2>5, <2>6 DEF Faithful
<1>. QED
  BY <1>2, <1>3, <1>5, <1>6, <1>7

\* Writes and rotations spare what a row promises: a log that is renamed to its path, or
\* starts again there, begins with another line.
LEMMA FaithfulOutside ==
  ASSUME DiskOK, Outside, NEW s \in Source, Faithful(s)
  PROVE  Faithful(s)'
<1> DEFINE p == s.path
<1>1. SUFFICES ASSUME p \in {Live, Old} PROVE Hashed(s)' /\ (s.offset > 0 /\ IsOf(s)' => ReadUpTo(s, s.offset)')
  BY DEF Faithful
<1>2. /\ s.hash \in Seq(Line) /\ s.offset \in Nat /\ s.ino \in Inodes /\ p \in Paths
      /\ written \in Nat /\ expired \in Nat
  <2>1. /\ s.hash \in Seq(Line) /\ s.offset \in 0 .. MaxLines /\ s.ino \in Inodes
        /\ written \in 0 .. MaxLines /\ expired \in 0 .. written
    BY DEF Source, DiskOK, DiskTyped
  <2>2. s.offset \in Nat
    BY <2>1, Bounds
  <2>. QED
    BY <1>1, <2>1, <2>2, ThreePaths, Bounds
<1>3. Hashed(s)'
  <2>1. ASSUME s.hash # <<>> PROVE s.hash[1] \in Line
    BY <1>2, <2>1
  <2>2. MaxLines \in Nat
    BY Bounds
  <2>. QED
    BY <1>1, <2>1, <2>2, BeyondStep DEF Faithful, Hashed
<1>4. ASSUME s.offset > 0, IsOf(s)' PROVE ReadUpTo(s, s.offset)'
  <2>1. /\ at'[p] = s.ino /\ s.hash # <<>> /\ File(p)'.lines # <<>>
        /\ File(p)'.lines[1] = s.hash[1]
    BY <1>4 DEF IsOf
  <2>2. /\ s.hash[1] \in Line /\ s.hash[1] \in Nat /\ Beyond(s.hash[1], MaxLines, p)
    <3>1. Beyond(s.hash[1], MaxLines, p)
      BY <1>1, <2>1 DEF Faithful, Hashed
    <3>2. s.hash[1] \in Line
      BY <1>2, <2>1
    <3>. QED
      BY <3>1, <3>2, Bounds DEF Line
  <2>3. File(p)'.lines \in Seq(Line) /\ 1 \in DOMAIN File(p)'.lines
    <3>1. DiskOK' /\ at'[p] # None
      BY <1>2, <2>1, DiskStep, Bounds
    <3>2. data' \in [Inodes -> FileType] /\ at'[p] \in Inodes
      BY <1>2, <2>1, <3>1 DEF DiskOK, DiskTyped
    <3>3. File(p)' = data'[at'[p]]
      BY DEF File
    <3>4. File(p)'.lines \in Seq(Line)
      BY <3>2, <3>3 DEF FileType
    <3>. QED
      BY <2>1, <3>4
  <2>4. Grows(p) \/ Renamed(p) \/ Restarts(p)
    BY <1>1, <1>2, <2>1, LogMoves, Bounds
  <2>5. ~Restarts(p)
    BY <2>1 DEF Restarts
  <2>6. ~Renamed(p)
    <3>1. SUFFICES ASSUME Renamed(p) PROVE FALSE
      OBVIOUS
    <3>2. File(p)'.lines[1] = File(Live).lines[1] /\ 1 \in DOMAIN File(Live).lines /\ p = Old
      BY <2>3, <3>1 DEF Renamed
    <3>3. s.hash[1] < File(Live).lines[1]
      BY <2>2, <3>2 DEF Beyond
    <3>. QED
      BY <2>1, <2>2, <3>2, <3>3
  <2>7. Grows(p)
    BY <2>4, <2>5, <2>6
  <2>8. /\ File(p).lines \in Seq(Line) /\ Len(File(p).lines) \in Nat
        /\ DOMAIN File(p).lines = 1 .. Len(File(p).lines)
    BY <1>2, <2>7, ReadableLog, LineNumbers DEF Grows
  <2>9. Len(File(p)'.lines) \in Nat
    BY <2>3, LineNumbers
  <2>10. 1 <= Len(File(p).lines)
    <3>1. SUFFICES ASSUME Len(File(p).lines) = 0 PROVE FALSE
      BY <2>8
    <3>2. File(p)'.lines[1] > written
      BY <2>3, <2>7, <3>1 DEF Grows
    <3>. QED
      BY <1>2, <2>1, <2>2, <3>2 DEF Beyond
  <2>11. IsOf(s)
    <3>1. File(p).lines[1] = s.hash[1] /\ at[p] = s.ino
      BY <2>1, <2>7, <2>8, <2>10 DEF Grows
    <3>2. File(p).lines # <<>>
      BY <2>8, <2>10, EmptySeq
    <3>. QED
      BY <2>1, <3>1, <3>2 DEF IsOf
  <2>12. ReadUpTo(s, s.offset)
    BY <1>1, <1>4, <2>11 DEF Faithful
  <2>13. s.offset <= Len(File(p)'.lines)
    BY <1>2, <2>7, <2>8, <2>9, <2>12 DEF ReadUpTo, Grows
  <2>14. expired <= expired' /\ expired' \in Nat
    <3>1. expired' = expired \/ expired' = expired + 1
      BY DEF Outside, OnDiskOnly, WriteHalf, WriteLine, Rename, Reopen, CopyTruncate, Compress, Fill, Compressed,
             GzipDies, Expire
    <3>. QED
      BY <1>2, <3>1
  <2>15. ASSUME NEW k \in 1 .. s.offset PROVE Had(s, File(p).lines[k])'
    <3>1. k \in DOMAIN File(p).lines
      BY <1>2, <2>8, <2>12 DEF ReadUpTo
    <3>2. File(p)'.lines[k] = File(p).lines[k] /\ File(p).lines[k] \in Nat
      BY <2>7, <2>8, <3>1, LineNumbers DEF Grows
    <3>3. Had(s, File(p).lines[k])
      BY <2>12 DEF ReadUpTo
    <3>4. lost' = lost
      BY DEF Outside, OnDiskOnly
    <3>. QED
      BY <1>2, <2>14, <3>2, <3>3, <3>4 DEF Had
  <2>. QED
    BY <2>13, <2>15 DEF ReadUpTo, Had
<1>. QED
  BY <1>3, <1>4

\* While it is not replaced, what a worker has in hand stays its file.
LEMMA InHandOutside ==
  ASSUME IndexOK, AllRead, Outside, NEW w \in Workers \ swapped'
  PROVE  InHand(w)'
<1> DEFINE j == job[w]
           p == j.path
<1>1. /\ DiskOK /\ DbTyped /\ Working(w) /\ j \in Job /\ sources \in Seq(Source) /\ UNCHANGED <<sources, pc, job, lost>>
      /\ Swaps
  BY DEF IndexOK, DbTyped, Outside, OnDiskOnly
<1>2. SUFFICES ASSUME pc[w] \in {"begin", "read", "commit"} PROVE InHand(w)'
  BY <1>1 DEF InHand
<1>3. /\ p \in {Live, Old} /\ p \in Paths /\ j.ino \in Inodes /\ j.ino # None /\ StillThatFile(j.ino)
      /\ InHand(w)
  <2>1. p \in {Live, Old} /\ j.ino \in Inodes
    BY <1>1, <1>2 DEF Working
  <2>2. j.ino # None /\ job'[w].ino # None
    BY <1>1, <2>1, Bounds
  <2>3. w \notin swapped /\ StillThatFile(j.ino)
    BY <1>1, <2>2 DEF Swaps
  <2>. QED
    BY <2>1, <2>2, <2>3, ThreePaths DEF AllRead
<1>4. /\ j.size \in Nat /\ j.start \in Nat /\ j.lines \in Seq(Line) /\ Len(j.lines) \in Nat
      /\ DOMAIN j.lines = 1 .. Len(j.lines)
  <2>1. j.size \in 0 .. 2 * MaxLines + 1 /\ j.start \in 0 .. MaxLines /\ j.lines \in Seq(Line)
    BY <1>1 DEF Job
  <2>. QED
    BY <2>1, Bounds, LineNumbers
<1>5. p = Old => at[Live] # j.ino
  BY <1>2, <1>3 DEF InHand
<1>6. p = Old => at'[Live] # j.ino
  <2>1. SUFFICES ASSUME p = Old, at'[Live] = j.ino PROVE FALSE
    OBVIOUS
  <2>2. j.ino \in {at[Live], at[Old]}
    BY <1>3, <2>1 DEF StillThatFile
  <2>3. at'[Live] = at[Live] \/ at'[Live] \notin {at[Live], at[Old]}
    BY <1>1, <1>3, <2>1, LogMoves
  <2>. QED
    BY <1>5, <2>1, <2>2, <2>3
<1>7. ASSUME at'[p] = j.ino PROVE Grows(p)
  <2>1. j.ino \in {at[Live], at[Old]} /\ Len(data[j.ino].lines) <= Len(data'[j.ino].lines)
    BY <1>3, <1>7 DEF StillThatFile
  <2>2. Grows(p) \/ Renamed(p) \/ Restarts(p)
    BY <1>1, <1>3, <1>7, LogMoves
  <2>3. ~Renamed(p)
    BY <1>5, <1>7, <2>1 DEF Renamed
  <2>4. ~Restarts(p)
    <3>1. SUFFICES ASSUME Restarts(p) PROVE FALSE
      OBVIOUS
    <3>2. at'[p] = at[p] /\ Len(File(p).lines) > 0 /\ File(p)'.lines = <<>>
      BY <1>7, <2>1, <3>1 DEF Restarts
    <3>3. Len(data[j.ino].lines) > 0 /\ Len(data'[j.ino].lines) = 0
      <4>1. File(p) = data[at[p]] /\ File(p)' = data'[at'[p]] /\ at[p] = j.ino /\ at'[p] = j.ino
        BY <1>1, <1>7, <3>2 DEF File
      <4>2. data'[j.ino].lines = <<>> /\ Len(data[j.ino].lines) > 0
        BY <3>2, <4>1
      <4>. QED
        BY <4>2
    <3>4. Len(data[j.ino].lines) \in Nat
      BY <1>1, <1>3, LineNumbers DEF DiskOK, DiskTyped, FileType
    <3>. QED
      BY <2>1, <3>3, <3>4
  <2>. QED
    BY <2>2, <2>3, <2>4
<1>8. ASSUME at'[p] = j.ino
      PROVE  /\ at[p] = j.ino
             /\ Len(File(p).lines) \in Nat /\ Len(File(p)'.lines) \in Nat
             /\ Len(File(p).lines) <= Len(File(p)'.lines)
             /\ \A k \in 1 .. Len(File(p).lines) :
                  File(p)'.lines[k] = File(p).lines[k] /\ File(p).lines[k] \in Nat
             /\ Size(File(p)) \in Nat /\ Size(File(p)') \in Nat /\ Size(File(p)) <= Size(File(p)')
  <2>1. Grows(p)
    BY <1>7, <1>8
  <2>2. at[p] # None /\ at'[p] # None /\ at[p] = j.ino
    BY <1>3, <1>8, <2>1 DEF Grows
  <2>3. File(p).lines \in Seq(Line) /\ Size(File(p)) \in 2 * Len(File(p).lines) .. 2 * MaxLines + 1
    BY <1>1, <1>3, <2>2, ReadableLog
  <2>4. File(p)'.lines \in Seq(Line)
    <3>1. data' \in [Inodes -> FileType] /\ at'[p] \in Inodes
      BY <1>1, <1>3, <1>8, DiskStep DEF DiskOK, DiskTyped
    <3>2. File(p)' = data'[at'[p]]
      BY <1>1 DEF File
    <3>. QED
      BY <3>1, <3>2 DEF FileType
  <2>5. Len(File(p)'.lines) \in Nat
    BY <2>4, LineNumbers
  <2>6. Size(File(p)') \in Nat
    <3>1. CASE File(p)'.half
      BY <2>5, <3>1 DEF Size
    <3>2. CASE ~File(p)'.half
      BY <2>5, <3>2 DEF Size
    <3>. QED
      BY <3>1, <3>2
  <2>7. /\ Len(File(p).lines) \in Nat /\ DOMAIN File(p).lines = 1 .. Len(File(p).lines)
        /\ \A k \in DOMAIN File(p).lines : File(p).lines[k] \in Nat
    BY <2>3, LineNumbers
  <2>8. Size(File(p)) \in Nat
    BY <2>3, <2>7, Bounds
  <2>. QED
    BY <2>1, <2>2, <2>5, <2>6, <2>7, <2>8 DEF Grows
<1>9. ASSUME at'[p] = j.ino, pc[w] = "begin" PROVE j.size <= Size(File(p)')
  BY <1>3, <1>4, <1>8, <1>9 DEF InHand
<1>10. pc[w] \in {"read", "commit"} /\ j.row # 0 => sources[j.row].ino = j.ino
  BY <1>3 DEF InHand
<1>11. ASSUME at'[p] = j.ino, pc[w] \in {"read", "commit"}
       PROVE  /\ j.start <= Len(File(p)'.lines)
              /\ j.row # 0 /\ ~sources[j.row].mixed => ReadUpTo(sources[j.row], j.start)'
  <2>1. /\ j.start <= Len(File(p).lines)
        /\ j.row # 0 /\ ~sources[j.row].mixed => ReadUpTo(sources[j.row], j.start)
    BY <1>3, <1>8, <1>11 DEF InHand
  <2>2. j.start <= Len(File(p)'.lines)
    BY <1>4, <1>8, <1>11, <2>1
  <2>3. ASSUME j.row # 0, ~sources[j.row].mixed PROVE ReadUpTo(sources[j.row], j.start)'
    <3>1. sources[j.row].path = p
      BY <1>1, <1>11, <2>3 DEF Working, Resumes
    <3>2. expired <= expired' /\ expired' \in Nat /\ expired \in Nat
      <4>1. expired' = expired \/ expired' = expired + 1
        BY DEF Outside, OnDiskOnly, WriteHalf, WriteLine, Rename, Reopen, CopyTruncate, Compress, Fill, Compressed,
             GzipDies, Expire
      <4>2. expired \in Nat
        BY <1>1, Bounds DEF DiskOK, DiskTyped
      <4>. QED
        BY <4>1, <4>2
    <3>3. ASSUME NEW k \in 1 .. j.start PROVE Had(sources[j.row], File(p).lines[k])'
      <4>1. k \in 1 .. Len(File(p).lines)
        BY <1>4, <1>8, <1>11, <2>1
      <4>2. File(p)'.lines[k] = File(p).lines[k] /\ File(p).lines[k] \in Nat
        BY <1>8, <1>11, <4>1
      <4>3. Had(sources[j.row], File(p).lines[k])
        BY <2>1, <2>3, <3>1 DEF ReadUpTo
      <4>. QED
        BY <1>1, <3>2, <4>2, <4>3 DEF Had
    <3>. QED
      BY <1>1, <2>2, <3>1, <3>3 DEF ReadUpTo, Had
  <2>. QED
    BY <2>2, <2>3
<1>12. ASSUME at'[p] = j.ino, pc[w] = "commit"
       PROVE  /\ j.start + Len(j.lines) <= Len(File(p)'.lines)
              /\ \A k \in DOMAIN j.lines : File(p)'.lines[j.start + k] = j.lines[k]
  <2>1. /\ j.start + Len(j.lines) <= Len(File(p).lines)
        /\ \A k \in DOMAIN j.lines : File(p).lines[j.start + k] = j.lines[k]
    BY <1>3, <1>8, <1>12 DEF InHand
  <2>2. \A k \in DOMAIN j.lines : j.start + k \in 1 .. Len(File(p).lines)
    <3>1. Len(File(p).lines) \in Nat
      BY <1>8, <1>12
    <3>2. ASSUME NEW k \in 1 .. Len(j.lines) PROVE 1 <= j.start + k /\ j.start + k <= j.start + Len(j.lines)
      BY <1>4
    <3>. QED
      BY <1>4, <2>1, <3>1, <3>2
  <2>3. j.start + Len(j.lines) <= Len(File(p)'.lines)
    <3>1. Len(File(p).lines) \in Nat /\ Len(File(p)'.lines) \in Nat
          /\ Len(File(p).lines) <= Len(File(p)'.lines)
      BY <1>8, <1>12
    <3>. QED
      BY <1>4, <2>1, <3>1
  <2>4. \A k \in DOMAIN j.lines : File(p)'.lines[j.start + k] = File(p).lines[j.start + k]
    BY <1>8, <1>12, <2>2
  <2>. QED
    BY <2>1, <2>3, <2>4
<1>. QED
  BY <1>1, <1>6, <1>9, <1>10, <1>11, <1>12 DEF InHand

\* What a commit stores has been read up to the offset that it stores.
LEMMA FaithfulStored ==
  ASSUME IndexOK, AllRead, NEW w \in Workers, Stores(w),
         NEW i \in DOMAIN sources', ~sources'[i].mixed
  PROVE  Faithful(sources'[i])
<1> DEFINE j == job[w]
           p == j.path
           n == j.start + Len(j.lines)
           h == HeadHash(p, n)
           lines == File(p).lines
           fresh == [path |-> p, ino |-> j.ino, hash |-> h, offset |-> n,
                     complete |-> FALSE, got |-> j.lines, ids |-> NewIds(Len(j.lines)),
                     mixed |-> w \in swapped]
           longer == [sources[j.row] EXCEPT !.hash = h, !.offset = n, !.got = @ \o j.lines,
                                            !.ids = @ \o NewIds(Len(j.lines)),
                                            !.mixed = @ \/ w \in swapped]
<1>1. /\ DiskOK /\ DbTyped /\ Working(w) /\ sources \in Seq(Source) /\ Len(sources) \in Nat
      /\ DOMAIN sources = 1 .. Len(sources) /\ pc[w] = "commit" /\ at[p] # None
      /\ \A k \in DOMAIN sources : ~sources[k].mixed => Faithful(sources[k])
  BY DEF IndexOK, DbTyped, Stores, AllRead
<1>2. /\ p \in {Live, Old} /\ p \in Paths /\ n \in 0 .. MaxLines /\ j.lines \in Seq(Line)
      /\ fresh \in Source
      /\ j.row # 0 => j.row \in DOMAIN sources /\ sources[j.row] \in Source /\ longer \in Source
  BY <1>1, StoredRows, ThreePaths
<1>3. Resumes(j) /\ j.start \in Nat /\ Len(j.lines) \in Nat /\ DOMAIN j.lines = 1 .. Len(j.lines)
  <2>1. Resumes(j) /\ j.start \in 0 .. MaxLines
    BY <1>1 DEF Working, DbTyped, Job
  <2>. QED
    BY <1>2, <2>1, Bounds, LineNumbers
<1>4. n \in Nat
  BY <1>3
<1>5. lines \in Seq(Line) /\ Len(lines) \in Nat /\ DOMAIN lines = 1 .. Len(lines)
      /\ \A k \in DOMAIN lines : lines[k] <= written
  BY <1>1, <1>2, ReadableLog, LineNumbers
<1> HIDE DEF n
<1>6. ASSUME h # <<>> PROVE Beyond(h[1], MaxLines, p)
  <2> DEFINE m == Min({n, Fingerprint, Len(lines)})
  <2>1. m \in {n, Fingerprint, Len(lines)} /\ m <= Len(lines)
    BY <1>4, <1>5, Bounds, Least3
  <2>2. m \in Nat /\ h = SubSeq(lines, 1, m)
    BY <1>4, <1>5, <2>1, Bounds DEF HeadHash
  <2> HIDE DEF m, h
  <2>3. /\ h \in Seq(Line) /\ Len(h) = (IF 1 <= m THEN m - 1 + 1 ELSE 0)
        /\ \A k \in 1 .. m - 1 + 1 : h[k] = lines[1 + k - 1]
    <3>1. \A k \in 1 .. m : lines[k] \in Line
      BY <1>5, <2>1, <2>2, LineNumbers
    <3>2. 1 \in Int /\ m \in Int
      BY <2>2
    <3>. QED
      BY <2>2, <3>1, <3>2, SubSeqProperties
  <2>4. 1 <= m
    <3>1. Len(h) # 0
      BY <1>6, <2>3, EmptySeq
    <3>. QED
      BY <2>3, <3>1
  <2>5. h[1] = lines[1] /\ 1 \in DOMAIN lines
    BY <1>5, <2>1, <2>2, <2>3, <2>4
  <2>6. \A k \in DOMAIN lines : ~ (k > MaxLines)
    <3>1. Len(lines) \in 0 .. MaxLines
      BY <1>1, <1>2, ReadableLog
    <3>. QED
      BY <1>5, <3>1, Bounds
  <2>7. p = Old => \A k \in DOMAIN File(Live).lines : h[1] < File(Live).lines[k]
    BY <1>1, <2>5 DEF DiskOK, OldFirst
  <2>. QED
    BY <1>5, <2>5, <2>6, <2>7 DEF Beyond

\* The file is the one that was read: both the batch and what precedes it are its lines.
<1>7. ASSUME at[p] = j.ino, w \notin swapped
      PROVE  /\ n <= Len(lines)
             /\ \A k \in DOMAIN j.lines : lines[j.start + k] = j.lines[k]
             /\ j.row # 0 /\ ~sources[j.row].mixed => ReadUpTo(sources[j.row], j.start)
  BY <1>1, <1>7 DEF AllRead, InHand, n
<1>8. \A k \in 1 .. n : k \in 1 .. j.start \/ (k - j.start \in DOMAIN j.lines /\ j.start + (k - j.start) = k)
  BY <1>3 DEF n
<1> HIDE DEF h
<1>9. ~fresh.mixed => Faithful(fresh) \/ j.row # 0
  <2>1. SUFFICES ASSUME j.row = 0, w \notin swapped PROVE Faithful(fresh)
    OBVIOUS
  <2>2. j.start = 0
    BY <1>1, <1>3, <2>1, LenProperties DEF Resumes
  <2>3. /\ fresh.path = p /\ fresh.hash = h /\ fresh.offset = n /\ fresh.got = j.lines /\ fresh.ino = j.ino
    OBVIOUS
  <2> HIDE DEF fresh
  <2>4. Hashed(fresh)
    BY <1>6, <2>3 DEF Hashed
  <2>5. ASSUME IsOf(fresh) PROVE ReadUpTo(fresh, n)
    <3>1. at[p] = j.ino
      BY <2>3, <2>5 DEF IsOf
    <3>2. \A k \in 1 .. n : \E m \in DOMAIN j.lines : j.lines[m] = lines[k]
      BY <1>7, <1>8, <2>1, <2>2, <3>1
    <3>. QED
      BY <1>7, <2>1, <2>3, <3>1, <3>2 DEF ReadUpTo, Had
  <2>. QED
    BY <2>3, <2>4, <2>5 DEF Faithful
<1>10. j.row # 0 /\ ~longer.mixed => Faithful(longer)
  <2>1. SUFFICES ASSUME j.row # 0, ~longer.mixed PROVE Faithful(longer)
    OBVIOUS
  <2> DEFINE s == sources[j.row]
  <2>a. ~s.mixed /\ w \notin swapped
    BY <1>2, <2>1 DEF Source
  <2>2. s \in Source /\ s.path = p /\ s.ino = j.ino /\ s.got \in Seq(Line)
    <3>1. s.path = p
      BY <1>3, <2>1 DEF Resumes
    <3>2. s.ino = j.ino
      BY <1>1, <2>1, <2>a DEF AllRead, InHand
    <3>. QED
      BY <1>2, <2>1, <3>1, <3>2 DEF Source
  <2>3. /\ longer.path = p /\ longer.hash = h /\ longer.offset = n /\ longer.got = s.got \o j.lines
        /\ longer.ino = j.ino
    BY <2>2 DEF Source
  <2>4. /\ \A k \in DOMAIN s.got : \E m \in DOMAIN (s.got \o j.lines) : (s.got \o j.lines)[m] = s.got[k]
        /\ \A k \in DOMAIN j.lines : \E m \in DOMAIN (s.got \o j.lines) : (s.got \o j.lines)[m] = j.lines[k]
    <3> DEFINE a == s.got
               b == j.lines
    <3>1. a \in Seq(Line) /\ b \in Seq(Line)
      BY <1>2, <2>2
    <3> HIDE DEF a, b
    <3>2. /\ Len(a) \in Nat /\ DOMAIN a = 1 .. Len(a) /\ Len(b) \in Nat /\ DOMAIN b = 1 .. Len(b)
      BY <3>1, LineNumbers
    <3>3. /\ DOMAIN (a \o b) = 1 .. Len(a) + Len(b)
          /\ \A m \in 1 .. Len(a) + Len(b) : (a \o b)[m] = IF m <= Len(a) THEN a[m] ELSE b[m - Len(a)]
      <4>1. /\ a \o b \in Seq(Line) /\ Len(a \o b) = Len(a) + Len(b)
            /\ \A m \in 1 .. Len(a) + Len(b) : (a \o b)[m] = IF m <= Len(a) THEN a[m] ELSE b[m - Len(a)]
        BY <3>1, ConcatProperties
      <4>. QED
        BY <4>1, LineNumbers
    <3>4. \A k \in DOMAIN a : k \in DOMAIN (a \o b) /\ (a \o b)[k] = a[k]
      BY <3>2, <3>3
    <3>5. \A k \in DOMAIN b : Len(a) + k \in DOMAIN (a \o b) /\ (a \o b)[Len(a) + k] = b[k]
      <4>1. \A k \in DOMAIN b : /\ Len(a) + k \in 1 .. Len(a) + Len(b) /\ ~ (Len(a) + k <= Len(a))
                                /\ (Len(a) + k) - Len(a) = k
        BY <3>2
      <4>. QED
        BY <3>3, <4>1
    <3>. QED
      BY <3>4, <3>5 DEF a, b
  <2> HIDE DEF longer, s
  <2>5. Hashed(longer)
    BY <1>6, <2>3 DEF Hashed
  <2>6. ASSUME IsOf(longer) PROVE ReadUpTo(longer, n)
    <3>1. at[p] = j.ino
      BY <2>3, <2>6 DEF IsOf
    <3>2. ReadUpTo(s, j.start)
      BY <1>7, <2>1, <2>a, <3>1 DEF s
    <3>3. ASSUME NEW k \in 1 .. n PROVE Had(longer, lines[k])
      <4>1. CASE k \in 1 .. j.start
        <5>1. Had(s, lines[k])
          BY <2>2, <3>2, <4>1 DEF ReadUpTo
        <5>. QED
          BY <2>3, <2>4, <5>1 DEF Had
      <4>2. CASE k - j.start \in DOMAIN j.lines /\ j.start + (k - j.start) = k
        <5>1. lines[k] = j.lines[k - j.start]
          BY <1>7, <2>a, <3>1, <4>2
        <5>. QED
          BY <2>3, <2>4, <4>2, <5>1 DEF Had
      <4>. QED
        BY <1>8, <4>1, <4>2
    <3>. QED
      BY <1>7, <2>3, <2>a, <3>1, <3>3 DEF ReadUpTo
  <2>. QED
    BY <2>3, <2>5, <2>6 DEF Faithful
<1>11. \/ j.row = 0 /\ sources' = Append(sources, fresh)
       \/ j.row # 0 /\ sources' = [sources EXCEPT ![j.row] = longer]
  BY DEF Stores, h, n
<1> HIDE DEF fresh, longer
<1>12. CASE j.row = 0 /\ sources' = Append(sources, fresh)
  <2>1. /\ DOMAIN sources' = 1 .. Len(sources) + 1 /\ sources'[Len(sources) + 1] = fresh
        /\ \A k \in 1 .. Len(sources) : sources'[k] = sources[k]
    BY <1>1, <1>2, <1>12
  <2>. QED
    BY <1>1, <1>9, <1>12, <2>1
<1>13. CASE j.row # 0 /\ sources' = [sources EXCEPT ![j.row] = longer]
  <2>1. i \in DOMAIN sources /\ (sources'[i] = sources[i] \/ sources'[i] = longer)
    BY <1>13
  <2>. QED
    BY <1>1, <1>10, <1>13, <2>1
<1>. QED
  BY <1>11, <1>12, <1>13

\* Nothing that a worker does brings a line that was lost back, but a rebuild.
LEMMA LostForGood ==
  ASSUME NEW w \in Workers, Ingest(w) \/ Reindex(w)
  PROVE  lost \subseteq lost' \/ Reindex(w)
<1>1. CASE StartPass(w) \/ Stat(w) \/ Resume(w) \/ Read(w)
  BY <1>1 DEF StartPass, Stat, Resume, Read
<1>2. CASE Commit(w) \/ BeginGz(w) \/ Pick(w) \/ Sweep(w)
  BY <1>2 DEF Commit, BeginGz, Pick, Sweep
<1>3. CASE ReadGz(w) \/ Delete(w)
  BY <1>3 DEF ReadGz, Delete
<1>. QED
  BY <1>1, <1>2, <1>3 DEF Ingest

LEMMA FaithfulLater ==
  ASSUME UNCHANGED disk, lost \subseteq lost', NEW s, Faithful(s)
  PROVE  Faithful(s)'
<1>1. /\ Hashed(s)' <=> Hashed(s)
      /\ IsOf(s)' <=> IsOf(s)
  BY DEF disk, Hashed, IsOf, Beyond, File
<1>2. ReadUpTo(s, s.offset) => ReadUpTo(s, s.offset)'
  BY DEF disk, ReadUpTo, Had, File
<1>. QED
  BY <1>1, <1>2 DEF Faithful

LEMMA FaithfulWorker ==
  ASSUME IndexOK, AllRead, NEW w \in Workers, Ingest(w) \/ Reindex(w),
         NEW i \in DOMAIN sources', NEW r, r = sources'[i], ~r.mixed
  PROVE  Faithful(r)'
<1>1. /\ sources \in Seq(Source) /\ Len(sources) \in Nat /\ DOMAIN sources = 1 .. Len(sources)
      /\ \A k \in DOMAIN sources : ~sources[k].mixed => Faithful(sources[k])
      /\ \A k \in DOMAIN sources : sources[k] \in Source /\ Paired(sources[k])
      /\ UNCHANGED disk
  BY WorkerStep DEF IndexOK, DbTyped, AllRead
<1>2. \/ sources' = sources \/ Stores(w) \/ Archives(w) \/ Deletes(w)
      \/ sources' = Kept(sources, NotEmptied)
  <2>1. sources' # <<>>
    OBVIOUS
  <2>. QED
    BY <2>1, WorkerShape DEF Batches
<1>3. lost \subseteq lost'
  <2>1. ~Reindex(w)
    BY DEF Reindex
  <2>. QED
    BY <2>1, LostForGood
<1>4. ASSUME Faithful(r) PROVE Faithful(r)'
  BY <1>1, <1>3, <1>4, FaithfulLater
<1>5. CASE sources' = sources
  BY <1>1, <1>4, <1>5
<1>6. CASE Stores(w)
  BY <1>4, <1>6, FaithfulStored
<1>7. CASE Archives(w)
  <2> DEFINE fresh == [path |-> Gz, ino |-> job[w].ino, hash |-> <<>>, offset |-> 0,
                       complete |-> TRUE, got |-> File(Gz).lines,
                       ids |-> NewIds(Len(File(Gz).lines)), mixed |-> FALSE]
  <2>1. Faithful(fresh)
    BY ThreePaths DEF Faithful
  <2>2. sources' = Append(sources, fresh)
    BY <1>7 DEF Archives
  <2> HIDE DEF fresh
  <2>3. /\ DOMAIN sources' = 1 .. Len(sources) + 1 /\ sources'[Len(sources) + 1] = fresh
        /\ \A k \in 1 .. Len(sources) : sources'[k] = sources[k]
    BY <1>1, <2>2
  <2>. QED
    BY <1>1, <1>4, <2>1, <2>3
<1>8. CASE Deletes(w)
  <2> DEFINE s == sources[i]
             gone == picked[w]
  <2>1. i \in DOMAIN sources /\ r = Without(s, gone) /\ s \in Source /\ Paired(s)
    BY <1>1, <1>8 DEF Deletes
  <2>2. /\ r["path"] = s["path"] /\ r["ino"] = s["ino"] /\ r["hash"] = s["hash"]
        /\ r["offset"] = s["offset"] /\ r["mixed"] = s["mixed"]
        /\ \A n \in DOMAIN s.got : s.ids[n] \notin gone => \E m \in DOMAIN r.got : r.got[m] = s.got[n]
    BY <2>1, WithoutRow
  <2>3. expired \in Nat /\ \A n \in DOMAIN s.got : s.got[n] \in Line /\ s.got[n] \in Nat
    <3>1. s.got \in Seq(Line)
      BY <2>1 DEF Source
    <3>2. expired \in 0 .. written /\ written \in 0 .. MaxLines
      BY DEF IndexOK, DiskOK, DiskTyped
    <3>. QED
      BY <3>1, <3>2, LineNumbers, Bounds
  <2>4. ASSUME NEW n \in DOMAIN s.got, s.ids[n] \in gone, s.got[n] > expired
        PROVE  s.got[n] \in lost'
    <3>1. <<s.ids[n], s.got[n]>> \in Stored
      BY <2>1 DEF Stored
    <3>. QED
      BY <1>8, <2>3, <2>4, <3>1 DEF Deletes
  <2>5. Faithful(s)
    BY <1>1, <2>1, <2>2
  <2> HIDE DEF s, gone
  <2>6. \A l : Had(s, l) => Had(r, l)'
    <3>1. ASSUME NEW l, Had(s, l) PROVE Had(r, l)'
      <4>1. expired' = expired
        BY <1>1 DEF disk
      <4>2. CASE l <= expired \/ l \in lost
        BY <1>3, <4>1, <4>2 DEF Had
      <4>3. CASE \E n \in DOMAIN s.got : s.got[n] = l /\ ~(l <= expired)
        <5>1. PICK n \in DOMAIN s.got : s.got[n] = l /\ ~(l <= expired)
          BY <4>3
        <5>2. s.got[n] > expired
          BY <2>3, <5>1
        <5>. QED
          BY <2>2, <2>4, <5>1, <5>2 DEF Had
      <4>. QED
        BY <3>1, <4>2, <4>3 DEF Had
    <3>. QED
      BY <3>1
  <2>7. r.path = s.path /\ r.ino = s.ino /\ r.hash = s.hash /\ r.offset = s.offset
    BY <2>2
  <2>8. (Hashed(s) => Hashed(r)') /\ (IsOf(r)' => IsOf(s))
    BY <1>1, <2>7 DEF disk, Hashed, IsOf, Beyond, File
  <2>9. ReadUpTo(s, s.offset) => ReadUpTo(r, r.offset)'
    BY <1>1, <2>6, <2>7 DEF disk, ReadUpTo, File
  <2>. QED
    BY <2>5, <2>7, <2>8, <2>9 DEF Faithful
<1>9. CASE sources' = Kept(sources, NotEmptied)
  <2>1. NotEmptied \in SUBSET (DOMAIN sources)
    BY DEF NotEmptied
  <2>2. \E k \in DOMAIN sources : sources'[i] = sources[k]
    BY <1>1, <1>9, <2>1, KeptRows
  <2>. QED
    BY <1>1, <1>4, <2>2
<1>. QED
  BY <1>2, <1>5, <1>6, <1>7, <1>8, <1>9

\* A worker's own step, from the stat to the batch, keeps its file in hand.
LEMMA InHandWorker ==
  ASSUME IndexOK, AllRead, NEW w \in Workers, Ingest(w) \/ Reindex(w), Swaps, w \notin swapped'
  PROVE  InHand(w)'
<1> DEFINE j == job[w]
           p == j.path
<1>1. /\ DiskOK /\ DbTyped /\ Working(w) /\ j \in Job
      /\ sources \in Seq(Source) /\ pc \in [Workers -> Stages] /\ todo \in [Workers -> SUBSET Paths]
      /\ job \in [Workers -> Job]
      /\ \A k \in DOMAIN sources : ~sources[k].mixed => Faithful(sources[k])
  BY DEF IndexOK, DbTyped, AllRead
<1>2. at' = at /\ data' = data /\ expired' = expired
  <2>1. UNCHANGED disk
    BY WorkerStep
  <2>. QED
    BY <2>1 DEF disk
<1>3. ASSUME NEW q PROVE File(q)' = File(q)
  BY <1>2 DEF File
<1>4. ASSUME lost' = lost, NEW s, NEW n PROVE ReadUpTo(s, n)' <=> ReadUpTo(s, n)
  BY <1>2, <1>4 DEF ReadUpTo, Had, File
<1>a. ASSUME job'[w].ino = j.ino, j.ino \in Inodes PROVE InHand(w)
  <2>1. w \notin swapped
    BY <1>a, Bounds DEF Swaps
  <2>. QED
    BY <2>1 DEF AllRead
<1>5. ASSUME pc'[w] \notin {"begin", "read", "commit"} PROVE InHand(w)'
  BY <1>5 DEF InHand
<1>6. ASSUME NextFile(w) \/ EndPass(w) \/ \E files \in SUBSET Paths : Take(w, files)
      PROVE  InHand(w)'
  <2>1. pc'[w] \in {"idle", "over", "prune", "stat"}
    BY <1>1, <1>6, Onward
  <2>. QED
    BY <1>5, <2>1
<1>7. ASSUME Rollback(w) PROVE InHand(w)'
  BY <1>6, <1>7 DEF Rollback
<1>8. CASE StartPass(w) \/ Reindex(w)
  <2>1. Take(w, Siblings \cup {Live}) /\ Siblings \cup {Live} \in SUBSET Paths
    BY <1>8, ThreePaths DEF StartPass, Aside, Reindex, Siblings
  <2>. QED
    BY <1>6, <2>1
<1>9. CASE Stat(w)
  <2>1. PICK q \in Upcoming(w) :
          \/ /\ at[q] # None
             /\ job' = [job EXCEPT ![w] = [NoJob EXCEPT !.path = q, !.ino = at[q], !.size = Size(File(q))]]
             /\ pc' = [pc EXCEPT ![w] = IF q = Gz THEN "begin_gz" ELSE "begin"]
          \/ /\ at[q] = None
             /\ Take(w, todo[w] \ {q})
    BY <1>9 DEF Stat, Aside
  <2>2. q \in Paths /\ todo[w] \ {q} \in SUBSET Paths
    BY <1>1, <2>1, ThreePaths DEF Upcoming
  <2>3. CASE at[q] = None
    <3>1. Take(w, todo[w] \ {q})
      BY <2>1, <2>3
    <3>. QED
      BY <1>6, <2>2, <3>1
  <2>4. CASE at[q] # None /\ q = Gz
    <3>1. pc'[w] = "begin_gz"
      BY <1>1, <2>1, <2>4
    <3>. QED
      BY <1>5, <3>1
  <2>5. CASE at[q] # None /\ q # Gz
    <3>1. /\ pc'[w] = "begin"
          /\ job'[w] = [NoJob EXCEPT !.path = q, !.ino = at[q], !.size = Size(File(q))]
      BY <1>1, <2>1, <2>5
    <3>2. job'[w].path = q /\ job'[w].ino = at[q] /\ job'[w].size = Size(File(q))
      BY <3>1 DEF NoJob
    <3>3. q = Old => at[Live] # at[q]
      BY <1>1, <2>5, ThreePaths DEF DiskOK, Logs
    <3>4. Size(File(q)) \in Nat
      <4>1. Size(File(q)) \in 2 * Len(File(q).lines) .. 2 * MaxLines + 1 /\ Len(File(q).lines) \in 0 .. MaxLines
        BY <1>1, <2>2, <2>5, ReadableLog
      <4>. QED
        BY <4>1, Bounds
    <3>5. File(q)' = File(q)
      BY <1>2 DEF File
    <3>6. Size(File(q)) <= Size(File(q))
      BY <3>4
    <3>. QED
      BY <1>2, <3>1, <3>2, <3>3, <3>5, <3>6 DEF InHand, File
  <2>. QED
    BY <2>3, <2>4, <2>5
<1>10. CASE Resume(w)
  <2> DEFINE r == IF SameFile(p, j.ino, j.size) THEN NewestRow(p) ELSE 0
             n == IF r = 0 THEN 0 ELSE sources[r].offset
  <2>1. pc[w] = "begin"
    BY <1>10 DEF Resume, Aside
  <2>2. \/ Rollback(w)
        \/ /\ job' = [job EXCEPT ![w] = [j EXCEPT !.row = r, !.start = n, !.size = 0]]
           /\ pc' = [pc EXCEPT ![w] = "read"] /\ sources' = sources /\ lost' = lost
    BY <1>1, <1>10 DEF Resume, Aside, Job
  <2>3. CASE /\ job' = [job EXCEPT ![w] = [j EXCEPT !.row = r, !.start = n, !.size = 0]]
             /\ pc' = [pc EXCEPT ![w] = "read"] /\ sources' = sources /\ lost' = lost
    <3>1. /\ p \in {Live, Old} /\ p \in Paths /\ j.ino \in Inodes /\ j.ino # None /\ j.size \in Nat
      <4>1. p \in {Live, Old} /\ j.ino \in Inodes /\ j.size \in 0 .. 2 * MaxLines + 1
        BY <1>1, <2>1 DEF Working, Job
      <4>. QED
        BY <4>1, ThreePaths, Bounds
    <3>2. r # 0 => SameFile(p, j.ino, j.size) /\ r = NewestRow(p)
      OBVIOUS
    <3>3. n = IF r = 0 THEN 0 ELSE sources[r].offset
      OBVIOUS
    <3> HIDE DEF r, n
    <3>4. /\ pc'[w] = "read" /\ job'[w].path = p /\ job'[w].ino = j.ino /\ job'[w].row = r
          /\ job'[w].start = n
      BY <1>1, <2>3 DEF Job
    <3>a. InHand(w)
      BY <1>a, <3>1, <3>4
    <3>5. r # 0 => sources[r].ino = j.ino
      BY <3>2 DEF SameFile
    <3>6. ASSUME at[p] = j.ino
          PROVE  /\ n <= Len(File(p).lines)
                 /\ r # 0 /\ ~sources[r].mixed => ReadUpTo(sources[r], n)
      <4>1. Len(File(p).lines) \in Nat
        BY <1>1, <3>1, <3>6, ReadableLog, LineNumbers
      <4>2. CASE r = 0
        BY <3>3, <4>1, <4>2
      <4>3. CASE r # 0
        <5>1. j.size <= Size(File(p))
          BY <2>1, <3>6, <3>a DEF InHand
        <5>. QED
          BY <1>1, <3>1, <3>2, <3>3, <3>6, <4>3, <5>1, SameFileRead
      <4>. QED
        BY <4>2, <4>3
    <3>7. p = Old => at[Live] # j.ino
      BY <2>1, <3>a DEF InHand
    <3>. QED
      BY <1>2, <1>3, <1>4, <2>3, <3>4, <3>5, <3>6, <3>7 DEF InHand
  <2>. QED
    BY <1>7, <2>2, <2>3
<1>11. CASE Read(w)
  <2> DEFINE t == WholeLines(p, j.start)
  <2>1. \/ Rollback(w)
        \/ /\ pc[w] = "read" /\ at[p] # None
           /\ job' = [job EXCEPT ![w] = [j EXCEPT !.lines = t]]
           /\ pc' = [pc EXCEPT ![w] = "commit"]
           /\ sources' = sources /\ lost' = lost
    BY <1>1, <1>11 DEF Read, Aside, Job
  <2>2. CASE /\ pc[w] = "read" /\ at[p] # None
             /\ job' = [job EXCEPT ![w] = [j EXCEPT !.lines = t]]
             /\ pc' = [pc EXCEPT ![w] = "commit"]
             /\ sources' = sources /\ lost' = lost
    <3>1. p \in Paths /\ j.start \in 0 .. MaxLines /\ j.start \in Nat /\ j.ino \in Inodes
      <4>1. p \in {Live, Old} /\ j.start \in 0 .. MaxLines /\ j.ino \in Inodes
        BY <1>1, <2>2 DEF Working, Job
      <4>. QED
        BY <4>1, ThreePaths, Bounds
    <3>2. /\ t \in Seq(Line) /\ (Len(t) = 0 \/ j.start + Len(t) <= Len(File(p).lines))
          /\ \A k \in DOMAIN t : t[k] = File(p).lines[j.start + k]
      BY <1>1, <2>2, <3>1, BatchOfLines
    <3> HIDE DEF t
    <3>3. /\ pc'[w] = "commit" /\ job'[w].path = p /\ job'[w].ino = j.ino /\ job'[w].row = j.row
          /\ job'[w].start = j.start /\ job'[w].lines = t
      BY <1>1, <2>2 DEF Job
    <3>4. /\ p = Old => at[Live] # j.ino
          /\ j.row # 0 => sources[j.row].ino = j.ino
          /\ at[p] = j.ino => /\ j.start <= Len(File(p).lines)
                              /\ j.row # 0 /\ ~sources[j.row].mixed =>
                                   ReadUpTo(sources[j.row], j.start)
      <4>1. InHand(w)
        BY <1>a, <3>1, <3>3
      <4>. QED
        BY <2>2, <4>1 DEF InHand
    <3>5. at[p] = j.ino => j.start + Len(t) <= Len(File(p).lines)
      BY <3>1, <3>2, <3>4
    <3>. QED
      BY <1>2, <1>3, <1>4, <2>2, <3>2, <3>3, <3>4, <3>5 DEF InHand
  <2>. QED
    BY <1>7, <2>1, <2>2
<1>12. CASE Commit(w)
  <2>1. NextFile(w)
    BY <1>12 DEF Commit, Aside, Rollback
  <2>. QED
    BY <1>6, <2>1
<1>13. CASE BeginGz(w)
  <2>1. Rollback(w) \/ pc' = [pc EXCEPT ![w] = "read_gz"]
    BY <1>13 DEF BeginGz, Aside
  <2>2. CASE pc' = [pc EXCEPT ![w] = "read_gz"]
    <3>1. pc'[w] = "read_gz"
      BY <1>1, <2>2
    <3>. QED
      BY <1>5, <3>1
  <2>. QED
    BY <1>7, <2>1, <2>2
<1>14. CASE ReadGz(w)
  BY <1>6, <1>14 DEF ReadGz, Aside
<1>15. CASE Pick(w)
  <2>1. EndPass(w) \/ \E s \in {"sweep", "delete"} : pc' = [pc EXCEPT ![w] = s]
    BY <1>15 DEF Pick
  <2>2. CASE \E s \in {"sweep", "delete"} : pc' = [pc EXCEPT ![w] = s]
    <3>1. pc'[w] \in {"sweep", "delete"}
      BY <1>1, <2>2
    <3>. QED
      BY <1>5, <3>1
  <2>. QED
    BY <1>6, <2>1, <2>2
<1>16. CASE Delete(w) \/ Sweep(w)
  <2>1. EndPass(w) \/ pc' = [pc EXCEPT ![w] = "again"]
    BY <1>16 DEF Delete, Sweep
  <2>2. CASE pc' = [pc EXCEPT ![w] = "again"]
    <3>1. pc'[w] = "again"
      BY <1>1, <2>2
    <3>. QED
      BY <1>5, <3>1
  <2>. QED
    BY <1>6, <2>1, <2>2
<1>. QED
  BY <1>8, <1>9, <1>10, <1>11, <1>12, <1>13, <1>14, <1>15, <1>16 DEF Ingest

LEMMA AllReadStep ==
  ASSUME IndexOK, AllRead, Next
  PROVE  AllRead'
<1>1. /\ \A i \in DOMAIN sources : sources[i] \in Source /\ (~sources[i].mixed => Faithful(sources[i]))
      /\ \A w \in Workers \ swapped : InHand(w)
      /\ DiskOK /\ DbTyped
  BY DEF IndexOK, DbTyped, AllRead
<1>2. CASE Outside
  <2>1. UNCHANGED sources
    BY <1>2 DEF Outside, OnDiskOnly
  <2>2. \A s \in Source : Faithful(s) => Faithful(s)'
    BY <1>1, <1>2, FaithfulOutside
  <2>3. \A w \in Workers \ swapped' : InHand(w)'
    BY <1>2, InHandOutside
  <2>. QED
    BY <1>1, <2>1, <2>2, <2>3 DEF AllRead
<1>3. ASSUME NEW w \in Workers, Ingest(w) \/ (Reindex(w) /\ Swaps)
      PROVE  AllRead'
  <2>1. Apart(w) /\ UNCHANGED disk /\ Swaps
    BY <1>3, WorkerStep DEF Ingest
  <2>2. ASSUME NEW i \in DOMAIN sources', ~sources'[i].mixed PROVE Faithful(sources[i])'
    <3>1. \A r : r = sources'[i] => Faithful(r)'
      BY <1>3, <2>2, FaithfulWorker
    <3>. QED
      BY <3>1
  <2>3. w \notin swapped' => InHand(w)'
    BY <1>3, <2>1, InHandWorker
  <2>4. ASSUME NEW v \in Workers \ swapped', v # w PROVE InHand(v)'
    <3>1. /\ pc'[v] = pc[v] /\ job'[v] = job[v]
          /\ (pc[v] \in {"read", "commit"} => sources' = sources)
      BY <2>1, <2>4 DEF Apart, Within
    <3>2. SUFFICES ASSUME pc[v] \in {"begin", "read", "commit"} PROVE InHand(v)'
      BY <3>1 DEF InHand
    <3>3. InHand(v)
      <4>1. job[v].ino \in Inodes
        BY <3>2 DEF IndexOK, Working
      <4>2. v \notin swapped
        BY <2>1, <3>1, <4>1, Bounds DEF Swaps
      <4>. QED
        BY <1>1, <4>2
    <3>4. at' = at /\ \A q : File(q)' = File(q)
      BY <2>1 DEF disk, File
    <3>5. pc[v] = "begin" \/ lost \subseteq lost'
      <4>1. CASE Reindex(w) /\ pc[v] # "begin"
        <5>1. writer = None /\ writer = v
          BY <3>2, <4>1 DEF Reindex, IndexOK, Working, Within
        <5>. QED
          BY <5>1, Bounds
      <4>. QED
        BY <1>3, <4>1, LostForGood
    <3>6. ASSUME lost \subseteq lost', NEW s, NEW n, ReadUpTo(s, n) PROVE ReadUpTo(s, n)'
      BY <2>1, <3>6 DEF disk, ReadUpTo, Had, File
    <3>. QED
      BY <3>1, <3>2, <3>3, <3>4, <3>5, <3>6 DEF InHand
  <2>. QED
    BY <2>2, <2>3, <2>4 DEF AllRead
<1>4. CASE Crash
  <2>1. /\ \A w \in Workers : pc'[w] \in {"idle", "over"}
        /\ UNCHANGED <<disk, sources, lost>>
    BY <1>1, <1>4, CrashedWorkers DEF Crash
  <2>2. \A w \in Workers : InHand(w)'
    BY <2>1 DEF InHand
  <2>3. \A s : Faithful(s) => Faithful(s)'
    BY <2>1, FaithfulLater
  <2>. QED
    BY <1>1, <2>1, <2>2, <2>3 DEF AllRead
<1>. QED
  BY <1>2, <1>3, <1>4 DEF Next

LEMMA AllReadInit == Init => AllRead
<1>. SUFFICES ASSUME Init PROVE AllRead
  OBVIOUS
<1>1. sources = <<>> /\ pc = [w \in Workers |-> "idle"]
  BY DEF Init
<1>. QED
  BY <1>1 DEF AllRead, InHand

LEMMA AllReadStutter ==
  ASSUME AllRead, UNCHANGED vars
  PROVE  AllRead'
<1>1. UNCHANGED <<disk, sources, pc, job, swapped, lost>>
  BY DEF vars
<1>2. ASSUME NEW s PROVE Faithful(s)' <=> Faithful(s)
  BY <1>1 DEF disk, Faithful, Hashed, IsOf, ReadUpTo, Had, Beyond, File
<1>3. ASSUME NEW s, NEW n PROVE ReadUpTo(s, n)' <=> ReadUpTo(s, n)
  BY <1>1 DEF disk, ReadUpTo, Had, File
<1>4. ASSUME NEW q PROVE File(q)' = File(q)
  BY <1>1 DEF disk, File
<1>5. \A w \in Workers \ swapped : InHand(w)'
  BY <1>1, <1>3, <1>4 DEF AllRead, InHand, disk
<1>. QED
  BY <1>1, <1>2, <1>5 DEF AllRead

LEMMA AllReadResumes == IndexOK /\ AllRead => ResumesWhereItStopped
<1>. SUFFICES ASSUME IndexOK, AllRead, NEW p \in Paths \ {Gz}, at[p] # None,
                     SameFile(p, at[p], Size(File(p))), ~sources[NewestRow(p)].mixed,
                     NEW l \in ToSet(SubSeq(File(p).lines, 1, sources[NewestRow(p)].offset))
              PROVE  l <= expired \/ l \in lost \/ Contains(sources[NewestRow(p)].got, l)
  BY DEF ResumesWhereItStopped
<1> DEFINE s == sources[NewestRow(p)]
           lines == File(p).lines
<1>1. /\ p \in {Live, Old} /\ p \in Paths /\ DiskOK
      /\ \A i \in DOMAIN sources : ~sources[i].mixed => Faithful(sources[i])
  BY ThreePaths DEF IndexOK, AllRead
<1>2. Size(File(p)) \in Nat /\ lines \in Seq(Line) /\ Len(lines) \in Nat /\ DOMAIN lines = 1 .. Len(lines)
  <2>1. /\ lines \in Seq(Line) /\ Len(lines) \in 0 .. MaxLines
        /\ Size(File(p)) \in 2 * Len(lines) .. 2 * MaxLines + 1
    BY <1>1, ReadableLog
  <2>. QED
    BY <2>1, Bounds, LineNumbers
<1>3. s \in Source /\ s.path = p /\ s.offset \in Nat /\ ReadUpTo(s, s.offset)
  <2>1. Size(File(p)) <= Size(File(p))
    BY <1>2
  <2>. QED
    BY <1>1, <1>2, <2>1, SameFileRead
<1> HIDE DEF s
<1>4. s.offset <= Len(lines) /\ \A k \in 1 .. s.offset : Had(s, lines[k])
  BY <1>3 DEF ReadUpTo
<1>5. \E k \in 1 .. s.offset : l = lines[k]
  <2> DEFINE m == s.offset
  <2>1. l \in ToSet(SubSeq(lines, 1, m))
    BY DEF s
  <2>2. m \in Nat /\ m <= Len(lines) /\ \A k \in 1 .. m : lines[k] \in Line
    BY <1>2, <1>3, <1>4, LineNumbers
  <2> HIDE DEF m
  <2>3. /\ SubSeq(lines, 1, m) \in Seq(Line) /\ Len(SubSeq(lines, 1, m)) = (IF 1 <= m THEN m - 1 + 1 ELSE 0)
        /\ \A k \in 1 .. m - 1 + 1 : SubSeq(lines, 1, m)[k] = lines[1 + k - 1]
    <3>1. 1 \in Int /\ m \in Int
      BY <2>2
    <3>. QED
      BY <2>2, <3>1, SubSeqProperties
  <2>4. DOMAIN SubSeq(lines, 1, m) = 1 .. m
    BY <2>2, <2>3, LenProperties
  <2>5. \A k \in 1 .. m : SubSeq(lines, 1, m)[k] = lines[k]
    BY <2>2, <2>3
  <2>. QED
    BY <2>1, <2>4, <2>5 DEF ToSet, m
<1>6. PICK k \in 1 .. s.offset : l = lines[k]
  BY <1>5
<1>7. Had(s, l)
  BY <1>4, <1>6
<1>8. DOMAIN s.got = 1 .. Len(s.got)
  BY <1>3, LineNumbers DEF Source
<1>9. l <= expired \/ l \in lost \/ Contains(s.got, l)
  BY <1>7, <1>8 DEF Had, Contains
<1>. QED
  BY <1>9 DEF s

\* However the logs rotate, for any number of ingesters, prunes, rebuilds and losses of the
\* process: a log that the next pass goes on with has been indexed up to the offset, and is
\* never "resumed at a stale offset" (log_index.py:37-39; _resume_point, 388-423), but for
\* a row of an ingester whose file was emptied or replaced since its stat, and a line that
\* was pruned by an id given again.  Between two transactions the inode may go to a new
\* log: the hash of its head tells them apart.
THEOREM NeverAStaleOffset == Spec => []ResumesWhereItStopped
<1>1. ASSUME IndexOK, AllRead, [Next]_vars
      PROVE  AllRead'
  <2>1. CASE UNCHANGED vars
    BY <1>1, <2>1, AllReadStutter
  <2>2. CASE Next
    BY <1>1, <2>2, AllReadStep
  <2>. QED
    BY <1>1, <2>1, <2>2
<1>. QED
  BY <1>1, AllReadInit, AllReadResumes, IndexHolds, PTL DEF Spec
=============================================================================
