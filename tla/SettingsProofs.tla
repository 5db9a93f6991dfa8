--------------------------- MODULE SettingsProofs ---------------------------
(* Proofs about Settings, for any requests, versions and failures. *)
EXTENDS Settings, TLAPS

-----------------------------------------------------------------------------
(* Records of settings *)

\* What a new record holds where it was replaced, and that the rest is kept.
Replaced(S, v, p, c, l, x) ==
  [S EXCEPT !.config[v] = p, !.cmd[v] = c, !.paths[v] = l, !.ctrl = x]

LEMMA Replacing ==
  ASSUME NEW S \in Record, NEW v \in Versions, NEW p \in Value, NEW c \in Value,
         NEW l \in Value, NEW x \in Value
  PROVE  /\ Replaced(S, v, p, c, l, x) \in Record
         /\ Replaced(S, v, p, c, l, x).config = [S.config EXCEPT ![v] = p]
         /\ Replaced(S, v, p, c, l, x).cmd = [S.cmd EXCEPT ![v] = c]
         /\ Replaced(S, v, p, c, l, x).paths = [S.paths EXCEPT ![v] = l]
         /\ Replaced(S, v, p, c, l, x).ctrl = x
  BY DEF Replaced, Record

LEMMA Placing ==
  ASSUME NEW S \in Record
  PROVE  /\ Placed(S) \in Record
         /\ Placed(S).config = S.config /\ Placed(S).cmd = S.cmd /\ Placed(S).ctrl = S.ctrl
         /\ \A v \in Versions : Placed(S).paths[v] = Beside(S.config[v])
  BY DEF Placed, Beside, Record, Value

LEMMA ReadingTypes ==
  ASSUME TypeOK
  PROVE  /\ Defaults \in Record /\ Discovered \in Record
         /\ LoadSettings \in Record /\ StartUp \in Record
         /\ SomeVersion \in Versions
         /\ Discovered.cmd = Defaults.cmd
         /\ \A v \in Versions :
              /\ SeedOther(LoadSettings, v) \in Record
              /\ SeedOther(LoadSettings, v).cmd = LoadSettings.cmd
              /\ SeedOther(LoadSettings, v).ctrl = LoadSettings.ctrl
              /\ SeedOther(LoadSettings, v).config =
                   [live.config EXCEPT ![v] = LoadSettings.config[v]]
              /\ SeedOther(LoadSettings, v).paths =
                   [live.paths EXCEPT ![v] = LoadSettings.paths[v]]
<1>1. Defaults \in Record /\ SomeVersion \in Versions
  BY SettingsAssumption DEF Defaults, Record, Value, SomeVersion, SettingsAssumption
<1>d. Discovered \in Record /\ Discovered.cmd = Defaults.cmd
  <2> DEFINE f == [v \in Versions |-> IF v \in Installed THEN "found" ELSE "default"]
             D == [Defaults EXCEPT !.config = f]
  <2>1. f \in [Versions -> Value]
    BY DEF Value
  <2>2. D \in Record /\ D.cmd = Defaults.cmd
    BY <1>1, <2>1 DEF Record
  <2>3. Discovered = Placed(D)
    BY DEF Discovered
  <2> HIDE DEF D
  <2>. QED
    BY <2>2, <2>3, Placing
<1>2. LoadSettings \in Record
  BY <1>1 DEF LoadSettings, TypeOK
<1>s. StartUp \in Record
  BY <1>2, <1>d, Placing DEF StartUp
<1>3. ASSUME NEW v \in Versions
      PROVE  /\ SeedOther(LoadSettings, v) \in Record
             /\ SeedOther(LoadSettings, v).cmd = LoadSettings.cmd
             /\ SeedOther(LoadSettings, v).ctrl = LoadSettings.ctrl
             /\ SeedOther(LoadSettings, v).config =
                  [live.config EXCEPT ![v] = LoadSettings.config[v]]
             /\ SeedOther(LoadSettings, v).paths =
                  [live.paths EXCEPT ![v] = LoadSettings.paths[v]]
  <2> DEFINE L == LoadSettings
             f == [w \in Versions |-> IF w = v THEN L.config[w] ELSE live.config[w]]
             g == [w \in Versions |-> IF w = v THEN L.paths[w] ELSE live.paths[w]]
  <2>1. L \in Record /\ live \in Record
    BY <1>2 DEF TypeOK
  <2>2. SeedOther(L, v) = [L EXCEPT !.config = f, !.paths = g]
    BY <2>1 DEF SeedOther, Record
  <2>3. /\ f \in [Versions -> Value] /\ f = [live.config EXCEPT ![v] = L.config[v]]
        /\ g \in [Versions -> Value] /\ g = [live.paths EXCEPT ![v] = L.paths[v]]
    BY <2>1 DEF Record
  <2> HIDE DEF f, g, L
  <2>4. /\ SeedOther(L, v) \in Record /\ SeedOther(L, v).config = f
        /\ SeedOther(L, v).paths = g
        /\ SeedOther(L, v).cmd = L.cmd /\ SeedOther(L, v).ctrl = L.ctrl
    BY <2>1, <2>2, <2>3 DEF Record
  <2>. QED
    BY <2>3, <2>4 DEF L
<1>. QED
  BY <1>1, <1>2, <1>3, <1>d, <1>s

\* What a form makes of a record of settings.
Filing(S, r, F, p) == [Entered(S, r, F) EXCEPT !.config[ver[r]] = p]

LEMMA EnteredIs ==
  ASSUME TypeOK, NEW r \in Requests, NEW S \in Record, NEW F \in Forms, NEW p \in Value
  PROVE  /\ Filing(S, r, F, p) \in Record
         /\ Filing(S, r, F, p).config = [S.config EXCEPT ![ver[r]] = p]
         /\ \E c \in Value : Filing(S, r, F, p).cmd = [S.cmd EXCEPT ![ver[r]] = c]
         /\ \E l \in Value : Filing(S, r, F, p).paths = [S.paths EXCEPT ![ver[r]] = l]
<1> DEFINE v == ver[r]
           c == Filled("cmd" \in F, r, live.cmd[v])
           l == Filled("paths" \in F, r, live.paths[v])
           x == Filled("ctrl" \in F, r, live.ctrl)
<1>1. v \in Versions /\ c \in Value /\ l \in Value /\ x \in Value
  BY DEF TypeOK, Record, Value, Filled
<1>2. Entered(S, r, F) = [S EXCEPT !.cmd[v] = c, !.paths[v] = l, !.ctrl = x]
  BY DEF Entered
<1> HIDE DEF v, c, l, x
<1>3. Filing(S, r, F, p) = Replaced(S, v, p, c, l, x)
  <2>1. [Entered(S, r, F) EXCEPT !.config[v] = p] = Replaced(S, v, p, c, l, x)
    BY <1>1, <1>2 DEF Replaced, Record
  <2>. QED
    BY <2>1 DEF Filing, v
<1>4. /\ Replaced(S, v, p, c, l, x) \in Record
      /\ Replaced(S, v, p, c, l, x).config = [S.config EXCEPT ![v] = p]
      /\ Replaced(S, v, p, c, l, x).cmd = [S.cmd EXCEPT ![v] = c]
      /\ Replaced(S, v, p, c, l, x).paths = [S.paths EXCEPT ![v] = l]
  BY <1>1, Replacing
<1>. QED
  BY <1>1, <1>3, <1>4, Zenon DEF v

\* What a request is about to save: the pointer it resolved, or the path it was
\* given; the other version's paths as they are live, or as they were loaded; the
\* rest as loaded.
LEMMA Composed ==
  ASSUME TypeOK, NEW r \in Requests, Compose(r) \/ ComposeRepoint(r)
  PROVE  /\ new'[r] \in Record
         /\ new' = [new EXCEPT ![r] = new'[r]]
         /\ kind[r] = "save" =>
              /\ new'[r].config = [live.config EXCEPT ![ver[r]] = cur[r]]
              /\ \E l \in Value : new'[r].paths = [live.paths EXCEPT ![ver[r]] = l]
         /\ kind[r] = "repoint" =>
              /\ new'[r].config = [LoadSettings.config EXCEPT ![ver[r]] = r]
              /\ \E l \in Value : new'[r].paths = [LoadSettings.paths EXCEPT ![ver[r]] = l]
         /\ \E c \in Value : new'[r].cmd = [LoadSettings.cmd EXCEPT ![ver[r]] = c]
<1> DEFINE v == ver[r]
           N == new'[r]
<1>1. v \in Versions /\ live \in Record /\ cur[r] \in Value /\ r \in Value
  BY DEF TypeOK, Value
<1>3. CASE Compose(r)
  <2> DEFINE S == SeedOther(LoadSettings, v)
  <2>1. PICK F \in Forms : new' = [new EXCEPT ![r] = [Entered(S, r, F) EXCEPT !.config[v] = cur[r]]]
    BY <1>3 DEF Compose
  <2>2. S \in Record /\ S.cmd = LoadSettings.cmd
        /\ S.config = [live.config EXCEPT ![v] = LoadSettings.config[v]]
        /\ S.paths = [live.paths EXCEPT ![v] = LoadSettings.paths[v]]
    BY <1>1, ReadingTypes
  <2>3. N = [Entered(S, r, F) EXCEPT !.config[v] = cur[r]] /\ new' = [new EXCEPT ![r] = N]
    BY <2>1 DEF TypeOK
  <2>n. N = Filing(S, r, F, cur[r])
    BY <2>3 DEF Filing
  <2> HIDE DEF S, N
  <2>4. /\ N \in Record /\ N.config = [S.config EXCEPT ![v] = cur[r]]
        /\ \E c \in Value : N.cmd = [S.cmd EXCEPT ![v] = c]
        /\ \E l \in Value : N.paths = [S.paths EXCEPT ![v] = l]
    <3>1. PICK p \in Value : p = cur[r]
      BY <1>1
    <3>2. LET M == Filing(S, r, F, p) IN
          /\ M \in Record /\ M.config = [S.config EXCEPT ![ver[r]] = p]
          /\ \E c \in Value : M.cmd = [S.cmd EXCEPT ![ver[r]] = c]
          /\ \E l \in Value : M.paths = [S.paths EXCEPT ![ver[r]] = l]
      BY <2>2, EnteredIs
    <3>. QED
      BY <2>n, <3>1, <3>2
  <2>5. N.config = [live.config EXCEPT ![v] = cur[r]]
    BY <1>1, <2>2, <2>4 DEF Record
  <2>6. \E l \in Value : N.paths = [live.paths EXCEPT ![v] = l]
    <3>1. PICK l \in Value : N.paths = [S.paths EXCEPT ![v] = l]
      BY <2>4
    <3>2. N.paths = [live.paths EXCEPT ![v] = l]
      BY <1>1, <2>2, <3>1 DEF Record
    <3>. QED
      BY <3>2
  <2> USE DEF N
  <2>. QED
    BY <1>3, <2>2, <2>3, <2>4, <2>5, <2>6 DEF Compose
<1>4. CASE ComposeRepoint(r)
  <2> DEFINE S == LoadSettings
  <2>1. PICK F \in Forms : new' = [new EXCEPT ![r] = [Entered(S, r, F) EXCEPT !.config[v] = r]]
    BY <1>4 DEF ComposeRepoint
  <2>2. S \in Record
    BY ReadingTypes
  <2>3. N = [Entered(S, r, F) EXCEPT !.config[v] = r] /\ new' = [new EXCEPT ![r] = N]
    BY <2>1 DEF TypeOK
  <2>n. N = Filing(S, r, F, r)
    BY <2>3 DEF Filing
  <2> HIDE DEF S, N
  <2>4. /\ N \in Record /\ N.config = [S.config EXCEPT ![v] = r]
        /\ \E c \in Value : N.cmd = [S.cmd EXCEPT ![v] = c]
        /\ \E l \in Value : N.paths = [S.paths EXCEPT ![v] = l]
    BY <1>1, <2>2, <2>n, EnteredIs
  <2> USE DEF N, S
  <2>. QED
    BY <1>4, <2>3, <2>4 DEF ComposeRepoint
<1>. QED
  BY <1>3, <1>4

\* What the application runs with once a request is applied.
LEMMA AppliedIs ==
  ASSUME TypeOK, NEW r \in Requests
  PROVE  /\ Applied(r) \in Record
         /\ Applied(r).config = IF kind[r] = "repoint"
              THEN [live.config EXCEPT ![ver[r]] = new[r].config[ver[r]]] ELSE live.config
         /\ Applied(r).cmd = [live.cmd EXCEPT ![ver[r]] = new[r].cmd[ver[r]]]
         /\ Applied(r).paths = [live.paths EXCEPT ![ver[r]] = new[r].paths[ver[r]]]
         /\ Applied(r).ctrl = new[r].ctrl
<1> DEFINE v == ver[r]
           N == new[r]
           p == IF kind[r] = "repoint" THEN N.config[v] ELSE live.config[v]
<1>1. /\ v \in Versions /\ N \in Record /\ live \in Record /\ p \in Value
      /\ N.cmd[v] \in Value /\ N.paths[v] \in Value /\ N.ctrl \in Value
  BY DEF TypeOK, Record
<1>2. Applied(r) = Replaced(live, v, p, N.cmd[v], N.paths[v], N.ctrl)
  BY <1>1 DEF Applied, Replaced, Record
<1>3. [live.config EXCEPT ![v] = p] =
        IF kind[r] = "repoint" THEN [live.config EXCEPT ![v] = N.config[v]] ELSE live.config
  BY <1>1 DEF Record
<1> HIDE DEF v, N, p
<1>4. /\ Applied(r) \in Record /\ Applied(r).config = [live.config EXCEPT ![v] = p]
      /\ Applied(r).cmd = [live.cmd EXCEPT ![v] = N.cmd[v]]
      /\ Applied(r).paths = [live.paths EXCEPT ![v] = N.paths[v]]
      /\ Applied(r).ctrl = N.ctrl
  <2>1. LET R == Replaced(live, v, p, N.cmd[v], N.paths[v], N.ctrl) IN
        /\ R \in Record
        /\ R.config = [live.config EXCEPT ![v] = p]
        /\ R.cmd = [live.cmd EXCEPT ![v] = N.cmd[v]]
        /\ R.paths = [live.paths EXCEPT ![v] = N.paths[v]]
        /\ R.ctrl = N.ctrl
    <3> DEFINE c == N.cmd[v]
               l == N.paths[v]
               x == N.ctrl
    <3>1. c \in Value /\ l \in Value /\ x \in Value
      BY <1>1
    <3> HIDE DEF c, l, x
    <3>2. LET R == Replaced(live, v, p, c, l, x) IN
          /\ R \in Record
          /\ R.config = [live.config EXCEPT ![v] = p]
          /\ R.cmd = [live.cmd EXCEPT ![v] = c]
          /\ R.paths = [live.paths EXCEPT ![v] = l]
          /\ R.ctrl = x
      BY <1>1, <3>1 DEF Replaced, Record
    <3>. QED
      BY <3>2 DEF c, l, x
  <2>. QED
    BY <1>2, <2>1, Zenon
<1>. QED
  BY <1>3, <1>4 DEF v, N

-----------------------------------------------------------------------------
(* Type correctness *)

LEMMA EndType ==
  ASSUME TypeOK, NEW R \in SUBSET Requests, End(R)
  PROVE  /\ pc' \in [Requests -> PCs] /\ kind' \in [Requests -> AllKinds]
         /\ ver' \in [Requests -> Versions] /\ key' \in [Requests -> Value]
         /\ cur' \in [Requests -> Value] /\ new' \in [Requests -> Record]
<1>1. pc' \in [Requests -> PCs] /\ kind' \in [Requests -> AllKinds]
  BY DEF TypeOK, End, NoLocals, PCs, AllKinds
<1>2. ver' \in [Requests -> Versions] /\ new' \in [Requests -> Record]
  BY ReadingTypes DEF TypeOK, End, NoLocals
<1>3. key' \in [Requests -> Value] /\ cur' \in [Requests -> Value]
  BY DEF TypeOK, End, NoLocals, Value
<1>. QED
  BY <1>1, <1>2, <1>3

\* Every value the program stores is a setting of its sort.
THEOREM TypeCorrect == Spec => []TypeOK
<1>1. Init => TypeOK
  <2> SUFFICES ASSUME Init PROVE TypeOK
    OBVIOUS
  <2>1. Defaults \in Record /\ SomeVersion \in Versions
    BY SettingsAssumption DEF Defaults, Record, Value, SomeVersion, SettingsAssumption
  <2>d. Discovered \in Record
    <3> DEFINE f == [v \in Versions |-> IF v \in Installed THEN "found" ELSE "default"]
               D == [Defaults EXCEPT !.config = f]
    <3>1. D \in Record /\ Discovered = Placed(D)
      BY <2>1 DEF Record, Value, Discovered
    <3> HIDE DEF D
    <3>. QED
      BY <3>1, Placing
  <2>2. sfile \in [state : {"absent", "empty", "torn", "whole"}, data : Record]
    BY <2>1, <2>d DEF Init
  <2>3. pc \in [Requests -> PCs] /\ kind \in [Requests -> AllKinds]
    BY DEF Init, PCs, AllKinds
  <2>4. /\ ver \in [Requests -> Versions] /\ key \in [Requests -> Value]
        /\ cur \in [Requests -> Value] /\ new \in [Requests -> Record]
    BY <2>1 DEF Init, Value
  <2>. QED
    BY <2>1, <2>2, <2>3, <2>4, <2>d DEF Init, TypeOK
<1>2. TypeOK /\ [Next]_vars => TypeOK'
  <2> SUFFICES ASSUME TypeOK, [Next]_vars PROVE TypeOK'
    OBVIOUS
  <2> USE DEF PCs, Goto
  <2>1. ASSUME NEW r \in Requests, Arrive(r) PROVE TypeOK'
    <3>1. PICK k \in Kinds, v \in Versions :
            /\ kind' = [kind EXCEPT ![r] = k] /\ ver' = [ver EXCEPT ![r] = v]
            /\ key' = [key EXCEPT ![r] = live.config[v]]
      BY <2>1 DEF Arrive
    <3>2. k \in AllKinds /\ live.config[v] \in Value
      BY SettingsAssumption DEF TypeOK, Record, SettingsAssumption
    <3>. QED
      BY <2>1, <3>1, <3>2 DEF Arrive, TypeOK
  <2>2. ASSUME NEW r \in Requests, Acquire(r) PROVE TypeOK'
    <3>1. live.config[ver[r]] \in Value
      BY DEF TypeOK, Record
    <3>. QED
      BY <2>2, <3>1 DEF Acquire, TypeOK
  <2>3. ASSUME NEW r \in Requests, Refuse(r) \/ SettingsFail(r) \/ Configure(r) PROVE TypeOK'
    <3>1. End({r}) /\ UNCHANGED <<sfile, live, astray>> /\ spoiled' \in BOOLEAN
      BY <2>3 DEF Refuse, SettingsFail, Configure, TypeOK
    <3>. QED
      BY <3>1, EndType DEF TypeOK
  <2>4. ASSUME NEW r \in Requests, Compose(r) \/ ComposeRepoint(r) PROVE TypeOK'
    <3>1. new' \in [Requests -> Record]
      BY <2>4, Composed DEF TypeOK
    <3>2. /\ pc' = [pc EXCEPT ![r] = "open"] /\ UNCHANGED <<sfile, live, kind, ver, key, cur>>
          /\ spoiled' \in BOOLEAN /\ astray' \in BOOLEAN
      BY <2>4 DEF Compose, ComposeRepoint, Overlap, TypeOK
    <3>. QED
      BY <3>1, <3>2 DEF TypeOK
  <2>5. ASSUME NEW r \in Requests, SettingsOpen(r) \/ SettingsWrite(r) PROVE TypeOK'
    <3>1. Defaults \in Record /\ new[r] \in Record
      BY ReadingTypes DEF TypeOK
    <3>. QED
      BY <2>5, <3>1 DEF SettingsOpen, SettingsWrite, TypeOK
  <2>6. ASSUME NEW r \in Requests, Apply(r) PROVE TypeOK'
    BY <2>6, AppliedIs DEF Apply, TypeOK
  <2>7. CASE Restart
    <3>1. {r \in Requests : pc[r] \in InFlight} \in SUBSET Requests
      OBVIOUS
    <3>. QED
      BY <2>7, <3>1, EndType, ReadingTypes DEF Restart, TypeOK
  <2>8. CASE Quiescent \/ UNCHANGED vars
    BY <2>8 DEF Quiescent, vars, TypeOK
  <2>. QED
    BY <2>1, <2>2, <2>3, <2>4, <2>5, <2>6, <2>7, <2>8 DEF Next, Serve
<1>. QED
  BY <1>1, <1>2, PTL DEF Spec

-----------------------------------------------------------------------------
(* What a step does to the requests that have composed their settings *)

\* r has read the settings, and has yet to write or apply what it made of them.
Pending(r)    == pc[r] \in {"open", "write", "apply"}
Repointing(r) == kind[r] = "repoint" /\ Pending(r)

Step(r) == Arrive(r) \/ Serve(r)

LEMMA OthersKept ==
  ASSUME TypeOK, NEW r \in Requests, Step(r), NEW q \in Requests \ {r}
  PROVE  pc'[q] = pc[q] /\ kind'[q] = kind[q] /\ ver'[q] = ver[q] /\ new'[q] = new[q]
<1>1. CASE Compose(r) \/ ComposeRepoint(r)
  <2>1. new' = [new EXCEPT ![r] = new'[r]]
    BY <1>1, Composed
  <2>. QED
    BY <1>1, <2>1 DEF Compose, ComposeRepoint, TypeOK, Goto
<1>. QED
  BY <1>1 DEF Step, Serve, Arrive, Acquire, Refuse, SettingsOpen, SettingsWrite, SettingsFail,
              Apply, Configure, TypeOK, Goto, End, NoLocals

\* Nobody is pending after a restart.
LEMMA RestartEndsAll ==
  ASSUME TypeOK, Restart
  PROVE  \A r \in Requests : ~Pending(r)'
  BY DEF Restart, End, TypeOK, InFlight, PCs, Pending

\* A step either leaves what is pending, the file and the application alone, or is
\* one of these.
LEMMA StepKinds ==
  ASSUME TypeOK, [Next]_vars
  PROVE  \/ \E r \in Requests :
              /\ Step(r)
              /\ \/ Compose(r) \/ ComposeRepoint(r)
                 \/ SettingsOpen(r) \/ SettingsWrite(r) \/ SettingsFail(r) \/ Apply(r)
         \/ Restart
         \/ /\ UNCHANGED <<sfile, live, spoiled, astray>>
            /\ \A q \in Requests :
                 \/ ~Pending(q) /\ ~Pending(q)'
                 \/ pc'[q] = pc[q] /\ kind'[q] = kind[q] /\ ver'[q] = ver[q] /\ new'[q] = new[q]
<1>1. ASSUME NEW r \in Requests, Arrive(r) \/ Acquire(r) \/ Refuse(r) \/ Configure(r)
      PROVE  /\ UNCHANGED <<sfile, live, spoiled, astray>>
             /\ ~Pending(r) /\ ~Pending(r)'
  BY <1>1 DEF Arrive, Acquire, Refuse, Configure, End, Goto, TypeOK, Pending
<1>2. ASSUME NEW r \in Requests, Arrive(r) \/ Acquire(r) \/ Refuse(r) \/ Configure(r),
             NEW q \in Requests
      PROVE  \/ ~Pending(q) /\ ~Pending(q)'
             \/ pc'[q] = pc[q] /\ kind'[q] = kind[q] /\ ver'[q] = ver[q] /\ new'[q] = new[q]
  BY <1>1, <1>2, OthersKept DEF Step, Serve
<1>3. CASE Quiescent \/ UNCHANGED vars
  BY <1>3 DEF Quiescent, vars
<1>. QED
  BY <1>1, <1>2, <1>3 DEF Next, Serve, Step

-----------------------------------------------------------------------------
(* Both versions' pointers are persisted                                     *)

\* Unless a repoint went astray: a pending save carries the pointers as they are
\* live; a pending repoint is the only one pending and replaces its own; and the
\* file, when whole, holds the live pointers or those about to be applied.
SaveCarries(r)  == kind[r] = "save" /\ Pending(r) => new[r].config = live.config
RepointAlone(r) == Repointing(r) =>
                     /\ \A q \in Requests : Pending(q) => q = r
                     /\ new[r].config = [live.config EXCEPT ![ver[r]] = r]
AtApply(r)      == kind[r] = "repoint" /\ pc[r] = "apply"
FileCarries     == sfile.state = "whole" =>
                     /\ (\A r \in Requests : ~AtApply(r)) => sfile.data.config = live.config
                     /\ \A r \in Requests : AtApply(r) => sfile.data.config = new[r].config
PointersCarried ==
  ~astray => FileCarries /\ \A r \in Requests : SaveCarries(r) /\ RepointAlone(r)

LEMMA PointersCarriedStep ==
  ASSUME TypeOK, PointersCarried, [Next]_vars
  PROVE  PointersCarried'
<1> SUFFICES ASSUME ~astray'
             PROVE  FileCarries' /\ \A r \in Requests : SaveCarries(r)' /\ RepointAlone(r)'
  BY DEF PointersCarried
<1>0. \A r \in Requests : kind[r] \in {"save", "repoint"}
  BY DEF TypeOK, AllKinds
<1>1. ASSUME NEW r \in Requests, Step(r), Compose(r) \/ ComposeRepoint(r)
      PROVE  FileCarries' /\ \A q \in Requests : SaveCarries(q)' /\ RepointAlone(q)'
  <2>1. /\ ~astray /\ cur[r] = live.config[ver[r]]
        /\ kind[r] = "repoint" => sfile.state = "whole"
        /\ \A q \in Others(r) : kind[r] # "repoint" /\ kind[q] # "repoint"
    BY <1>1 DEF Compose, ComposeRepoint, Overlap
  <2>2. \A q \in Requests \ {r} : Pending(q) => q \in Others(r)
    BY DEF Pending, Others, Unwritten
  <2>3. /\ UNCHANGED <<sfile, live, kind, ver>> /\ pc[r] = "entered" /\ pc'[r] = "open"
    BY <1>1 DEF Compose, ComposeRepoint, Goto, TypeOK
  <2>4. FileCarries /\ \A q \in Requests : SaveCarries(q) /\ RepointAlone(q)
    BY <2>1 DEF PointersCarried
  <2>5. \A q \in Requests \ {r} : pc'[q] = pc[q] /\ new'[q] = new[q]
    BY <1>1, OthersKept
  <2>6. CASE kind[r] = "save"
    <3>1. new'[r].config = live.config
      <4>1. new'[r].config = [live.config EXCEPT ![ver[r]] = live.config[ver[r]]]
        BY <1>1, <2>1, <2>6, Composed
      <4>2. live.config \in [Versions -> Value]
        BY DEF TypeOK, Record
      <4>. QED
        BY <4>1, <4>2
    <3>2. \A q \in Requests : ~Repointing(q)'
      BY <2>1, <2>2, <2>3, <2>5, <2>6 DEF Repointing, Pending
    <3>3. \A q \in Requests : AtApply(q)' = AtApply(q)
      BY <2>3, <2>5 DEF AtApply
    <3>4. FileCarries'
      BY <2>3, <2>4, <2>5, <3>3, <2>6 DEF FileCarries, AtApply
    <3>5. \A q \in Requests : SaveCarries(q)'
      BY <2>3, <2>4, <2>5, <3>1 DEF SaveCarries, Pending
    <3>. QED
      BY <3>2, <3>4, <3>5 DEF RepointAlone
  <2>7. CASE kind[r] = "repoint"
    <3>1. \A q \in Requests \ {r} : ~Pending(q) /\ ~Pending(q)'
      BY <2>1, <2>2, <2>5, <2>7 DEF Pending
    <3>2. sfile.state = "whole" /\ sfile.data.config = live.config
      BY <2>1, <2>3, <2>4, <2>7, <3>1 DEF FileCarries, AtApply, Pending
    <3>3. new'[r].config = [live.config EXCEPT ![ver[r]] = r]
      BY <1>1, <2>7, <3>2, Composed DEF LoadSettings
    <3>. QED
      BY <2>3, <2>7, <3>1, <3>2, <3>3
         DEF FileCarries, AtApply, SaveCarries, RepointAlone, Repointing, Pending
  <2>. QED
    BY <1>0, <2>6, <2>7
<1>2. ASSUME NEW r \in Requests, Step(r),
             SettingsOpen(r) \/ SettingsWrite(r) \/ SettingsFail(r) \/ Apply(r)
      PROVE  FileCarries' /\ \A q \in Requests : SaveCarries(q)' /\ RepointAlone(q)'
  <2>1. ~astray
    BY <1>2 DEF SettingsOpen, SettingsWrite, SettingsFail, Apply
  <2>2. FileCarries /\ \A q \in Requests : SaveCarries(q) /\ RepointAlone(q)
    BY <2>1 DEF PointersCarried
  <2>3. \A q \in Requests \ {r} : pc'[q] = pc[q] /\ kind'[q] = kind[q] /\ ver'[q] = ver[q]
                                  /\ new'[q] = new[q]
    BY <1>2, OthersKept
  <2>4. Pending(r)
    BY <1>2 DEF SettingsOpen, SettingsWrite, SettingsFail, Apply, Pending, Unwritten
  <2>5. /\ kind[r] = "repoint" => \A q \in Requests \ {r} : ~Pending(q) /\ ~Pending(q)'
        /\ kind[r] = "save" => \A q \in Requests : ~Repointing(q)
    BY <2>2, <2>3, <2>4 DEF RepointAlone, Repointing, Pending
  <2>6. CASE SettingsOpen(r)
    <3>1. /\ sfile'.state = "empty" /\ UNCHANGED <<live, kind, ver, new>>
          /\ pc[r] = "open" /\ pc'[r] = "write"
      BY <2>6 DEF SettingsOpen, Goto, TypeOK
    <3>2. \A q \in Requests : Pending(q)' = Pending(q)
      BY <2>3, <3>1 DEF Pending
    <3>. QED
      BY <2>2, <3>1, <3>2 DEF FileCarries, SaveCarries, RepointAlone, Repointing
  <2>7. CASE SettingsWrite(r)
    <3>1. /\ UNCHANGED <<live, kind, ver, new>> /\ pc[r] = "write" /\ pc'[r] = "apply"
          /\ sfile'.state = "whole" => sfile'.data = new[r]
      BY <2>7 DEF SettingsWrite, Goto, TypeOK
    <3>2. \A q \in Requests : Pending(q)' = Pending(q)
      BY <2>3, <3>1 DEF Pending
    <3>3. CASE kind[r] = "save"
      <4>1. \A q \in Requests : ~AtApply(q)'
        BY <2>3, <2>5, <3>1, <3>3 DEF AtApply, Repointing, Pending
      <4>2. new[r].config = live.config
        BY <2>2, <2>4, <3>3 DEF SaveCarries
      <4>. QED
        BY <2>2, <3>1, <3>2, <4>1, <4>2 DEF FileCarries, SaveCarries, RepointAlone, Repointing
    <3>4. CASE kind[r] = "repoint"
      <4>1. \A q \in Requests : AtApply(q)' <=> q = r
        BY <2>5, <3>1, <3>4 DEF AtApply, Pending
      <4>. QED
        BY <2>2, <3>1, <3>2, <4>1 DEF FileCarries, SaveCarries, RepointAlone, Repointing
    <3>. QED
      BY <1>0, <3>3, <3>4
  <2>8. CASE SettingsFail(r)
    <3>1. /\ UNCHANGED <<sfile, live>> /\ pc[r] # "apply" /\ pc'[r] = "done"
      BY <2>8 DEF SettingsFail, End, TypeOK, Unwritten
    <3>2. \A q \in Requests : ~AtApply(q) /\ ~AtApply(q)'
      BY <1>0, <2>3, <2>5, <3>1 DEF AtApply, Repointing, Pending
    <3>3. ~Pending(r)'
      BY <3>1 DEF Pending
    <3>. QED
      BY <2>2, <2>3, <3>1, <3>2, <3>3
         DEF FileCarries, SaveCarries, RepointAlone, Repointing, Pending
  <2>9. CASE Apply(r)
    <3>1. /\ UNCHANGED <<sfile, kind, ver, new>> /\ pc[r] = "apply" /\ pc'[r] = "configure"
          /\ live' = Applied(r)
      BY <2>9 DEF Apply, Goto, TypeOK
    <3>2. ~Pending(r)' /\ \A q \in Requests : ~AtApply(q)'
      BY <1>0, <2>3, <2>5, <3>1 DEF AtApply, Repointing, Pending
    <3>3. CASE kind[r] = "save"
      <4>1. live'.config = live.config
        BY <3>1, <3>3, AppliedIs
      <4>2. \A q \in Requests : ~AtApply(q) /\ ~Repointing(q)'
        BY <2>3, <2>5, <3>1, <3>2, <3>3 DEF AtApply, Repointing, Pending
      <4>. QED
        BY <2>2, <2>3, <3>1, <3>2, <4>1, <4>2
           DEF FileCarries, SaveCarries, RepointAlone, Pending
    <3>4. CASE kind[r] = "repoint"
      <4>1. live'.config = new[r].config
        <5>1. live'.config = [live.config EXCEPT ![ver[r]] = new[r].config[ver[r]]]
          BY <3>1, <3>4, AppliedIs
        <5>2. new[r].config = [live.config EXCEPT ![ver[r]] = r]
          BY <2>2, <2>4, <3>4 DEF RepointAlone, Repointing
        <5>3. live.config \in [Versions -> Value] /\ ver[r] \in Versions
          BY DEF TypeOK, Record
        <5>. QED
          BY <5>1, <5>2, <5>3
      <4>2. \A q \in Requests : ~Pending(q)'
        BY <2>5, <3>2, <3>4
      <4>3. AtApply(r)
        BY <3>1, <3>4 DEF AtApply
      <4>. QED
        BY <2>2, <3>1, <3>2, <4>1, <4>2, <4>3
           DEF FileCarries, SaveCarries, RepointAlone, Repointing
    <3>. QED
      BY <1>0, <3>3, <3>4
  <2>. QED
    BY <1>2, <2>6, <2>7, <2>8, <2>9
<1>3. CASE Restart
  <2>1. \A q \in Requests : ~Pending(q)'
    BY <1>3, RestartEndsAll
  <2>2. sfile' = sfile /\ (sfile.state = "whole" => live'.config = sfile.data.config)
    <3>1. sfile' = sfile /\ live' = StartUp /\ sfile.data \in Record
      BY <1>3 DEF Restart, TypeOK
    <3>2. sfile.state = "whole" => StartUp = Placed(sfile.data)
      BY DEF StartUp, LoadSettings
    <3>. QED
      BY <3>1, <3>2, Placing
  <2>. QED
    BY <2>1, <2>2 DEF FileCarries, SaveCarries, RepointAlone, Repointing, AtApply, Pending
<1>4. ASSUME UNCHANGED <<sfile, live, spoiled, astray>>,
             \A q \in Requests :
               \/ ~Pending(q) /\ ~Pending(q)'
               \/ pc'[q] = pc[q] /\ kind'[q] = kind[q] /\ ver'[q] = ver[q] /\ new'[q] = new[q]
      PROVE  FileCarries' /\ \A q \in Requests : SaveCarries(q)' /\ RepointAlone(q)'
  <2>1. FileCarries /\ \A q \in Requests : SaveCarries(q) /\ RepointAlone(q)
    BY <1>4 DEF PointersCarried
  <2>2. \A q \in Requests : /\ Pending(q)' = Pending(q)
                            /\ Pending(q) => /\ kind'[q] = kind[q] /\ ver'[q] = ver[q]
                                             /\ new'[q] = new[q] /\ pc'[q] = pc[q]
    BY <1>4 DEF Pending
  <2>3. \A q \in Requests : AtApply(q)' = AtApply(q) /\ (AtApply(q) => Pending(q))
    BY <1>4, <2>2 DEF AtApply, Pending
  <2>. QED
    BY <1>4, <2>1, <2>2, <2>3 DEF FileCarries, SaveCarries, RepointAlone, Repointing
<1>. QED
  BY <1>1, <1>2, <1>3, <1>4, StepKinds

LEMMA AlwaysCarried == Spec => []PointersCarried
<1>1. Init => PointersCarried
  BY DEF Init, PointersCarried, FileCarries, SaveCarries, RepointAlone, Repointing, AtApply,
         Pending
<1>. QED
  BY <1>1, PointersCarriedStep, TypeCorrect, PTL DEF Spec

\* Both daemons' configuration pointers are persisted as the application runs with
\* them, however saves of the two versions overlap, fail or die; repoints count as
\* long as they overlap nothing and find settings to keep.
THEOREM PersistedPointers == Spec => []PointersPersisted
<1>1. PointersCarried => PointersPersisted
  BY DEF PointersCarried, FileCarries, AtApply, PointersPersisted
<1>. QED
  BY <1>1, AlwaysCarried, PTL

-----------------------------------------------------------------------------
(* A daemon that was found is not left for the sandbox                       *)

\* Until the first settings are saved the application runs with what was found,
\* and nobody has got as far as writing.
NothingSavedYet ==
  sfile.state = "absent" =>
    live = Discovered /\ \A r \in Requests : pc[r] \notin {"write", "apply"}

\* A repoint is about to set its pointer to the path it was given.
RepointsToItself ==
  \A r \in Requests : Repointing(r) => new[r].config[ver[r]] = r

LEMMA SavedStep ==
  ASSUME TypeOK, NothingSavedYet, RepointsToItself, [Next]_vars
  PROVE  NothingSavedYet' /\ RepointsToItself'
<1>1. ASSUME NEW r \in Requests, Step(r), Compose(r) \/ ComposeRepoint(r)
      PROVE  NothingSavedYet' /\ RepointsToItself'
  <2>1. /\ UNCHANGED <<sfile, live, kind, ver>> /\ pc'[r] = "open"
        /\ \A q \in Requests \ {r} : pc'[q] = pc[q] /\ new'[q] = new[q]
    BY <1>1, OthersKept DEF Compose, ComposeRepoint, Goto, TypeOK
  <2>2. kind[r] = "repoint" => new'[r].config[ver[r]] = r
    <3>1. ASSUME kind[r] = "repoint"
          PROVE  new'[r].config = [LoadSettings.config EXCEPT ![ver[r]] = r]
      BY <1>1, <3>1, Composed
    <3>2. LoadSettings.config \in [Versions -> Value] /\ ver[r] \in Versions
      BY ReadingTypes DEF TypeOK, Record
    <3>. QED
      BY <3>1, <3>2
  <2>. QED
    BY <2>1, <2>2 DEF NothingSavedYet, RepointsToItself, Repointing, Pending, Discovered, Defaults
<1>2. ASSUME NEW r \in Requests, Step(r),
             SettingsOpen(r) \/ SettingsWrite(r) \/ SettingsFail(r) \/ Apply(r)
      PROVE  NothingSavedYet' /\ RepointsToItself'
  <2>1. \A q \in Requests \ {r} : pc'[q] = pc[q] /\ kind'[q] = kind[q] /\ ver'[q] = ver[q]
                                  /\ new'[q] = new[q]
    BY <1>2, OthersKept
  <2>2. /\ pc[r] \in {"open", "write", "apply"}
        /\ Pending(r)' => kind'[r] = kind[r] /\ ver'[r] = ver[r] /\ new'[r] = new[r]
        /\ sfile'.state = "absent" => /\ sfile.state = "absent" /\ pc'[r] \notin {"write", "apply"}
                                      /\ (live' = live \/ pc[r] = "apply")
    BY <1>2 DEF SettingsOpen, SettingsWrite, SettingsFail, Apply, Goto, End, TypeOK, Pending,
                Unwritten
  <2>. QED
    BY <2>1, <2>2 DEF NothingSavedYet, RepointsToItself, Repointing, Pending, Discovered, Defaults
<1>3. CASE Restart
  <2>1. \A q \in Requests : ~Pending(q)'
    BY <1>3, RestartEndsAll
  <2>2. sfile' = sfile /\ (sfile.state = "absent" => live' = Discovered)
    BY <1>3 DEF Restart, StartUp
  <2>. QED
    BY <2>1, <2>2 DEF NothingSavedYet, RepointsToItself, Repointing, Pending, Discovered, Defaults
<1>4. ASSUME UNCHANGED <<sfile, live, spoiled, astray>>,
             \A q \in Requests :
               \/ ~Pending(q) /\ ~Pending(q)'
               \/ pc'[q] = pc[q] /\ kind'[q] = kind[q] /\ ver'[q] = ver[q] /\ new'[q] = new[q]
      PROVE  NothingSavedYet' /\ RepointsToItself'
  BY <1>4 DEF NothingSavedYet, RepointsToItself, Repointing, Pending, Discovered, Defaults
<1>. QED
  BY <1>1, <1>2, <1>3, <1>4, StepKinds

LEMMA AlwaysSaved == Spec => [](NothingSavedYet /\ RepointsToItself)
<1>1. Init => NothingSavedYet /\ RepointsToItself
  BY DEF Init, NothingSavedYet, RepointsToItself, Repointing, Pending
<1>2. /\ TypeOK /\ NothingSavedYet /\ RepointsToItself /\ [Next]_vars
      => (NothingSavedYet /\ RepointsToItself)'
  BY SavedStep
<1>. QED
  BY <1>1, <1>2, TypeCorrect, PTL DEF Spec

\* A daemon that was found is never left for the sandbox, by any sequence of
\* overlapping saves, lone repoints and restarts, unless the settings file is
\* unparsable at a start.
THEOREM FoundStaysFound == Spec => NeverDemotedBySaves
<1> DEFINE NoneDemoted == \A v \in Versions : Demoted(v) => Unparsable \/ astray
<1>1. TypeOK /\ PointersCarried /\ NothingSavedYet /\ RepointsToItself /\ [Next]_vars
      => [NoneDemoted]_vars
  <2> SUFFICES ASSUME TypeOK, PointersCarried, NothingSavedYet, RepointsToItself, [Next]_vars,
                      NEW v \in Versions, live.config[v] # "default",
                      live'.config[v] = "default", ~Unparsable, ~astray
               PROVE  FALSE
    BY DEF Demoted
  <2>1. ASSUME NEW r \in Requests, Apply(r) PROVE FALSE
    <3>1. live' = Applied(r) /\ pc[r] = "apply"
      BY <2>1 DEF Apply
    <3>2. kind[r] = "repoint" => r = "default"
      <4>1. ver[r] \in Versions /\ live.config \in [Versions -> Value]
        BY DEF TypeOK, Record
      <4>2. kind[r] = "repoint" => new[r].config[ver[r]] = r
        BY <3>1 DEF RepointsToItself, Repointing, Pending
      <4>. QED
        BY <3>1, <4>1, <4>2, AppliedIs
    <3>3. kind[r] = "repoint"
      BY <3>1, AppliedIs
    <3>. QED
      BY <3>2, <3>3, SettingsAssumption DEF SettingsAssumption
  <2>2. CASE Restart
    <3>1. live' = StartUp
      BY <2>2 DEF Restart
    <3>2. CASE sfile.state = "absent"
      <4>1. live' = live
        BY <3>1, <3>2 DEF StartUp, NothingSavedYet
      <4>. QED
        BY <4>1
    <3>3. CASE sfile.state = "whole"
      <4>0. sfile.data \in Record /\ StartUp = Placed(sfile.data)
        BY <3>3 DEF StartUp, LoadSettings, TypeOK
      <4>1. live'.config = sfile.data.config
        BY <3>1, <4>0, Placing
      <4>2. FileCarries /\ \A r \in Requests : RepointAlone(r)
        BY DEF PointersCarried
      <4>3. PICK r \in Requests : AtApply(r)
        BY <3>3, <4>1, <4>2 DEF FileCarries
      <4>4. live'.config = [live.config EXCEPT ![ver[r]] = r]
        BY <3>3, <4>1, <4>2, <4>3 DEF FileCarries, RepointAlone, Repointing, AtApply, Pending
      <4>5. live.config \in [Versions -> Value]
        BY DEF TypeOK, Record
      <4>6. r = "default"
        BY <4>4, <4>5
      <4>. QED
        BY <4>6, SettingsAssumption DEF SettingsAssumption
    <3>. QED
      BY <3>2, <3>3 DEF Unparsable, TypeOK
  <2>3. CASE UNCHANGED live
    BY <2>3
  <2>. QED
    BY <2>1, <2>2, <2>3 DEF Next, Serve, Arrive, Acquire, Refuse, Compose, ComposeRepoint,
       SettingsOpen, SettingsWrite, SettingsFail, Configure, Quiescent, vars
<1>. QED
  BY <1>1, AlwaysSaved, AlwaysCarried, TypeCorrect, PTL DEF Spec, NeverDemotedBySaves

-----------------------------------------------------------------------------
(* Requests that do not overlap                                              *)

\* Unless requests overlapped or the file was unparsable: one request at most is
\* pending, what it saves agrees with what the application will run with, and
\* the file agrees with the application before and with the request after its write.
AloneFrom(r) ==
  Pending(r) => /\ \A q \in Requests : Pending(q) => q = r
                /\ Agree(new[r], Applied(r))
                /\ pc[r] = "write" => sfile.state = "empty"
                /\ pc[r] = "apply" /\ sfile.state = "whole" => sfile.data = new[r]
FileAgrees ==
  /\ (sfile.state = "whole" /\ \A r \in Requests : pc[r] # "apply") => Agree(sfile.data, live)
  /\ Unparsable => \E r \in Requests : pc[r] = "write"
OneAtATime == ~spoiled => FileAgrees /\ \A r \in Requests : AloneFrom(r)

LEMMA OneAtATimeStep ==
  ASSUME TypeOK, OneAtATime, NothingSavedYet, [Next]_vars
  PROVE  OneAtATime'
<1> SUFFICES ASSUME ~spoiled' PROVE FileAgrees' /\ \A r \in Requests : AloneFrom(r)'
  BY DEF OneAtATime
<1>1. ASSUME NEW r \in Requests, Step(r), Compose(r) \/ ComposeRepoint(r)
      PROVE  FileAgrees' /\ \A q \in Requests : AloneFrom(q)'
  <2>1. /\ ~spoiled /\ cur[r] = live.config[ver[r]] /\ Others(r) = {}
        /\ kind[r] = "repoint" => sfile.state = "whole"
    BY <1>1 DEF Compose, ComposeRepoint, Overlap
  <2>2. /\ UNCHANGED <<sfile, live, kind, ver>> /\ pc[r] = "entered" /\ pc'[r] = "open"
        /\ \A q \in Requests \ {r} : pc'[q] = pc[q]
    BY <1>1, OthersKept DEF Compose, ComposeRepoint, Goto, TypeOK
  <2>3. \A q \in Requests \ {r} : ~Pending(q) /\ ~Pending(q)'
    BY <2>1, <2>2 DEF Pending, Others, Unwritten
  <2>4. FileAgrees /\ ~Unparsable
    BY <2>1, <2>2, <2>3 DEF OneAtATime, FileAgrees, Pending
  <2>5. sfile.state = "whole" => Agree(LoadSettings, live)
    BY <2>2, <2>3, <2>4 DEF FileAgrees, LoadSettings, Pending
  <2>6. LoadSettings.cmd = live.cmd
    BY <2>4, <2>5, ReadingTypes DEF Unparsable, TypeOK, NothingSavedYet, LoadSettings, Agree
  <2>7. Agree(new'[r], Applied(r)')
    <3> DEFINE v == ver[r]
               N == new'[r]
               A == Applied(r)'
    <3>1. /\ N \in Record /\ live \in Record /\ v \in Versions
          /\ kind[r] \in {"save", "repoint"} /\ LoadSettings \in Record
      BY <1>1, Composed, ReadingTypes DEF TypeOK, AllKinds
    <3>2. N.config = IF kind[r] = "repoint" THEN [live.config EXCEPT ![v] = r] ELSE live.config
      <4>1. CASE kind[r] = "repoint"
        BY <1>1, <2>1, <2>5, <4>1, Composed DEF Agree
      <4>2. CASE kind[r] = "save"
        <5>1. N.config = [live.config EXCEPT ![v] = live.config[v]]
          BY <1>1, <2>1, <4>2, Composed
        <5>2. live.config \in [Versions -> Value]
          BY <3>1 DEF Record
        <5>. QED
          BY <4>2, <5>1, <5>2
      <4>. QED
        BY <3>1, <4>1, <4>2
    <3>3. PICK c \in Value : N.cmd = [live.cmd EXCEPT ![v] = c]
      <4>1. \E c \in Value : N.cmd = [LoadSettings.cmd EXCEPT ![v] = c]
        BY <1>1, Composed
      <4>. QED
        BY <4>1, <2>6
    <3>4. \A w \in Versions \ {v} : live.paths[w] \in {N.paths[w], Beside(live.config[w])}
      <4>1. CASE kind[r] = "save"
        <5>1. PICK l \in Value : N.paths = [live.paths EXCEPT ![v] = l]
          BY <1>1, <4>1, Composed
        <5>. QED
          BY <3>1, <5>1 DEF Record
      <4>2. CASE kind[r] = "repoint"
        <5>1. PICK l \in Value : N.paths = [LoadSettings.paths EXCEPT ![v] = l]
          BY <1>1, <4>2, Composed
        <5>2. \A w \in Versions \ {v} : N.paths[w] = LoadSettings.paths[w]
          BY <3>1, <5>1 DEF Record
        <5>. QED
          BY <2>1, <2>5, <4>2, <5>2 DEF Agree
      <4>. QED
        BY <3>1, <4>1, <4>2
    <3> DEFINE p == IF kind[r] = "repoint" THEN N.config[v] ELSE live.config[v]
    <3>5. A = Replaced(live, v, p, N.cmd[v], N.paths[v], N.ctrl)
      BY <2>2, <3>1 DEF Applied, Replaced, Record
    <3>6. /\ p \in Value /\ N.cmd[v] \in Value /\ N.paths[v] \in Value /\ N.ctrl \in Value
          /\ [live.config EXCEPT ![v] = p] =
               IF kind[r] = "repoint" THEN [live.config EXCEPT ![v] = N.config[v]] ELSE live.config
      BY <3>1 DEF Record
    <3> HIDE DEF N, A, v, p
    <3>7. /\ A \in Record
          /\ A.config = IF kind[r] = "repoint"
               THEN [live.config EXCEPT ![v] = N.config[v]] ELSE live.config
          /\ A.cmd = [live.cmd EXCEPT ![v] = N.cmd[v]]
          /\ A.paths = [live.paths EXCEPT ![v] = N.paths[v]]
          /\ A.ctrl = N.ctrl
      <4>1. LET R == Replaced(live, v, p, N.cmd[v], N.paths[v], N.ctrl) IN
            /\ R \in Record
            /\ R.config = [live.config EXCEPT ![v] = p]
            /\ R.cmd = [live.cmd EXCEPT ![v] = N.cmd[v]]
            /\ R.paths = [live.paths EXCEPT ![v] = N.paths[v]]
            /\ R.ctrl = N.ctrl
        <5> DEFINE cc == N.cmd[v]
                   ll == N.paths[v]
                   xx == N.ctrl
        <5>1. cc \in Value /\ ll \in Value /\ xx \in Value
          BY <3>6
        <5> HIDE DEF cc, ll, xx
        <5>2. LET R == Replaced(live, v, p, cc, ll, xx) IN
              /\ R \in Record
              /\ R.config = [live.config EXCEPT ![v] = p]
              /\ R.cmd = [live.cmd EXCEPT ![v] = cc]
              /\ R.paths = [live.paths EXCEPT ![v] = ll]
              /\ R.ctrl = xx
          BY <3>1, <3>6, <5>1 DEF Replaced, Record
        <5>. QED
          BY <5>2 DEF cc, ll, xx
      <4>. QED
        BY <3>5, <3>6, <4>1, Zenon
    <3>8. N.config = A.config /\ N.cmd = A.cmd /\ N.ctrl = A.ctrl
      BY <3>1, <3>2, <3>3, <3>7 DEF Record
    <3>9. ASSUME NEW w \in Versions PROVE A.paths[w] \in {N.paths[w], Beside(A.config[w])}
      <4>1. CASE w = v
        BY <3>1, <3>7, <4>1 DEF Record
      <4>2. CASE w # v
        <5>1. A.paths[w] = live.paths[w] /\ A.config[w] = live.config[w]
          BY <3>1, <3>7, <4>2 DEF Record
        <5>. QED
          BY <3>4, <4>2, <5>1
      <4>. QED
        BY <4>1, <4>2
    <3>. QED
      BY <3>8, <3>9 DEF N, A, Agree
  <2>. QED
    BY <2>2, <2>3, <2>4, <2>7 DEF FileAgrees, AloneFrom, Pending, Unparsable
<1>2. ASSUME NEW r \in Requests, Step(r),
             SettingsOpen(r) \/ SettingsWrite(r) \/ SettingsFail(r) \/ Apply(r)
      PROVE  FileAgrees' /\ \A q \in Requests : AloneFrom(q)'
  <2>0. spoiled' = spoiled \/ (spoiled' = (spoiled \/ pc[r] = "write"))
    BY <1>2 DEF SettingsOpen, SettingsWrite, SettingsFail, Apply
  <2>1. ~spoiled /\ Pending(r)
    <3>1. ~spoiled
      BY <2>0, Zenon DEF TypeOK
    <3>2. Pending(r)
      BY <1>2 DEF SettingsOpen, SettingsWrite, SettingsFail, Apply, Pending, Unwritten
    <3>. QED
      BY <3>1, <3>2
  <2>2. FileAgrees /\ AloneFrom(r)
    BY <2>1 DEF OneAtATime
  <2>3. \A q \in Requests \ {r} : ~Pending(q) /\ ~Pending(q)'
    BY <1>2, <2>1, <2>2, OthersKept DEF AloneFrom, Pending
  <2>4. CASE SettingsOpen(r) \/ SettingsWrite(r)
    <3>1. /\ UNCHANGED <<live, kind, ver, new>>
          /\ \/ pc'[r] = "write" /\ sfile'.state = "empty"
             \/ /\ pc[r] = "write" /\ pc'[r] = "apply"
                /\ \/ sfile'.state = "whole" /\ sfile'.data = new[r]
                   \/ sfile.state # "empty"
      BY <2>4 DEF SettingsOpen, SettingsWrite, Goto, TypeOK
    <3>2. Applied(r)' = Applied(r)
      BY <3>1 DEF Applied
    <3>. QED
      BY <2>1, <2>2, <2>3, <3>1, <3>2 DEF FileAgrees, AloneFrom, Pending, Unparsable
  <2>5. CASE SettingsFail(r)
    <3>1. UNCHANGED <<sfile, live>> /\ pc[r] = "open" /\ pc'[r] = "done"
      BY <2>5 DEF SettingsFail, End, TypeOK, Unwritten
    <3>. QED
      BY <2>2, <2>3, <3>1 DEF FileAgrees, AloneFrom, Pending, Unparsable
  <2>6. CASE Apply(r)
    <3>1. UNCHANGED sfile /\ pc[r] = "apply" /\ pc'[r] = "configure" /\ live' = Applied(r)
      BY <2>6 DEF Apply, Goto, TypeOK
    <3>. QED
      BY <2>1, <2>2, <2>3, <3>1 DEF FileAgrees, AloneFrom, Pending, Unparsable
  <2>. QED
    BY <1>2, <2>4, <2>5, <2>6
<1>3. CASE Restart
  <2>1. \A q \in Requests : ~Pending(q)'
    BY <1>3, RestartEndsAll
  <2>2. sfile' = sfile /\ (sfile.state = "whole" => Agree(sfile.data, live')) /\ ~Unparsable
    <3>1. sfile' = sfile /\ live' = StartUp /\ sfile.data \in Record /\ ~Unparsable
      BY <1>3 DEF Restart, TypeOK
    <3>2. sfile.state = "whole" => StartUp = Placed(sfile.data)
      BY DEF StartUp, LoadSettings
    <3>. QED
      BY <3>1, <3>2, Placing DEF Agree
  <2>. QED
    BY <2>1, <2>2 DEF FileAgrees, AloneFrom, Unparsable
<1>4. ASSUME UNCHANGED <<sfile, live, spoiled, astray>>,
             \A q \in Requests :
               \/ ~Pending(q) /\ ~Pending(q)'
               \/ pc'[q] = pc[q] /\ kind'[q] = kind[q] /\ ver'[q] = ver[q] /\ new'[q] = new[q]
      PROVE  FileAgrees' /\ \A q \in Requests : AloneFrom(q)'
  <2>1. FileAgrees /\ \A q \in Requests : AloneFrom(q)
    BY <1>4 DEF OneAtATime
  <2>2. \A q \in Requests : /\ Pending(q)' = Pending(q)
                            /\ Pending(q) => /\ kind'[q] = kind[q] /\ ver'[q] = ver[q]
                                             /\ new'[q] = new[q] /\ pc'[q] = pc[q]
    BY <1>4 DEF Pending
  <2>3. \A q \in Requests : Pending(q) => Applied(q)' = Applied(q)
    BY <1>4, <2>2 DEF Applied
  <2>. QED
    BY <1>4, <2>1, <2>2, <2>3 DEF FileAgrees, AloneFrom, Unparsable, Pending
<1>. QED
  BY <1>1, <1>2, <1>3, <1>4, StepKinds

\* Requests that do not overlap leave the file and the application with the same
\* settings of both versions, even if Kea's configuration could not be written;
\* the leases and log paths may be those that a start derives.
THEOREM SerialAgreement == Spec => []SerialSavesAgree
<1>1. Init => OneAtATime
  <2> SUFFICES ASSUME Init PROVE FileAgrees /\ \A r \in Requests : AloneFrom(r)
    BY DEF OneAtATime
  <2>1. sfile.state = "whole" => Agree(sfile.data, live)
    BY DEF Init, Agree
  <2>. QED
    BY <2>1 DEF Init, FileAgrees, AloneFrom, Pending, Unparsable
<1>2. TypeOK /\ OneAtATime /\ NothingSavedYet /\ [Next]_vars => OneAtATime'
  BY OneAtATimeStep
<1>3. OneAtATime => SerialSavesAgree
  BY DEF OneAtATime, FileAgrees, SerialSavesAgree
<1>. QED
  BY <1>1, <1>2, <1>3, AlwaysSaved, TypeCorrect, PTL DEF Spec
=============================================================================
