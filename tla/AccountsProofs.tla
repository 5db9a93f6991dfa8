--------------------------- MODULE AccountsProofs ---------------------------
(* Theorems about Accounts, for any accounts, browsers and number of requests. *)
EXTENDS Accounts, TLAPS

-----------------------------------------------------------------------------
(* What a handler may ask for, given the row it loaded *)

\* The columns that op changes in a row: rights and password are each touched by
\* the handlers that are for them.
Proper(op, old, new) ==
  /\ op = "create" => new.must /\ new.pw = "assigned"
  /\ op \notin {"create", "toggle"} => new.admin = old.admin
  /\ op = "toggle" => new.admin # old.admin
  /\ op = "reset" => new.must /\ new.pw = "assigned"
  /\ op = "account_setup" => ~new.must /\ new.pw = "own"
  /\ op \notin {"create", "reset", "account_setup"} => new.must = old.must
  /\ op = "password" => new.pw = "own"
  /\ op \notin {"create", "reset", "account_setup", "password"} => new.pw = old.pw

\* Whom op may be about.
Allowed(op, u) == op \in {"delete", "toggle"} => u # BreakGlass

ProperHandlers ==
  \A b \in Browsers : Busy(b) =>
    /\ Proper(req[b].op, req[b].old, req[b].new)
    /\ Allowed(req[b].op, req[b].uid)

\* The inductive invariant of the theorems about rights.
Rights == TypeOK /\ SomeoneAdministers /\ ProperHandlers

\* A reset and a setup of one account in flight at once are a race; without one,
\* a reset that found must_change_password set finds it set when it commits.
SetupsAreRaces ==
  \A b, c \in Browsers :
    (/\ Busy(b) /\ req[b].op = "reset"
     /\ Busy(c) /\ req[c].op = "account_setup"
     /\ req[b].uid = req[c].uid)
      => "password" \in raced

ResetsFindMust ==
  "password" \notin raced =>
    \A b \in Browsers :
      (Busy(b) /\ req[b].op = "reset" /\ req[b].old.must /\ Exists(req[b].uid))
        => rows[req[b].uid].must

\* The inductive invariant of the theorem about assigned passwords.
Passwords == SetupsAreRaces /\ ResetsFindMust /\ AssignedMustChange

-----------------------------------------------------------------------------
(* The shapes of a step *)

LEMMA RowTypes ==
  /\ SeededRow \in Row
  /\ \A a \in BOOLEAN : NewRow(a) \in Row /\ NewRow(a).must /\ NewRow(a).pw = "assigned"
  BY DEF SeededRow, NewRow, Row

\* A handler in flight is of the type of one.
LEMMA BusyHandler ==
  ASSUME TypeOK, NEW b \in Browsers, Busy(b)
  PROVE  /\ req[b] \in Handler
         /\ req[b].op \in Ops /\ req[b].uid \in Users \cup {None}
         /\ req[b].old \in Row /\ req[b].new \in Row /\ req[b].code \subseteq Nat
  BY DEF TypeOK, Busy, Handler

\* The current user is an account with a row.
LEMMA CurrentExists ==
  ASSUME TypeOK, NEW b \in Browsers, CurrentUser(b) # None
  PROVE  /\ CurrentUser(b) \in DOMAIN rows
         /\ CurrentUser(b) \in Users
         /\ rows[CurrentUser(b)] \in Row
  BY DEF TypeOK, CurrentUser, Exists

\* The read of any handler: it loads an account and will commit a proper row.
Reads(b) ==
  \E op \in Ops, u \in Users \cup {None}, new \in Row, code \in SUBSET Nat :
    /\ HandleCode(b, op, u, new, code)
    /\ Proper(op, IF Exists(u) THEN rows[u] ELSE new, new)
    /\ Allowed(op, u)
    /\ verified' \subseteq Nat /\ spent' \subseteq Nat

\* Every request is a read, or an answer that changes the session only.
LEMMA RequestShape ==
  ASSUME TypeOK, NEW b \in Browsers, Request(b)
  PROVE  Reads(b) \/ \E s \in Session : Answer(b, s)
<1> USE DEF Exists
<1>0. /\ sess[b] \in Session
      /\ \A u \in DOMAIN rows : u \in Users /\ rows[u] \in Row
      /\ verified \subseteq Nat /\ spent \subseteq Nat
      /\ None \notin Users
  BY AccountsAssumption DEF TypeOK, AccountsAssumption
\* What is left to show of a read that neither verifies nor spends anything.
<1>r. ASSUME NEW op \in Ops, NEW u \in Users \cup {None}, NEW new \in Row, NEW code \in SUBSET Nat,
             HandleCode(b, op, u, new, code),
             Proper(op, IF u \in DOMAIN rows THEN rows[u] ELSE new, new),
             Allowed(op, u),
             verified' \subseteq Nat, spent' \subseteq Nat
      PROVE  Reads(b)
  BY <1>r DEF Reads
<1>c. {} \in SUBSET Nat
  OBVIOUS
<1>1. CASE \E u \in Users : Login(b, u)
  <2>1. PICK u \in Users : Login(b, u)
    BY <1>1
  <2>2. u \in DOMAIN rows
    BY <2>1 DEF Login
  <2>3. CASE Answer(b, [sess[b] EXCEPT !.setup = u])
    BY <2>3, <1>0 DEF Session
  <2>4. CASE Answer(b, [sess[b] EXCEPT !.twofa = u])
    BY <2>4, <1>0 DEF Session
  <2>5. CASE HandleCode(b, "login", u, rows[u], {}) /\ UNCHANGED <<verified, spent>>
    <3>1. Proper("login", rows[u], rows[u]) /\ Allowed("login", u) /\ "login" \in Ops
      BY <2>2, <1>0 DEF Proper, Allowed, Ops
    <3>. QED
      BY <3>1, <2>2, <2>5, <1>0, <1>c, <1>r
  <2>. QED
    BY <2>1, <2>3, <2>4, <2>5 DEF Login, Handle
<1>2. CASE Logout(b)
  BY <1>2, <1>0 DEF Logout, Session
<1>3. CASE Cancel(b)
  BY <1>3, <1>0 DEF Cancel, Session
<1>4. CASE AccountSetup(b)
  <2> DEFINE u == sess[b].setup
             new == [rows[u] EXCEPT !.must = FALSE, !.pw = "own"]
  <2>1. CASE u \in DOMAIN rows /\ rows[u].must
    <3>1. HandleCode(b, "account_setup", u, new, {}) /\ UNCHANGED <<verified, spent>>
      BY <1>4, <2>1 DEF AccountSetup, Handle
    <3>2. new \in Row /\ ~new.must /\ new.pw = "own" /\ new.admin = rows[u].admin
      <4>1. rows[u] \in Row
        BY <2>1, <1>0
      <4> HIDE DEF u
      <4>. QED
        BY <4>1 DEF Row
    <3>3. /\ Proper("account_setup", rows[u], new)
          /\ Allowed("account_setup", u) /\ "account_setup" \in Ops
      BY <3>2, <2>1, <1>0 DEF Proper, Allowed, Ops
    <3> HIDE DEF new
    <3>. QED
      BY <3>1, <3>2, <3>3, <2>1, <1>0, <1>c, <1>r
  <2>2. CASE ~(u \in DOMAIN rows /\ rows[u].must)
    BY <1>4, <2>2, <1>0 DEF AccountSetup, Session
  <2>. QED
    BY <2>1, <2>2
<1>5. CASE Login2fa(b)
  <2> DEFINE u == sess[b].twofa
  <2>1. CASE u \in DOMAIN rows /\ rows[u].enabled
    <3>0. UNCHANGED <<verified, spent>>
      BY <1>5, <2>1 DEF Login2fa
    <3>1. CASE HandleCode(b, "totp", u, rows[u], {})
      <4>1. Proper("totp", rows[u], rows[u]) /\ Allowed("totp", u) /\ "totp" \in Ops
        BY <2>1, <1>0 DEF Proper, Allowed, Ops
      <4>. QED
        BY <4>1, <3>0, <3>1, <2>1, <1>0, <1>c, <1>r
    <3>2. ASSUME NEW c \in rows[u].codes,
                 HandleCode(b, "redeem", u, Redeem(rows[u], c), {c})
          PROVE  Reads(b)
      <4> DEFINE new == Redeem(rows[u], c)
      <4>1. /\ new \in Row /\ {c} \in SUBSET Nat
            /\ new.must = rows[u].must /\ new.pw = rows[u].pw /\ new.admin = rows[u].admin
        BY <2>1, <1>0 DEF Row, Redeem
      <4>2. Proper("redeem", rows[u], new) /\ Allowed("redeem", u) /\ "redeem" \in Ops
        BY <4>1, <2>1, <1>0 DEF Proper, Allowed, Ops
      <4> HIDE DEF new
      <4>3. HandleCode(b, "redeem", u, new, {c})
        BY <3>2 DEF new
      <4>. QED
        BY <4>1, <4>2, <4>3, <3>0, <2>1, <1>0, <1>r
    <3>. QED
      BY <1>5, <2>1, <3>1, <3>2 DEF Login2fa, Handle
  <2>2. CASE ~(u \in DOMAIN rows /\ rows[u].enabled)
    BY <1>5, <2>2, <1>0 DEF Login2fa, Session
  <2>. QED
    BY <2>1, <2>2
<1>6. CASE \E a \in BOOLEAN : Create(b, a)
  <2>1. PICK a \in BOOLEAN : Create(b, a)
    BY <1>6
  <2>2. None \notin DOMAIN rows /\ None \in Users \cup {None}
    BY <1>0
  <2> DEFINE new == NewRow(a)
  <2>3. new \in Row /\ Proper("create", new, new) /\ Allowed("create", None) /\ "create" \in Ops
    BY RowTypes DEF Proper, Allowed, Ops
  <2>4. HandleCode(b, "create", None, new, {}) /\ UNCHANGED <<verified, spent>>
    BY <2>1 DEF Create, Handle
  <2> HIDE DEF new
  <2>. QED
    BY <2>2, <2>3, <2>4, <1>0, <1>c, <1>r
<1>7. ASSUME NEW u \in Users,
             Delete(b, u) \/ ToggleAdmin(b, u) \/ Reset(b, u) \/ Reset2fa(b, u)
      PROVE  Reads(b)
  <2>0. u \in DOMAIN rows /\ rows[u] \in Row /\ UNCHANGED <<verified, spent>>
    BY <1>7, <1>0 DEF Delete, ToggleAdmin, Reset, Reset2fa, MayChange
  <2>1. CASE Delete(b, u)
    <3>1. Proper("delete", rows[u], rows[u]) /\ Allowed("delete", u) /\ "delete" \in Ops
      BY <2>0, <2>1, <1>0 DEF Proper, Allowed, Ops, Delete, MayChange
    <3>2. HandleCode(b, "delete", u, rows[u], {})
      BY <2>1 DEF Delete, Handle
    <3>. QED
      BY <3>1, <3>2, <2>0, <1>0, <1>c, <1>r
  <2>2. CASE ToggleAdmin(b, u)
    <3> DEFINE new == [rows[u] EXCEPT !.admin = ~@]
    <3>1. /\ new \in Row /\ new.must = rows[u].must /\ new.pw = rows[u].pw
          /\ new.admin # rows[u].admin /\ HandleCode(b, "toggle", u, new, {})
      BY <2>0, <2>2 DEF Row, ToggleAdmin, Handle
    <3>2. Proper("toggle", rows[u], new) /\ Allowed("toggle", u) /\ "toggle" \in Ops
      BY <3>1, <2>0, <2>2, <1>0 DEF Proper, Allowed, Ops, ToggleAdmin, MayChange
    <3> HIDE DEF new
    <3>. QED
      BY <3>1, <3>2, <2>0, <1>0, <1>c, <1>r
  <2>3. CASE Reset(b, u)
    <3> DEFINE new == [rows[u] EXCEPT !.pw = "assigned", !.must = TRUE]
    <3>1. /\ new \in Row /\ new.must /\ new.pw = "assigned" /\ new.admin = rows[u].admin
          /\ HandleCode(b, "reset", u, new, {})
      BY <2>0, <2>3 DEF Row, Reset, Handle
    <3>2. Proper("reset", rows[u], new) /\ Allowed("reset", u) /\ "reset" \in Ops
      BY <3>1, <2>0, <1>0 DEF Proper, Allowed, Ops
    <3> HIDE DEF new
    <3>. QED
      BY <3>1, <3>2, <2>0, <1>0, <1>c, <1>r
  <2>4. CASE Reset2fa(b, u)
    <3> DEFINE new == No2fa(rows[u])
    <3>1. /\ new \in Row /\ new.must = rows[u].must /\ new.pw = rows[u].pw
          /\ new.admin = rows[u].admin
          /\ HandleCode(b, "reset_2fa", u, new, {})
      BY <2>0, <2>4 DEF Row, Reset2fa, Handle, No2fa
    <3>2. Proper("reset_2fa", rows[u], new) /\ Allowed("reset_2fa", u) /\ "reset_2fa" \in Ops
      BY <3>1, <2>0, <1>0 DEF Proper, Allowed, Ops
    <3> HIDE DEF new
    <3>. QED
      BY <3>1, <3>2, <2>0, <1>0, <1>c, <1>r
  <2>. QED
    BY <1>7, <2>1, <2>2, <2>3, <2>4
<1>8. ASSUME ChangePassword(b) \/ Setup2fa(b) \/ Confirm2fa(b) \/ Disable2fa(b)
      PROVE  Reads(b)
  <2> DEFINE u == CurrentUser(b)
  <2>0. u \in DOMAIN rows /\ u \in Users /\ rows[u] \in Row
    BY <1>8, CurrentExists DEF ChangePassword, Setup2fa, Confirm2fa, Disable2fa
  <2> HIDE DEF u
  <2>1. CASE ChangePassword(b)
    <3> DEFINE new == [rows[u] EXCEPT !.pw = "own"]
    <3>1. /\ new \in Row /\ new.must = rows[u].must /\ new.pw = "own"
          /\ new.admin = rows[u].admin
          /\ HandleCode(b, "password", u, new, {}) /\ UNCHANGED <<verified, spent>>
      BY <2>0, <2>1 DEF Row, ChangePassword, Handle, u
    <3>2. Proper("password", rows[u], new) /\ Allowed("password", u) /\ "password" \in Ops
      BY <3>1, <2>0, <1>0 DEF Proper, Allowed, Ops
    <3> HIDE DEF new
    <3>. QED
      BY <3>1, <3>2, <2>0, <1>0, <1>c, <1>r
  <2>2. CASE Setup2fa(b)
    <3>1. PICK s \in FreshSecrets :
            /\ HandleCode(b, "2fa_setup", u, Enrolling(rows[u], s), {})
            /\ verified' = verified \ {s}
            /\ spent' = spent
      BY <2>2 DEF Setup2fa, Handle, u
    <3>2. s \in Nat
      BY DEF FreshSecrets, LeastOf
    <3> DEFINE new == Enrolling(rows[u], s)
    <3>3. /\ new \in Row /\ new.must = rows[u].must /\ new.pw = rows[u].pw
          /\ new.admin = rows[u].admin
      BY <2>0, <3>2 DEF Row, Enrolling
    <3>4. Proper("2fa_setup", rows[u], new) /\ Allowed("2fa_setup", u) /\ "2fa_setup" \in Ops
      BY <3>3, <2>0, <1>0 DEF Proper, Allowed, Ops
    <3>5. HandleCode(b, "2fa_setup", u, new, {}) /\ verified' \subseteq Nat /\ spent' \subseteq Nat
      BY <3>1, <1>0
    <3> HIDE DEF new
    <3>. QED
      BY <3>3, <3>4, <3>5, <2>0, <1>0, <1>c, <1>r
  <2>3. CASE Confirm2fa(b)
    <3>1. PICK codes \in {rows[u].codes} \cup {Generation(g) : g \in FreshGenerations} :
            /\ HandleCode(b, "2fa_confirm", u, [rows[u] EXCEPT !.enabled = TRUE, !.codes = codes], {})
            /\ verified' = verified \cup {rows[u].secret}
            /\ spent' \subseteq spent
      <4>1. CASE u = BreakGlass
        BY <2>3, <4>1 DEF Confirm2fa, Handle, u
      <4>2. CASE u # BreakGlass
        <5>1. [rows[u] EXCEPT !.enabled = TRUE]
                = [rows[u] EXCEPT !.enabled = TRUE, !.codes = rows[u].codes]
          BY <2>0 DEF Row
        <5>. QED
          BY <2>3, <4>2, <5>1 DEF Confirm2fa, Handle, u
      <4>. QED
        BY <4>1, <4>2
    <3>2. codes \subseteq Nat
      <4>1. \A g \in FreshGenerations : Generation(g) \subseteq Nat
        BY DEF FreshGenerations, LeastOf, Generation
      <4>. QED
        BY <4>1, <2>0 DEF Row
    <3> DEFINE new == [rows[u] EXCEPT !.enabled = TRUE, !.codes = codes]
    <3>3. /\ new \in Row /\ new.must = rows[u].must /\ new.pw = rows[u].pw
          /\ new.admin = rows[u].admin
      BY <2>0, <3>2 DEF Row
    <3>4. Proper("2fa_confirm", rows[u], new) /\ Allowed("2fa_confirm", u) /\ "2fa_confirm" \in Ops
      BY <3>3, <2>0, <1>0 DEF Proper, Allowed, Ops
    <3>5. HandleCode(b, "2fa_confirm", u, new, {}) /\ verified' \subseteq Nat /\ spent' \subseteq Nat
      BY <3>1, <2>0, <1>0 DEF Row
    <3> HIDE DEF new
    <3>. QED
      BY <3>3, <3>4, <3>5, <2>0, <1>0, <1>c, <1>r
  <2>4. CASE Disable2fa(b)
    <3> DEFINE new == No2fa(rows[u])
    <3>1. /\ new \in Row /\ new.must = rows[u].must /\ new.pw = rows[u].pw
          /\ new.admin = rows[u].admin
          /\ HandleCode(b, "2fa_disable", u, new, {}) /\ UNCHANGED <<verified, spent>>
      BY <2>0, <2>4 DEF Row, Disable2fa, Handle, No2fa, u
    <3>2. Proper("2fa_disable", rows[u], new) /\ Allowed("2fa_disable", u) /\ "2fa_disable" \in Ops
      BY <3>1, <2>0, <1>0 DEF Proper, Allowed, Ops
    <3> HIDE DEF new
    <3>. QED
      BY <3>1, <3>2, <2>0, <1>0, <1>c, <1>r
  <2>. QED
    BY <1>8, <2>1, <2>2, <2>3, <2>4
<1>. QED
  BY <1>1, <1>2, <1>3, <1>4, <1>5, <1>6, <1>7, <1>8 DEF Request

-----------------------------------------------------------------------------
(* Type correctness *)

\* A commit of columns gives a row, a commit of a session a session.
LEMMA MergeType ==
  ASSUME NEW now \in Row, NEW q \in Handler
  PROVE  Merge(now, q) \in Row
<1>1. q.old \in Row /\ q.new \in Row
  BY DEF Handler
<1>. QED
  BY <1>1 DEF Merge, Column, Row

LEMMA SessionType ==
  ASSUME TypeOK, NEW b \in Browsers, NEW q \in Handler
  PROVE  Popped(b, q) \in Session /\ LoggedIn(b, q) \in Session
<1>1. sess[b] \in Session /\ q.uid \in Users \cup {None}
  BY DEF TypeOK, Handler
<1>2. ASSUME NEW s \in Session
      PROVE  [s EXCEPT !.twofa = q.uid] \in Session /\ [s EXCEPT !.user = q.uid] \in Session
  BY <1>1 DEF Session
<1>3. Popped(b, q) \in Session
  BY <1>1 DEF Popped, Session
<1>. QED
  BY <1>2, <1>3 DEF LoggedIn

\* A step ends a handler, or begins one, in well-typed requests.
LEMMA FinishType ==
  ASSUME TypeOK, NEW b \in Browsers, Finish(b)
  PROVE  /\ req' \in [Browsers -> {Idle} \cup Handler]
         /\ req'[b] = Idle
         /\ \A c \in Browsers \ {b} : req'[c] = req[c]
  BY DEF TypeOK, Finish

LEMMA ReadType ==
  ASSUME TypeOK, NEW b \in Browsers, NEW op \in Ops, NEW u \in Users \cup {None}, NEW new \in Row,
         NEW code \in SUBSET Nat, HandleCode(b, op, u, new, code)
  PROVE  /\ req' \in [Browsers -> {Idle} \cup Handler]
         /\ req'[b] = [op |-> op, uid |-> u, new |-> new, code |-> code,
                       old |-> IF Exists(u) THEN rows[u] ELSE new]
         /\ \A c \in Browsers \ {b} : req'[c] = req[c]
         /\ left' \in 0 .. MaxRequests
         /\ raced' \subseteq DOMAIN Races
<1>1. (IF Exists(u) THEN rows[u] ELSE new) \in Row
  BY DEF TypeOK, Exists
<1>2. [op |-> op, uid |-> u, new |-> new, code |-> code,
       old |-> IF Exists(u) THEN rows[u] ELSE new] \in Handler
  BY <1>1 DEF Handler
<1>3. left' \in 0 .. MaxRequests
  BY AccountsAssumption DEF AccountsAssumption, TypeOK, HandleCode
<1>4. raced' \subseteq DOMAIN Races
  BY DEF TypeOK, HandleCode, RacesWith
<1>. QED
  BY <1>2, <1>3, <1>4 DEF TypeOK, HandleCode

\* An insertion adds one row of an id that no row has, and notes the handlers that
\* have loaded that id.
LEMMA InsertShape ==
  ASSUME TypeOK, NEW b \in Browsers, Insert(b)
  PROVE  \E u \in Users :
           /\ u \notin DOMAIN rows
           /\ rows' = [w \in DOMAIN rows \cup {u} |-> IF w = u THEN req[b].new ELSE rows[w]]
           /\ raced \subseteq raced' /\ raced' \subseteq raced \cup {"reuse"}
           /\ (\E c \in Browsers : Busy(c) /\ req[c].uid = u) => "reuse" \in raced'
<1>1. PICK u \in NextIds :
        /\ rows' = [w \in DOMAIN rows \cup {u} |-> IF w = u THEN req[b].new ELSE rows[w]]
        /\ raced' = raced \cup {k \in {"reuse"} : \E c \in Browsers : Busy(c) /\ req[c].uid = u}
  BY DEF Insert
<1>2. u \in Users /\ \A v \in DOMAIN rows : v < u
  BY DEF NextIds, LeastOf
<1>3. u \notin DOMAIN rows
  <2>1. u \in Nat /\ ~(u < u)
    BY <1>2, AccountsAssumption DEF AccountsAssumption
  <2>. QED
    BY <1>2, <2>1
<1>. QED
  BY <1>1, <1>2, <1>3

\* Every variable keeps its type, whatever the accounts and browsers.
THEOREM TypeCorrect == Spec => []TypeOK
<1>1. Init => TypeOK
  <2> SUFFICES ASSUME Init PROVE TypeOK
    OBVIOUS
  <2>1. rows \in [DOMAIN rows -> Row] /\ DOMAIN rows \subseteq Users
    <3>1. CASE rows = [u \in {BreakGlass} |-> SeededRow]
      BY <3>1, RowTypes, AccountsAssumption DEF AccountsAssumption
    <3>2. ASSUME NEW a \in BOOLEAN,
                 rows = [u \in Users |-> IF u = BreakGlass
                           THEN [SeededRow EXCEPT !.must = FALSE, !.pw = "own"]
                           ELSE NewRow(a)]
          PROVE  rows \in [DOMAIN rows -> Row] /\ DOMAIN rows \subseteq Users
      <4>1. [SeededRow EXCEPT !.must = FALSE, !.pw = "own"] \in Row
        BY DEF SeededRow, Row
      <4>2. NewRow(a) \in Row
        BY RowTypes
      <4>. QED
        BY <3>2, <4>1, <4>2
    <3>. QED
      BY <3>1, <3>2 DEF Init
  <2>2. NoSession \in Session
    BY DEF NoSession, Session
  <2>3. left \in 0 .. MaxRequests
    BY AccountsAssumption DEF AccountsAssumption, Init
  <2>. QED
    BY <2>1, <2>2, <2>3 DEF Init, TypeOK
<1>2. TypeOK /\ [Next]_vars => TypeOK'
  <2> SUFFICES ASSUME TypeOK, [Next]_vars PROVE TypeOK'
    OBVIOUS
  <2>1. ASSUME NEW b \in Browsers, Request(b) PROVE TypeOK'
    <3>1. CASE Reads(b)
      <4>1. PICK op \in Ops, u \in Users \cup {None}, new \in Row, code \in SUBSET Nat :
              /\ HandleCode(b, op, u, new, code)
              /\ verified' \subseteq Nat /\ spent' \subseteq Nat
        BY <3>1 DEF Reads
      <4>2. /\ req' \in [Browsers -> {Idle} \cup Handler]
            /\ left' \in 0 .. MaxRequests
            /\ raced' \subseteq DOMAIN Races
        BY <4>1, ReadType
      <4>. QED
        BY <4>1, <4>2 DEF TypeOK, HandleCode
    <3>2. ASSUME NEW s \in Session, Answer(b, s) PROVE TypeOK'
      <4>1. left' \in 0 .. MaxRequests
        BY <3>2, AccountsAssumption DEF AccountsAssumption, TypeOK, Answer
      <4>. QED
        BY <3>2, <4>1 DEF TypeOK, Answer
    <3>. QED
      BY <2>1, <3>1, <3>2, RequestShape
  <2>2. ASSUME NEW b \in Browsers, Insert(b) PROVE TypeOK'
    <3>1. PICK u \in Users :
            /\ rows' = [w \in DOMAIN rows \cup {u} |-> IF w = u THEN req[b].new ELSE rows[w]]
            /\ raced' \subseteq raced \cup {"reuse"}
      BY <2>2, InsertShape
    <3>2. /\ rows' \in [DOMAIN rows' -> Row] /\ DOMAIN rows' = DOMAIN rows \cup {u}
      <4>1. req[b].new \in Row
        BY <2>2, BusyHandler DEF Insert
      <4>. QED
        BY <3>1, <4>1 DEF TypeOK
    <3>4. raced' \subseteq DOMAIN Races
      BY <3>1 DEF TypeOK, Races
    <3>3. req' \in [Browsers -> {Idle} \cup Handler]
      BY <2>2, FinishType DEF Insert
    <3>. QED
      BY <2>2, <3>2, <3>3, <3>4 DEF TypeOK, Insert
  <2>3. ASSUME NEW b \in Browsers, Remove(b) PROVE TypeOK'
    <3>1. req' \in [Browsers -> {Idle} \cup Handler]
      BY <2>3, FinishType DEF Remove
    <3>2. rows' \in [DOMAIN rows' -> Row] /\ DOMAIN rows' \subseteq DOMAIN rows
      BY <2>3 DEF Remove, TypeOK
    <3>. QED
      BY <2>3, <3>1, <3>2 DEF TypeOK, Remove
  <2>4. ASSUME NEW b \in Browsers, Update(b) PROVE TypeOK'
    <3>1. req[b] \in Handler /\ req[b].code \subseteq Nat
      BY <2>4, BusyHandler DEF Update
    <3>2. req' \in [Browsers -> {Idle} \cup Handler]
      BY <2>4, FinishType DEF Update
    <3>3. rows[req[b].uid] \in Row
      BY <2>4 DEF Update, TypeOK, Exists
    <3>4. rows' \in [DOMAIN rows' -> Row] /\ DOMAIN rows' = DOMAIN rows
      BY <2>4, <3>1, <3>3, MergeType DEF Update, TypeOK
    <3>5. sess' \in [Browsers -> Session]
      BY <2>4, <3>1, SessionType DEF Update, TypeOK
    <3>. QED
      BY <2>4, <3>1, <3>2, <3>4, <3>5 DEF TypeOK, Update
  <2>5. ASSUME NEW b \in Browsers, CommitFails(b) PROVE TypeOK'
    <3>1. req[b] \in Handler
      BY <2>5, BusyHandler DEF CommitFails
    <3>2. req' \in [Browsers -> {Idle} \cup Handler]
      BY <2>5, FinishType DEF CommitFails
    <3>3. sess' \in [Browsers -> Session]
      BY <2>5, <3>1, SessionType DEF CommitFails, TypeOK
    <3>. QED
      BY <2>5, <3>2, <3>3 DEF TypeOK, CommitFails
  <2>6. CASE Restart
    <3>1. rows' \in [DOMAIN rows' -> Row] /\ DOMAIN rows' \subseteq Users
      <4>1. CASE DOMAIN rows = {}
        BY <2>6, <4>1, RowTypes, AccountsAssumption DEF AccountsAssumption, Restart
      <4>2. CASE DOMAIN rows # {}
        BY <2>6, <4>2 DEF Restart, TypeOK
      <4>. QED
        BY <4>1, <4>2
    <3>. QED
      BY <2>6, <3>1 DEF Restart, TypeOK
  <2>7. CASE UNCHANGED vars
    BY <2>7 DEF vars, TypeOK
  <2>. QED
    BY <2>1, <2>2, <2>3, <2>4, <2>5, <2>6, <2>7 DEF Next, Commit, Done
<1>. QED
  BY <1>1, <1>2, PTL DEF Spec

-----------------------------------------------------------------------------
(* Who administers *)

\* How a commit changes the rights of the row it finds.
LEMMA MergeAdmin ==
  ASSUME NEW now \in Row, NEW q \in Handler, Proper(q.op, q.old, q.new),
         q.op \notin {"create", "toggle"}
  PROVE  Merge(now, q).admin = now.admin
  BY DEF Merge, Column, Proper

\* A step that starts no handler leaves the handlers in flight proper.
LEMMA StillProper ==
  ASSUME ProperHandlers,
         \A c \in Browsers : Busy(c)' => Busy(c) /\ req'[c] = req[c]
  PROVE  ProperHandlers'
  BY DEF ProperHandlers, Allowed

\* The break-glass account remains an administrator, and no account becomes or
\* ceases to be one but by a toggle: the induction step of the next two theorems.
LEMMA RightsStep ==
  ASSUME Rights, TypeOK', [Next]_vars
  PROVE  /\ SomeoneAdministers' /\ ProperHandlers'
         /\ \A u \in DOMAIN rows \cap DOMAIN rows' :
              rows'[u].admin # rows[u].admin => ToggleCommits(u)
<1> DEFINE Goal == /\ SomeoneAdministers' /\ ProperHandlers'
                   /\ \A u \in DOMAIN rows \cap DOMAIN rows' :
                        rows'[u].admin # rows[u].admin => ToggleCommits(u)
<1>0. TypeOK /\ SomeoneAdministers /\ ProperHandlers
  BY DEF Rights
<1>s. ASSUME rows' = rows, ProperHandlers' PROVE Goal
  BY <1>s, <1>0 DEF SomeoneAdministers, Exists
\* A commit ends one handler and touches no other.
<1>f. ASSUME NEW b \in Browsers, Finish(b)
      PROVE  ProperHandlers' /\ req'[b] = Idle
  <2>1. req'[b] = Idle /\ \A c \in Browsers \ {b} : req'[c] = req[c]
    BY <1>f, <1>0, FinishType
  <2>2. \A c \in Browsers : Busy(c)' => Busy(c) /\ req'[c] = req[c]
    BY <2>1 DEF Busy
  <2>. QED
    BY <1>f, <1>0, <2>1, <2>2, StillProper
<1>1. ASSUME NEW b \in Browsers, Request(b) PROVE Goal
  <2>1. CASE Reads(b)
    <3>1. PICK op \in Ops, u \in Users \cup {None}, new \in Row, code \in SUBSET Nat :
            /\ HandleCode(b, op, u, new, code)
            /\ Proper(op, IF Exists(u) THEN rows[u] ELSE new, new)
            /\ Allowed(op, u)
      BY <2>1 DEF Reads
    <3>2. rows' = rows
      BY <3>1 DEF HandleCode
    <3>3. /\ req'[b] = [op |-> op, uid |-> u, new |-> new, code |-> code,
                        old |-> IF Exists(u) THEN rows[u] ELSE new]
          /\ \A c \in Browsers \ {b} : req'[c] = req[c]
      BY <3>1, <1>0, ReadType
    <3>4. /\ Proper(req[b].op, req[b].old, req[b].new)'
          /\ Allowed(req[b].op, req[b].uid)'
      BY <3>1, <3>2, <3>3 DEF Allowed
    <3>5. ASSUME NEW c \in Browsers \ {b}, Busy(c)'
          PROVE  Proper(req[c].op, req[c].old, req[c].new)' /\ Allowed(req[c].op, req[c].uid)'
      BY <3>2, <3>3, <3>5, <1>0 DEF ProperHandlers, Busy, Allowed
    <3>6. ProperHandlers'
      BY <3>4, <3>5 DEF ProperHandlers
    <3>. QED
      BY <3>2, <3>6, <1>s
  <2>2. ASSUME NEW s \in Session, Answer(b, s) PROVE Goal
    <3>1. rows' = rows /\ ProperHandlers'
      BY <2>2, <1>0, StillProper DEF Answer, Busy
    <3>. QED
      BY <3>1, <1>s
  <2>. QED
    BY <1>1, <1>0, <2>1, <2>2, RequestShape
<1>2. ASSUME NEW b \in Browsers, Insert(b) PROVE Goal
  <2>1. PICK v \in Users :
          /\ v \notin DOMAIN rows
          /\ rows' = [w \in DOMAIN rows \cup {v} |-> IF w = v THEN req[b].new ELSE rows[w]]
    BY <1>0, <1>2, InsertShape
  <2>2. ProperHandlers'
    BY <1>2, <1>f DEF Insert
  <2>. QED
    BY <2>1, <2>2, <1>0 DEF SomeoneAdministers, Exists
<1>3. ASSUME NEW b \in Browsers, Remove(b) PROVE Goal
  <2>1. req[b].uid # BreakGlass
    BY <1>3, <1>0 DEF Remove, ProperHandlers, Allowed
  <2>2. /\ DOMAIN rows' = DOMAIN rows \ {req[b].uid}
        /\ \A u \in DOMAIN rows' : rows'[u] = rows[u]
    BY <1>3 DEF Remove
  <2>3. ProperHandlers'
    BY <1>3, <1>f DEF Remove
  <2>. QED
    BY <2>1, <2>2, <2>3, <1>0 DEF SomeoneAdministers, Exists
<1>4. ASSUME NEW b \in Browsers, Update(b) PROVE Goal
  <2> DEFINE q == req[b]
  <2>1. /\ q \in Handler /\ Proper(q.op, q.old, q.new) /\ Allowed(q.op, q.uid)
        /\ q.op # "create" /\ q.uid \in DOMAIN rows /\ rows[q.uid] \in Row /\ Busy(b)
    BY <1>4, <1>0, BusyHandler DEF Update, ProperHandlers, TypeOK, Exists
  <2>2. ProperHandlers' /\ req'[b] = Idle
    BY <1>4, <1>f DEF Update
  <2>3. /\ DOMAIN rows' = DOMAIN rows
        /\ \A u \in DOMAIN rows \ {q.uid} : rows'[u] = rows[u]
        /\ rows'[q.uid] = Merge(rows[q.uid], q)
    BY <1>4, <2>1 DEF Update
  <2>4. CASE q.op = "toggle"
    <3>1. q.uid # BreakGlass
      BY <2>1, <2>4 DEF Allowed
    <3>2. ToggleCommits(q.uid)
      BY <1>4, <2>4 DEF ToggleCommits
    <3>. QED
      BY <2>2, <2>3, <3>1, <3>2, <1>0 DEF SomeoneAdministers, Exists
  <2>5. CASE q.op # "toggle"
    <3>1. Merge(rows[q.uid], q).admin = rows[q.uid].admin
      BY <2>1, <2>5, MergeAdmin
    <3>2. \A u \in DOMAIN rows : rows'[u].admin = rows[u].admin
      BY <2>3, <3>1
    <3>. QED
      BY <2>2, <2>3, <3>2, <1>0 DEF SomeoneAdministers, Exists
  <2>. QED
    BY <2>4, <2>5
<1>5. ASSUME NEW b \in Browsers, CommitFails(b) PROVE Goal
  BY <1>5, <1>f, <1>s DEF CommitFails
<1>6. CASE Restart
  <2>1. rows' = rows
    BY <1>6, <1>0 DEF Restart, SomeoneAdministers, Exists
  <2>2. ProperHandlers'
    BY <1>6 DEF Restart, ProperHandlers, Busy
  <2>. QED
    BY <2>1, <2>2, <1>s
<1>7. CASE UNCHANGED vars
  <2>1. rows' = rows /\ req' = req
    BY <1>7 DEF vars
  <2>2. ProperHandlers'
    BY <2>1, <1>0, StillProper DEF Busy
  <2>. QED
    BY <2>1, <2>2, <1>s
<1>. QED
  BY <1>1, <1>2, <1>3, <1>4, <1>5, <1>6, <1>7 DEF Next, Commit, Done

\* Rights are an invariant.
LEMMA RightsInvariant == Spec => []Rights
<1>1. Init => SomeoneAdministers /\ ProperHandlers
  <2> SUFFICES ASSUME Init PROVE SomeoneAdministers /\ ProperHandlers
    OBVIOUS
  <2>1. ProperHandlers
    BY DEF Init, ProperHandlers, Busy
  <2>2. CASE rows = [u \in {BreakGlass} |-> SeededRow]
    BY <2>1, <2>2 DEF SomeoneAdministers, Exists, SeededRow
  <2>3. ASSUME NEW a \in BOOLEAN,
               rows = [u \in Users |-> IF u = BreakGlass
                         THEN [SeededRow EXCEPT !.must = FALSE, !.pw = "own"]
                         ELSE NewRow(a)]
        PROVE  SomeoneAdministers
    <3>1. [SeededRow EXCEPT !.must = FALSE, !.pw = "own"].admin = TRUE
      BY DEF SeededRow
    <3>. QED
      BY <2>3, <3>1, AccountsAssumption DEF AccountsAssumption, SomeoneAdministers, Exists
  <2>. QED
    BY <2>1, <2>2, <2>3 DEF Init
<1>2. Rights /\ TypeOK' /\ [Next]_vars => SomeoneAdministers' /\ ProperHandlers'
  BY RightsStep
<1>. QED
  BY <1>1, <1>2, TypeCorrect, PTL DEF Spec, Rights

\* Whatever administrators do at the same time, the break-glass account remains an
\* administrator.
THEOREM SomeoneAlwaysAdministers == Spec => []SomeoneAdministers
<1>1. Rights => SomeoneAdministers
  BY DEF Rights
<1>. QED
  BY <1>1, RightsInvariant, PTL

\* Two toggles of one account in flight at once are a race; without one, and without
\* a new account of the id, a toggle finds the rights it loaded when it commits.
TogglesAreRaces ==
  \A b \in Browsers : \A c \in Browsers \ {b} :
    (/\ Busy(b) /\ req[b].op = "toggle"
     /\ Busy(c) /\ req[c].op = "toggle"
     /\ req[b].uid = req[c].uid)
      => "rights" \in raced

TogglesFindRights ==
  raced \cap {"rights", "reuse"} = {} =>
    \A b \in Browsers :
      (Busy(b) /\ req[b].op = "toggle" /\ Exists(req[b].uid))
        => rows[req[b].uid].admin = req[b].old.admin

\* The inductive invariant of the theorem about toggles.
Toggles == TogglesAreRaces /\ TogglesFindRights

\* A step that starts no handler and changes no account's rights keeps Toggles, if
\* it notes every handler that has loaded the id of a new row.
LEMMA StillToggles ==
  ASSUME Toggles, raced \subseteq raced',
         \A u \in DOMAIN rows \cap DOMAIN rows' : rows'[u].admin = rows[u].admin,
         \A u \in DOMAIN rows' \ DOMAIN rows :
           (\E c \in Browsers : Busy(c) /\ req[c].uid = u) => "reuse" \in raced',
         \A c \in Browsers : Busy(c)' => Busy(c) /\ req'[c] = req[c]
  PROVE  Toggles'
<1>1. TogglesAreRaces'
  BY DEF Toggles, TogglesAreRaces
<1>2. TogglesFindRights'
  BY DEF Toggles, TogglesFindRights, Exists
<1>. QED
  BY <1>1, <1>2 DEF Toggles

\* Toggles that overlap are recorded when the later one starts.
LEMMA ReadToggles ==
  ASSUME TypeOK, Toggles, NEW b \in Browsers, NEW op \in Ops, NEW u \in Users \cup {None},
         NEW new \in Row, NEW code \in SUBSET Nat, HandleCode(b, op, u, new, code)
  PROVE  Toggles'
<1>1. /\ req'[b] = [op |-> op, uid |-> u, new |-> new, code |-> code,
                    old |-> IF Exists(u) THEN rows[u] ELSE new]
      /\ \A c \in Browsers \ {b} : req'[c] = req[c]
  BY ReadType
<1>2. raced' = raced \cup RacesWith(b, op, u) /\ rows' = rows
  BY DEF HandleCode
<1>3. ASSUME op = "toggle", NEW c \in Browsers \ {b}, Busy(c), req[c].uid = u,
             req[c].op = "toggle"
      PROVE  "rights" \in raced'
  <2>1. "rights" \in DOMAIN Races /\ Races["rights"] = {{"toggle"}}
    BY DEF Races
  <2>2. {op, req[c].op} = {"toggle"}
    BY <1>3
  <2>3. "rights" \in RacesWith(b, op, u)
    BY <1>3, <2>1, <2>2 DEF RacesWith
  <2>. QED
    BY <1>2, <2>3
<1>4. TogglesAreRaces'
  <2> SUFFICES ASSUME NEW c \in Browsers, NEW d \in Browsers \ {c},
                      Busy(c)', req'[c].op = "toggle",
                      Busy(d)', req'[d].op = "toggle",
                      req'[c].uid = req'[d].uid
               PROVE  "rights" \in raced'
    BY DEF TogglesAreRaces
  <2>1. CASE c = b
    BY <2>1, <1>1, <1>3 DEF Busy
  <2>2. CASE d = b
    BY <2>2, <1>1, <1>3 DEF Busy
  <2>3. CASE c # b /\ d # b
    BY <2>3, <1>1, <1>2 DEF Toggles, TogglesAreRaces, Busy
  <2>. QED
    BY <2>1, <2>2, <2>3
<1>5. TogglesFindRights'
  BY <1>1, <1>2 DEF Toggles, TogglesFindRights, Exists, Busy
<1>. QED
  BY <1>4, <1>5 DEF Toggles

\* Toggles are an invariant.
LEMMA TogglesInvariant == Spec => []Toggles
<1>1. Init => Toggles
  BY DEF Init, Toggles, TogglesAreRaces, TogglesFindRights, Busy
<1>2. Rights /\ TypeOK' /\ Toggles /\ [Next]_vars => Toggles'
  <2> SUFFICES ASSUME Rights, TypeOK', Toggles, [Next]_vars PROVE Toggles'
    OBVIOUS
  <2>0. TypeOK /\ ProperHandlers /\ SomeoneAdministers
    BY DEF Rights
  \* A step that starts no handler and turns nobody's rights.
  <2>s. ASSUME raced' = raced, DOMAIN rows' \subseteq DOMAIN rows,
               \A u \in DOMAIN rows' : rows'[u].admin = rows[u].admin,
               \A c \in Browsers : Busy(c)' => Busy(c) /\ req'[c] = req[c]
        PROVE  Toggles'
    BY <2>s, StillToggles
  <2>f. ASSUME NEW b \in Browsers, Finish(b)
        PROVE  \A c \in Browsers : Busy(c)' => c # b /\ Busy(c) /\ req'[c] = req[c]
    BY <2>0, <2>f, FinishType DEF Busy
  <2>1. ASSUME NEW b \in Browsers, Request(b) PROVE Toggles'
    <3>1. CASE Reads(b)
      BY <3>1, <2>0, ReadToggles DEF Reads
    <3>2. ASSUME NEW s \in Session, Answer(b, s) PROVE Toggles'
      BY <3>2, <2>s DEF Answer, Busy
    <3>. QED
      BY <2>0, <2>1, <3>1, <3>2, RequestShape
  <2>2. ASSUME NEW b \in Browsers, Insert(b) PROVE Toggles'
    <3>1. PICK v \in Users :
            /\ v \notin DOMAIN rows
            /\ rows' = [w \in DOMAIN rows \cup {v} |-> IF w = v THEN req[b].new ELSE rows[w]]
            /\ raced \subseteq raced'
            /\ (\E c \in Browsers : Busy(c) /\ req[c].uid = v) => "reuse" \in raced'
      BY <2>0, <2>2, InsertShape
    <3>2. \A c \in Browsers : Busy(c)' => Busy(c) /\ req'[c] = req[c]
      BY <2>2, <2>f DEF Insert
    <3>. QED
      BY <3>1, <3>2, StillToggles
  <2>3. ASSUME NEW b \in Browsers, Remove(b) PROVE Toggles'
    BY <2>3, <2>f, <2>s DEF Remove
  <2>4. ASSUME NEW b \in Browsers, Update(b) PROVE Toggles'
    <3> DEFINE q == req[b]
               v == q.uid
    <3>1. /\ Finish(b) /\ raced' = raced /\ DOMAIN rows' = DOMAIN rows /\ v \in DOMAIN rows
          /\ \A u \in DOMAIN rows \ {v} : rows'[u] = rows[u]
          /\ rows'[v] = Merge(rows[v], q)
      BY <2>4 DEF Update, Exists
    <3>2. \A c \in Browsers : Busy(c)' => c # b /\ Busy(c) /\ req'[c] = req[c]
      BY <3>1, <2>f
    <3>3. CASE q.op # "toggle"
      <4>1. rows'[v].admin = rows[v].admin
        BY <2>0, <2>4, <3>1, <3>3, BusyHandler, MergeAdmin
           DEF Update, ProperHandlers, TypeOK, Exists
      <4> HIDE DEF v
      <4>. QED
        BY <3>1, <3>2, <4>1, <2>s
    <3>4. CASE q.op = "toggle"
      <4>1. TogglesAreRaces'
        BY <3>1, <3>2 DEF Toggles, TogglesAreRaces
      <4>2. ASSUME raced' \cap {"rights", "reuse"} = {}, NEW c \in Browsers,
                   Busy(c)', req'[c].op = "toggle", req'[c].uid \in DOMAIN rows'
            PROVE  rows'[req'[c].uid].admin = req'[c].old.admin
        <5>1. c # b /\ Busy(c) /\ req'[c] = req[c]
          BY <4>2, <3>2
        <5>2. req[c].uid # v
          BY <2>4, <3>1, <3>4, <4>2, <5>1 DEF Toggles, TogglesAreRaces, Update
        <5>. QED
          BY <3>1, <4>2, <5>1, <5>2 DEF Toggles, TogglesFindRights, Exists
      <4>3. TogglesFindRights'
        BY <4>2 DEF TogglesFindRights, Exists
      <4>. QED
        BY <4>1, <4>3 DEF Toggles
    <3>. QED
      BY <3>3, <3>4
  <2>5. ASSUME NEW b \in Browsers, CommitFails(b) PROVE Toggles'
    BY <2>5, <2>f, <2>s DEF CommitFails
  <2>6. CASE Restart
    <3>1. rows' = rows /\ raced' = raced
      BY <2>0, <2>6 DEF Restart, SomeoneAdministers, Exists
    <3>2. \A c \in Browsers : ~Busy(c)'
      BY <2>6 DEF Restart, Busy
    <3>. QED
      BY <3>1, <3>2, <2>s
  <2>7. CASE UNCHANGED vars
    BY <2>7, <2>s DEF vars, Busy
  <2>. QED
    BY <2>1, <2>2, <2>3, <2>4, <2>5, <2>6, <2>7 DEF Next, Commit, Done
<1>. QED
  BY <1>1, <1>2, RightsInvariant, TypeCorrect, PTL DEF Spec

\* An account's rights change only with the commit of a toggle of its id, and every
\* such commit turns them, unless toggles of the account overlapped or its id went
\* to a new account while one was in flight.
THEOREM RightsOnlyByToggle == Spec => RightsFollowToggles
<1>1. ASSUME Rights, Toggles, TypeOK', [Next]_vars,
             NEW u \in DOMAIN rows \cap DOMAIN rows'
      PROVE  /\ rows'[u].admin # rows[u].admin => ToggleCommits(u)
             /\ ToggleCommits(u) /\ raced \cap {"rights", "reuse"} = {}
                  => rows'[u].admin # rows[u].admin
  <2>1. rows'[u].admin # rows[u].admin => ToggleCommits(u)
    BY <1>1, RightsStep
  <2>2. ASSUME ToggleCommits(u), raced \cap {"rights", "reuse"} = {}
        PROVE  rows'[u].admin # rows[u].admin
    <3>1. PICK b \in Browsers : Update(b) /\ req[b].op = "toggle" /\ req[b].uid = u
      BY <2>2 DEF ToggleCommits
    <3> DEFINE q == req[b]
    <3>2. /\ q.new.admin # q.old.admin /\ rows[u].admin = q.old.admin
          /\ rows'[u] = Merge(rows[u], q)
      BY <1>1, <2>2, <3>1
         DEF Update, Rights, ProperHandlers, Proper, Toggles, TogglesFindRights, Exists
    <3>. QED
      BY <3>2 DEF Merge, Column
  <2>. QED
    BY <2>1, <2>2
<1>2. Rights /\ Toggles /\ TypeOK' /\ [Next]_vars =>
        [\A u \in DOMAIN rows \cap DOMAIN rows' :
           /\ rows'[u].admin # rows[u].admin => ToggleCommits(u)
           /\ ToggleCommits(u) /\ raced \cap {"rights", "reuse"} = {}
                => rows'[u].admin # rows[u].admin]_vars
  BY <1>1
<1>. QED
  BY <1>2, RightsInvariant, TogglesInvariant, TypeCorrect, PTL DEF Spec, RightsFollowToggles

-----------------------------------------------------------------------------
(* Assigned passwords *)

\* How a commit changes password and must_change_password of the row it finds.
LEMMA MergePassword ==
  ASSUME NEW now \in Row, NEW q \in Handler, Proper(q.op, q.old, q.new),
         q.op # "create"
  PROVE  /\ q.op = "account_setup" => Merge(now, q).pw = "own"
         /\ q.op = "password" => Merge(now, q).pw = "own"
         /\ q.op # "account_setup" /\ now.must => Merge(now, q).must
         /\ q.op = "reset" /\ ~q.old.must => Merge(now, q).must
         /\ q.op \notin {"account_setup", "reset", "password"} =>
              Merge(now, q).pw = now.pw /\ Merge(now, q).must = now.must
<1>1. /\ q.old.must \in BOOLEAN /\ q.new.must \in BOOLEAN /\ now.must \in BOOLEAN
  BY DEF Handler, Row
<1>2. /\ Merge(now, q).must = IF q.new.must # q.old.must THEN q.new.must ELSE now.must
      /\ Merge(now, q).pw = IF q.op \in {"account_setup", "reset", "password"}
                            THEN q.new.pw
                            ELSE IF q.new.pw # q.old.pw THEN q.new.pw ELSE now.pw
  BY DEF Merge, Column
<1>3. q.op \in {"account_setup", "password"} => q.new.pw = "own"
  BY DEF Proper
<1>4. q.op = "reset" => q.new.must
  BY DEF Proper
<1>5. q.op \notin {"account_setup", "reset"} => q.new.must = q.old.must
  BY DEF Proper
<1>6. q.op \notin {"account_setup", "reset", "password"} => q.new.pw = q.old.pw
  BY DEF Proper
<1>. QED
  BY <1>1, <1>2, <1>3, <1>4, <1>5, <1>6

\* A step that starts no handler and changes no row keeps Passwords.
LEMMA StillPasswords ==
  ASSUME Passwords, raced \subseteq raced', rows' = rows,
         \A c \in Browsers : Busy(c)' => Busy(c) /\ req'[c] = req[c]
  PROVE  Passwords'
  BY DEF Passwords, SetupsAreRaces, ResetsFindMust, AssignedMustChange, Exists

\* The parts of Passwords that a commit of b may disturb are those about rows.
LEMMA CommitPasswords ==
  ASSUME TypeOK, Passwords, NEW b \in Browsers, Finish(b), raced \subseteq raced',
         NEW v,
         \A u \in DOMAIN rows' : u # v => u \in DOMAIN rows /\ rows'[u] = rows[u],
         "password" \notin raced /\ v \in DOMAIN rows' =>
           /\ rows'[v].pw = "assigned" => rows'[v].must
           /\ \A c \in Browsers \ {b} :
                Busy(c) /\ req[c].op = "reset" /\ req[c].old.must /\ req[c].uid = v
                  => rows'[v].must
  PROVE  Passwords'
<1>1. req'[b] = Idle /\ \A c \in Browsers \ {b} : req'[c] = req[c]
  BY FinishType
<1>2. \A c \in Browsers : Busy(c)' => c # b /\ Busy(c) /\ req'[c] = req[c]
  BY <1>1 DEF Busy
<1>3. SetupsAreRaces'
  BY <1>2 DEF Passwords, SetupsAreRaces
<1>4. ResetsFindMust'
  BY <1>2 DEF Passwords, ResetsFindMust, Exists
<1>5. AssignedMustChange'
  BY DEF Passwords, AssignedMustChange
<1>. QED
  BY <1>3, <1>4, <1>5 DEF Passwords

\* A reset and a setup of one account that overlap are recorded when the later
\* one starts, and a reset remembers must_change_password as it finds it.
LEMMA ReadPasswords ==
  ASSUME TypeOK, Passwords, NEW b \in Browsers, NEW op \in Ops, NEW u \in Users \cup {None},
         NEW new \in Row, NEW code \in SUBSET Nat, HandleCode(b, op, u, new, code)
  PROVE  Passwords'
<1>1. /\ req'[b] = [op |-> op, uid |-> u, new |-> new, code |-> code,
                    old |-> IF Exists(u) THEN rows[u] ELSE new]
      /\ \A c \in Browsers \ {b} : req'[c] = req[c]
  BY ReadType
<1>2. raced' = raced \cup RacesWith(b, op, u) /\ rows' = rows
  BY DEF HandleCode
<1>3. ASSUME NEW c \in Browsers \ {b}, Busy(c), req[c].uid = u,
             {op, req[c].op} = {"reset", "account_setup"}
      PROVE  "password" \in raced'
  <2>1. "password" \in DOMAIN Races /\ Races["password"] = {{"reset", "account_setup"}}
    BY DEF Races
  <2>2. "password" \in RacesWith(b, op, u)
    BY <1>3, <2>1 DEF RacesWith
  <2>. QED
    BY <1>2, <2>2
<1>4. SetupsAreRaces'
  <2> SUFFICES ASSUME NEW c \in Browsers, NEW d \in Browsers,
                      Busy(c)', req'[c].op = "reset",
                      Busy(d)', req'[d].op = "account_setup",
                      req'[c].uid = req'[d].uid
               PROVE  "password" \in raced'
    BY DEF SetupsAreRaces
  <2>1. CASE c = b
    <3>1. d # b /\ req'[d] = req[d] /\ req[d].uid = u /\ op = "reset" /\ Busy(d)
      BY <2>1, <1>1 DEF Busy
    <3>2. {op, req[d].op} = {"reset", "account_setup"}
      BY <3>1
    <3>. QED
      BY <3>1, <3>2, <1>3
  <2>2. CASE d = b
    <3>1. c # b /\ req'[c] = req[c] /\ req[c].uid = u /\ op = "account_setup" /\ Busy(c)
      BY <2>2, <1>1 DEF Busy
    <3>2. {op, req[c].op} = {"reset", "account_setup"}
      BY <3>1
    <3>. QED
      BY <3>1, <3>2, <1>3
  <2>3. CASE c # b /\ d # b
    BY <2>3, <1>1, <1>2 DEF Passwords, SetupsAreRaces, Busy
  <2>. QED
    BY <2>1, <2>2, <2>3
<1>5. ResetsFindMust'
  BY <1>1, <1>2 DEF Passwords, ResetsFindMust, Exists, Busy
<1>6. AssignedMustChange'
  BY <1>2 DEF Passwords, AssignedMustChange
<1>. QED
  BY <1>4, <1>5, <1>6 DEF Passwords

\* An account whose password an administrator chose has to change it, unless the
\* reset and the account's own setup were in flight at once.
THEOREM AssignedAlwaysMustChange == Spec => []AssignedMustChange
<1>1. Init => Passwords
  <2> SUFFICES ASSUME Init PROVE Passwords
    OBVIOUS
  <2>1. SetupsAreRaces /\ ResetsFindMust
    BY DEF Init, SetupsAreRaces, ResetsFindMust, Busy
  <2>2. CASE rows = [u \in {BreakGlass} |-> SeededRow]
    BY <2>1, <2>2 DEF Passwords, AssignedMustChange, SeededRow
  <2>3. ASSUME NEW a \in BOOLEAN,
               rows = [u \in Users |-> IF u = BreakGlass
                         THEN [SeededRow EXCEPT !.must = FALSE, !.pw = "own"]
                         ELSE NewRow(a)]
        PROVE  Passwords
    <3>1. [SeededRow EXCEPT !.must = FALSE, !.pw = "own"].pw = "own"
      BY DEF SeededRow
    <3>. QED
      BY <2>1, <2>3, <3>1, RowTypes DEF Passwords, AssignedMustChange
  <2>. QED
    BY <2>1, <2>2, <2>3 DEF Init
<1>2. Rights /\ Passwords /\ [Next]_vars => Passwords'
  <2> SUFFICES ASSUME Rights, Passwords, [Next]_vars PROVE Passwords'
    OBVIOUS
  <2>0. TypeOK /\ ProperHandlers /\ SomeoneAdministers
    BY DEF Rights
  <2>1. ASSUME NEW b \in Browsers, Request(b) PROVE Passwords'
    <3>1. CASE Reads(b)
      BY <3>1, <2>0, ReadPasswords DEF Reads
    <3>2. ASSUME NEW s \in Session, Answer(b, s) PROVE Passwords'
      BY <3>2, StillPasswords DEF Answer, Busy
    <3>. QED
      BY <2>0, <2>1, <3>1, <3>2, RequestShape
  <2>2. ASSUME NEW b \in Browsers, Insert(b) PROVE Passwords'
    <3>1. PICK v \in Users :
            /\ v \notin DOMAIN rows /\ raced \subseteq raced'
            /\ rows' = [w \in DOMAIN rows \cup {v} |-> IF w = v THEN req[b].new ELSE rows[w]]
      BY <2>0, <2>2, InsertShape
    <3>3. /\ Finish(b) /\ rows'[v] = req[b].new
          /\ \A u \in DOMAIN rows' : u # v => u \in DOMAIN rows /\ rows'[u] = rows[u]
      BY <2>2, <3>1 DEF Insert
    <3>2. req[b].new.must
      BY <2>0, <2>2 DEF Insert, ProperHandlers, Proper
    <3>. QED
      BY <2>0, <3>1, <3>2, <3>3, CommitPasswords
  <2>3. ASSUME NEW b \in Browsers, Remove(b) PROVE Passwords'
    <3> DEFINE v == req[b].uid
    <3>1. /\ Finish(b) /\ raced' = raced /\ v \notin DOMAIN rows'
          /\ \A u \in DOMAIN rows' : u # v => u \in DOMAIN rows /\ rows'[u] = rows[u]
      BY <2>0, <2>3, BusyHandler DEF Remove
    <3>. QED
      BY <2>0, <3>1, CommitPasswords
  <2>4. ASSUME NEW b \in Browsers, Update(b) PROVE Passwords'
    <3> DEFINE q == req[b]
               v == q.uid
    <3>1. /\ q \in Handler /\ v \in Users /\ q.op # "create" /\ Proper(q.op, q.old, q.new)
          /\ v \in DOMAIN rows /\ rows[v] \in Row /\ Busy(b)
      BY <2>0, <2>4, BusyHandler DEF Update, ProperHandlers, TypeOK, Exists
    <3>2. /\ Finish(b) /\ raced' = raced
          /\ \A u \in DOMAIN rows' : u # v => u \in DOMAIN rows /\ rows'[u] = rows[u]
          /\ rows'[v] = Merge(rows[v], q)
      BY <2>4, <3>1 DEF Update
    <3> HIDE DEF v
    <3>3. ASSUME "password" \notin raced, rows'[v].pw = "assigned" PROVE rows'[v].must
      <4>1. rows[v].pw = "assigned" => rows[v].must
        BY <3>1, <3>3 DEF Passwords, AssignedMustChange
      <4>2. q.op = "reset" /\ q.old.must => rows[v].must
        BY <3>1, <3>3 DEF Passwords, ResetsFindMust, Exists, v
      <4>3. rows'[v] = Merge(rows[v], q) /\ "own" # "assigned"
        BY <3>2
      <4>. QED
        BY <3>1, <3>3, <4>1, <4>2, <4>3, MergePassword
    <3>4. ASSUME "password" \notin raced, NEW c \in Browsers \ {b}, Busy(c),
                 req[c].op = "reset", req[c].old.must, req[c].uid = v
          PROVE  rows'[v].must
      <4>1. rows[v].must
        BY <3>1, <3>4 DEF Passwords, ResetsFindMust, Exists
      <4>2. q.op # "account_setup"
        BY <3>1, <3>4 DEF Passwords, SetupsAreRaces, v
      <4>. QED
        BY <3>1, <3>2, <4>1, <4>2, MergePassword
    <3>. QED
      BY <2>0, <3>1, <3>2, <3>3, <3>4, CommitPasswords
  <2>5. ASSUME NEW b \in Browsers, CommitFails(b) PROVE Passwords'
    <3>1. req'[b] = Idle /\ \A c \in Browsers \ {b} : req'[c] = req[c]
      BY <2>0, <2>5, FinishType DEF CommitFails
    <3>. QED
      BY <2>5, <3>1, StillPasswords DEF CommitFails, Busy
  <2>6. CASE Restart
    <3>1. rows' = rows /\ raced' = raced
      BY <2>0, <2>6 DEF Restart, SomeoneAdministers, Exists
    <3>2. \A c \in Browsers : ~Busy(c)'
      BY <2>6 DEF Restart, Busy
    <3>. QED
      BY <3>1, <3>2, StillPasswords
  <2>7. CASE UNCHANGED vars
    BY <2>7, StillPasswords DEF vars, Busy
  <2>. QED
    BY <2>1, <2>2, <2>3, <2>4, <2>5, <2>6, <2>7 DEF Next, Commit, Done
<1>3. Passwords => AssignedMustChange
  BY DEF Passwords
<1>. QED
  BY <1>1, <1>2, <1>3, RightsInvariant, PTL DEF Spec

-----------------------------------------------------------------------------
(* The second factor: what a handler may ask for                             *)

\* The handlers that take an account's second factor away.
Clearing == {"2fa_setup", "2fa_disable", "reset_2fa"}

\* The columns of the second factor that op changes in a row.
Changes(op, old, new, code) ==
  /\ op \in Clearing \cup {"create"} => ~new.enabled
  /\ op = "2fa_confirm" => new.secret = old.secret
  /\ op \notin Clearing \cup {"create", "2fa_confirm"} =>
       new.enabled = old.enabled /\ new.secret = old.secret
  /\ op = "redeem" => code # {} /\ code \subseteq old.codes /\ new.codes = old.codes \ code
  /\ op # "redeem" => code = {}
  /\ op \in {"2fa_disable", "reset_2fa", "create"} => new.codes = {}
  /\ op \notin {"2fa_disable", "reset_2fa", "create", "2fa_confirm", "redeem"}
       => new.codes = old.codes

\* What a read notes of secrets: a confirmation's was verified; a setup's is fresh.
NotesSecret(op, u) ==
  \/ op = "2fa_confirm" /\ verified \subseteq verified' /\ rows[u].secret \in verified'
  \/ op # "2fa_confirm" /\ verified' = verified
  \/ op = "2fa_setup" /\ \E s : verified' = verified \ {s} /\ \A r \in InUse : r.secret # s

\* And of recovery codes: those of the break-glass account's confirmation are fresh.
NotesCodes(op, u, old, new) ==
  \/ op = "2fa_confirm" /\ u # BreakGlass /\ spent' = spent /\ new.codes = old.codes
  \/ op # "2fa_confirm" /\ spent' = spent
  \/ /\ op = "2fa_confirm" /\ u = BreakGlass
     /\ spent' = spent \ new.codes
     /\ \A r \in InUse : r.codes \cap new.codes = {}

FactorRead(b) ==
  \E op \in Ops, u \in Users \cup {None}, new \in Row, code \in SUBSET Nat :
    LET old == IF Exists(u) THEN rows[u] ELSE new IN
    /\ HandleCode(b, op, u, new, code)
    /\ Changes(op, old, new, code)
    /\ op = "create" <=> ~Exists(u)
    /\ NotesSecret(op, u)
    /\ NotesCodes(op, u, old, new)

\* A read of an account with a row that notes nothing.
LEMMA PlainRead ==
  ASSUME TypeOK, NEW b \in Browsers, NEW u \in DOMAIN rows, NEW op \in Ops, NEW new \in Row,
         NEW code \in SUBSET Nat, HandleCode(b, op, u, new, code),
         Changes(op, rows[u], new, code),
         op \notin {"create", "2fa_confirm"}, UNCHANGED <<verified, spent>>
  PROVE  FactorRead(b)
<1>1. u \in Users
  BY DEF TypeOK
<1>. QED
  BY <1>1 DEF FactorRead, NotesSecret, NotesCodes, Exists

\* Every request is such a read, or an answer that changes the session only.
LEMMA FactorShape ==
  ASSUME TypeOK, NEW b \in Browsers, Request(b)
  PROVE  FactorRead(b) \/ \E s : Answer(b, s)
<1> USE DEF Exists
<1>0. /\ \A u \in DOMAIN rows : u \in Users /\ rows[u] \in Row
      /\ {} \in SUBSET Nat
      /\ None \notin Users
  BY AccountsAssumption DEF TypeOK, AccountsAssumption
<1>1. ASSUME NEW u \in Users, Login(b, u) PROVE FactorRead(b) \/ \E s : Answer(b, s)
  <2>1. CASE HandleCode(b, "login", u, rows[u], {}) /\ UNCHANGED <<verified, spent>>
    <3>1. u \in DOMAIN rows /\ "login" \in Ops /\ Changes("login", rows[u], rows[u], {})
      BY <1>1 DEF Login, Ops, Changes, Clearing
    <3>. QED
      BY <3>1, <2>1, <1>0, PlainRead
  <2>. QED
    BY <1>1, <2>1 DEF Login, Handle
<1>2. CASE Logout(b) \/ Cancel(b)
  BY <1>2 DEF Logout, Cancel
<1>3. CASE AccountSetup(b)
  <2> DEFINE u == sess[b].setup
             new == [rows[u] EXCEPT !.must = FALSE, !.pw = "own"]
  <2>1. CASE u \in DOMAIN rows /\ rows[u].must
    <3>1. HandleCode(b, "account_setup", u, new, {}) /\ UNCHANGED <<verified, spent>>
      BY <1>3, <2>1 DEF AccountSetup, Handle
    <3>2. rows[u] \in Row
      BY <2>1, <1>0
    <3> HIDE DEF u
    <3>3. /\ new \in Row /\ new.enabled = rows[u].enabled /\ new.secret = rows[u].secret
          /\ new.codes = rows[u].codes
      BY <3>2 DEF Row
    <3> HIDE DEF new
    <3>4. "account_setup" \in Ops /\ Changes("account_setup", rows[u], new, {})
      BY <3>3 DEF Ops, Changes, Clearing
    <3>. QED
      BY <2>1, <3>1, <3>3, <3>4, <1>0, PlainRead
  <2>2. CASE ~(u \in DOMAIN rows /\ rows[u].must)
    BY <1>3, <2>2 DEF AccountSetup
  <2>. QED
    BY <2>1, <2>2
<1>4. CASE Login2fa(b)
  <2> DEFINE u == sess[b].twofa
  <2>1. CASE u \in DOMAIN rows /\ rows[u].enabled
    <3>0. UNCHANGED <<verified, spent>>
      BY <1>4, <2>1 DEF Login2fa
    <3>1. CASE HandleCode(b, "totp", u, rows[u], {})
      <4>1. "totp" \in Ops /\ Changes("totp", rows[u], rows[u], {})
        BY DEF Ops, Changes, Clearing
      <4>. QED
        BY <4>1, <3>0, <3>1, <2>1, <1>0, PlainRead
    <3>2. ASSUME NEW c \in rows[u].codes, HandleCode(b, "redeem", u, Redeem(rows[u], c), {c})
          PROVE  FactorRead(b)
      <4> DEFINE new == Redeem(rows[u], c)
      <4>1. /\ new \in Row /\ {c} \in SUBSET Nat
            /\ new.enabled = rows[u].enabled /\ new.secret = rows[u].secret
            /\ new.codes = rows[u].codes \ {c}
        <5>1. rows[u] \in Row
          BY <2>1, <1>0
        <5>2. \A row \in Row : \A x \in row.codes :
                /\ Redeem(row, x) \in Row /\ {x} \in SUBSET Nat
                /\ Redeem(row, x).enabled = row.enabled
                /\ Redeem(row, x).secret = row.secret
                /\ Redeem(row, x).codes = row.codes \ {x}
          BY DEF Row, Redeem
        <5> HIDE DEF u
        <5>. QED
          BY <5>1, <5>2, <3>2
      <4> HIDE DEF new
      <4>2. "redeem" \in Ops /\ Changes("redeem", rows[u], new, {c})
        BY <4>1 DEF Ops, Changes, Clearing
      <4>3. HandleCode(b, "redeem", u, new, {c})
        BY <3>2 DEF new
      <4>. QED
        BY <4>1, <4>2, <4>3, <3>0, <2>1, PlainRead
    <3>. QED
      BY <1>4, <2>1, <3>1, <3>2 DEF Login2fa, Handle
  <2>2. CASE ~(u \in DOMAIN rows /\ rows[u].enabled)
    BY <1>4, <2>2 DEF Login2fa
  <2>. QED
    BY <2>1, <2>2
<1>5. ASSUME NEW a \in BOOLEAN, Create(b, a) PROVE FactorRead(b)
  <2> DEFINE new == NewRow(a)
             u == None
  <2>1. u \notin DOMAIN rows /\ HandleCode(b, "create", u, new, {})
        /\ UNCHANGED <<verified, spent>> /\ u \in Users \cup {None}
    BY <1>0, <1>5 DEF Create, Handle
  <2>2. new \in Row /\ ~new.enabled /\ new.codes = {}
    BY DEF NewRow, SeededRow, Row
  <2> HIDE DEF new, u
  <2>3. "create" \in Ops /\ Changes("create", new, new, {})
    BY <2>2 DEF Ops, Changes, Clearing
  <2>. QED
    BY <2>1, <2>2, <2>3, <1>0 DEF FactorRead, NotesSecret, NotesCodes
<1>6. ASSUME NEW u \in Users,
             Delete(b, u) \/ ToggleAdmin(b, u) \/ Reset(b, u) \/ Reset2fa(b, u)
      PROVE  FactorRead(b)
  <2>0. u \in DOMAIN rows /\ rows[u] \in Row /\ UNCHANGED <<verified, spent>>
    BY <1>6, <1>0 DEF Delete, ToggleAdmin, Reset, Reset2fa, MayChange
  <2>1. ASSUME NEW op \in {"delete", "toggle", "reset"}, NEW new \in Row,
               HandleCode(b, op, u, new, {}), new.enabled = rows[u].enabled,
               new.secret = rows[u].secret, new.codes = rows[u].codes
        PROVE  FactorRead(b)
    <3>1. op \in Ops /\ op \notin {"create", "2fa_confirm"} /\ Changes(op, rows[u], new, {})
      BY <2>1 DEF Ops, Changes, Clearing
    <3>. QED
      BY <3>1, <2>0, <2>1, <1>0, PlainRead
  <2>2. CASE Delete(b, u)
    <3>1. HandleCode(b, "delete", u, rows[u], {})
      BY <2>2 DEF Delete, Handle
    <3>. QED
      BY <3>1, <2>0, <2>1
  <2>3. CASE ToggleAdmin(b, u)
    <3> DEFINE new == [rows[u] EXCEPT !.admin = ~@]
    <3>1. /\ new \in Row /\ new.enabled = rows[u].enabled /\ new.secret = rows[u].secret
          /\ new.codes = rows[u].codes /\ HandleCode(b, "toggle", u, new, {})
      BY <2>0, <2>3 DEF Row, ToggleAdmin, Handle
    <3> HIDE DEF new
    <3>. QED
      BY <3>1, <2>1
  <2>4. CASE Reset(b, u)
    <3> DEFINE new == [rows[u] EXCEPT !.pw = "assigned", !.must = TRUE]
    <3>1. /\ new \in Row /\ new.enabled = rows[u].enabled /\ new.secret = rows[u].secret
          /\ new.codes = rows[u].codes /\ HandleCode(b, "reset", u, new, {})
      BY <2>0, <2>4 DEF Row, Reset, Handle
    <3> HIDE DEF new
    <3>. QED
      BY <3>1, <2>1
  <2>5. CASE Reset2fa(b, u)
    <3> DEFINE new == No2fa(rows[u])
    <3>1. /\ new \in Row /\ ~new.enabled /\ new.codes = {}
          /\ HandleCode(b, "reset_2fa", u, new, {})
      BY <2>0, <2>5 DEF Row, Reset2fa, Handle, No2fa
    <3> HIDE DEF new
    <3>2. "reset_2fa" \in Ops /\ Changes("reset_2fa", rows[u], new, {})
      BY <3>1 DEF Ops, Changes, Clearing
    <3>. QED
      BY <3>1, <3>2, <2>0, <1>0, PlainRead
  <2>. QED
    BY <1>6, <2>2, <2>3, <2>4, <2>5
<1>7. ASSUME ChangePassword(b) \/ Setup2fa(b) \/ Confirm2fa(b) \/ Disable2fa(b)
      PROVE  FactorRead(b)
  <2> DEFINE u == CurrentUser(b)
  <2>0. u \in DOMAIN rows /\ u \in Users /\ rows[u] \in Row
    BY <1>7, CurrentExists DEF ChangePassword, Setup2fa, Confirm2fa, Disable2fa
  <2> HIDE DEF u
  <2>1. CASE ChangePassword(b)
    <3> DEFINE new == [rows[u] EXCEPT !.pw = "own"]
    <3>1. /\ new \in Row /\ new.enabled = rows[u].enabled /\ new.secret = rows[u].secret
          /\ new.codes = rows[u].codes
          /\ HandleCode(b, "password", u, new, {}) /\ UNCHANGED <<verified, spent>>
      BY <2>0, <2>1 DEF Row, ChangePassword, Handle, u
    <3> HIDE DEF new
    <3>2. "password" \in Ops /\ Changes("password", rows[u], new, {})
      BY <3>1 DEF Ops, Changes, Clearing
    <3>. QED
      BY <3>1, <3>2, <2>0, <1>0, PlainRead
  <2>2. CASE Setup2fa(b)
    <3>1. PICK s \in FreshSecrets :
            /\ HandleCode(b, "2fa_setup", u, Enrolling(rows[u], s), {})
            /\ verified' = verified \ {s}
            /\ spent' = spent
      BY <2>2 DEF Setup2fa, Handle, u
    <3>2. s \in Nat /\ \A r \in InUse : r.secret # s
      BY DEF FreshSecrets, LeastOf
    <3> DEFINE new == Enrolling(rows[u], s)
    <3>3. new \in Row /\ ~new.enabled /\ new.codes = rows[u].codes
      BY <2>0, <3>2 DEF Row, Enrolling
    <3>4. HandleCode(b, "2fa_setup", u, new, {})
      BY <3>1
    <3> HIDE DEF new
    <3>5. "2fa_setup" \in Ops /\ Changes("2fa_setup", rows[u], new, {})
      BY <3>3 DEF Ops, Changes, Clearing
    <3>6. NotesSecret("2fa_setup", u) /\ NotesCodes("2fa_setup", u, rows[u], new)
      BY <3>1, <3>2 DEF NotesSecret, NotesCodes
    <3>. QED
      BY <3>3, <3>4, <3>5, <3>6, <2>0, <1>0 DEF FactorRead
  <2>3. CASE Confirm2fa(b)
    <3>1. PICK codes :
            /\ HandleCode(b, "2fa_confirm", u, [rows[u] EXCEPT !.enabled = TRUE, !.codes = codes], {})
            /\ verified' = verified \cup {rows[u].secret}
            /\ \/ /\ u = BreakGlass /\ spent' = spent \ codes
                  /\ codes \in {Generation(g) : g \in FreshGenerations}
               \/ u # BreakGlass /\ spent' = spent /\ codes = rows[u].codes
      <4>1. CASE u = BreakGlass
        BY <2>3, <4>1 DEF Confirm2fa, Handle, u
      <4>2. CASE u # BreakGlass
        <5>1. [rows[u] EXCEPT !.enabled = TRUE]
                = [rows[u] EXCEPT !.enabled = TRUE, !.codes = rows[u].codes]
          BY <2>0 DEF Row
        <5>. QED
          BY <2>3, <4>2, <5>1 DEF Confirm2fa, Handle, u
      <4>. QED
        BY <4>1, <4>2
    <3>2. \A g \in FreshGenerations :
            Generation(g) \subseteq Nat /\ \A r \in InUse : r.codes \cap Generation(g) = {}
      <4>1. \A g \in FreshGenerations : g \in Nat
        BY DEF FreshGenerations, LeastOf
      <4>2. \A g \in FreshGenerations : \A r \in InUse : Generation(g) \cap r.codes = {}
        BY DEF FreshGenerations, LeastOf
      <4>3. \A g \in Nat : Generation(g) \subseteq Nat
        BY DEF Generation
      <4>. QED
        BY <4>1, <4>2, <4>3
    <3>3. codes \subseteq Nat /\ (u = BreakGlass => \A r \in InUse : r.codes \cap codes = {})
      BY <3>1, <3>2, <2>0 DEF Row
    <3> DEFINE new == [rows[u] EXCEPT !.enabled = TRUE, !.codes = codes]
    <3>4. new \in Row /\ new.secret = rows[u].secret /\ new.codes = codes
      BY <2>0, <3>3 DEF Row
    <3>5. HandleCode(b, "2fa_confirm", u, new, {})
      BY <3>1
    <3> HIDE DEF new
    <3>6. "2fa_confirm" \in Ops /\ Changes("2fa_confirm", rows[u], new, {})
      BY <3>4 DEF Ops, Changes, Clearing
    <3>7. NotesSecret("2fa_confirm", u) /\ NotesCodes("2fa_confirm", u, rows[u], new)
      BY <3>1, <3>3, <3>4 DEF NotesSecret, NotesCodes
    <3>. QED
      BY <3>4, <3>5, <3>6, <3>7, <2>0, <1>0 DEF FactorRead
  <2>4. CASE Disable2fa(b)
    <3> DEFINE new == No2fa(rows[u])
    <3>1. /\ new \in Row /\ ~new.enabled /\ new.codes = {}
          /\ HandleCode(b, "2fa_disable", u, new, {}) /\ UNCHANGED <<verified, spent>>
      BY <2>0, <2>4 DEF Row, Disable2fa, Handle, No2fa, u
    <3> HIDE DEF new
    <3>2. "2fa_disable" \in Ops /\ Changes("2fa_disable", rows[u], new, {})
      BY <3>1 DEF Ops, Changes, Clearing
    <3>. QED
      BY <3>1, <3>2, <2>0, <1>0, PlainRead
  <2>. QED
    BY <1>7, <2>1, <2>2, <2>3, <2>4
<1>. QED
  BY <1>1, <1>2, <1>3, <1>4, <1>5, <1>6, <1>7 DEF Request

-----------------------------------------------------------------------------
(* The second factor: enabled only with a secret that was verified           *)

FactorHandlers ==
  \A b \in Browsers : Busy(b) => Changes(req[b].op, req[b].old, req[b].new, req[b].code)

\* A confirmation and a clearing of one account in flight at once are a race.
EnrolmentOverlaps ==
  \A b, c \in Browsers :
    (/\ Busy(b) /\ req[b].op = "2fa_confirm"
     /\ Busy(c) /\ req[c].op \in Clearing
     /\ req[b].uid = req[c].uid) => "enrolment" \in raced

\* The secret that a confirmation loaded was verified.
ConfirmsVerified ==
  \A b \in Browsers : Busy(b) /\ req[b].op = "2fa_confirm" => req[b].old.secret \in verified

\* Without a race, a confirmation finds the secret it loaded when it commits, and a
\* clearing that loaded no factor still finds none.
FindsFactor(q, row) ==
  /\ q.op = "2fa_confirm" => row.secret = q.old.secret
  /\ q.op \in Clearing /\ ~q.old.enabled => ~row.enabled
FactorsFound ==
  raced \cap {"enrolment", "reuse"} = {} =>
    \A b \in Browsers : Busy(b) /\ Exists(req[b].uid) => FindsFactor(req[b], rows[req[b].uid])

\* The inductive invariant of the theorem about second factors.
Factor ==
  FactorHandlers /\ EnrolmentOverlaps /\ ConfirmsVerified /\ FactorsFound /\ EnabledIsConfirmed

\* How a commit changes the second factor of the row it finds.
LEMMA MergeFactor ==
  ASSUME NEW now \in Row, NEW q \in Handler, Changes(q.op, q.old, q.new, q.code),
         q.op # "create"
  PROVE  /\ q.op \notin Clearing => Merge(now, q).secret = now.secret
         /\ q.op \notin Clearing \cup {"2fa_confirm"} => Merge(now, q).enabled = now.enabled
         /\ q.op \in Clearing => \/ ~Merge(now, q).enabled
                                 \/ ~q.old.enabled /\ Merge(now, q).enabled = now.enabled
<1>1. /\ Merge(now, q).secret = IF q.new.secret # q.old.secret THEN q.new.secret ELSE now.secret
      /\ Merge(now, q).enabled =
           IF q.new.enabled # q.old.enabled THEN q.new.enabled ELSE now.enabled
  BY DEF Merge, Column
<1>2. q.new.enabled \in BOOLEAN /\ q.old.enabled \in BOOLEAN
  BY DEF Handler, Row
<1>3. /\ q.op \notin Clearing => q.new.secret = q.old.secret
      /\ q.op \notin Clearing \cup {"2fa_confirm"} => q.new.enabled = q.old.enabled
      /\ q.op \in Clearing => ~q.new.enabled
  BY DEF Changes
<1>. QED
  BY <1>1, <1>2, <1>3

\* A step that starts no handler and changes no row keeps Factor.
LEMMA StillFactor ==
  ASSUME Factor, raced \subseteq raced', rows' = rows, verified' = verified,
         \A c \in Browsers : Busy(c)' => Busy(c) /\ req'[c] = req[c]
  PROVE  Factor'
<1>1. FactorHandlers' /\ EnrolmentOverlaps' /\ ConfirmsVerified'
  BY DEF Factor, FactorHandlers, EnrolmentOverlaps, ConfirmsVerified
<1>2. FactorsFound' /\ EnabledIsConfirmed'
  BY DEF Factor, FactorsFound, EnabledIsConfirmed, Exists
<1>. QED
  BY <1>1, <1>2 DEF Factor

\* What a commit of b to the row of v must establish.
LEMMA CommitFactor ==
  ASSUME TypeOK, Factor, NEW b \in Browsers, Finish(b), raced \subseteq raced', verified' = verified,
         NEW v,
         \A u \in DOMAIN rows' : u # v => u \in DOMAIN rows /\ rows'[u] = rows[u],
         raced' \cap {"enrolment", "reuse"} = {} /\ v \in DOMAIN rows' =>
           /\ rows'[v].enabled => rows'[v].secret \in verified
           /\ \A c \in Browsers \ {b} :
                Busy(c) /\ req[c].uid = v => FindsFactor(req[c], rows'[v])
  PROVE  Factor'
<1>1. req'[b] = Idle /\ \A c \in Browsers \ {b} : req'[c] = req[c]
  BY FinishType
<1>2. \A c \in Browsers : Busy(c)' => c # b /\ Busy(c) /\ req'[c] = req[c]
  BY <1>1 DEF Busy
<1>3. FactorHandlers' /\ EnrolmentOverlaps' /\ ConfirmsVerified'
  BY <1>2 DEF Factor, FactorHandlers, EnrolmentOverlaps, ConfirmsVerified
<1>4. FactorsFound'
  <2> SUFFICES ASSUME raced' \cap {"enrolment", "reuse"} = {}, NEW c \in Browsers, Busy(c)',
                      req'[c].uid \in DOMAIN rows'
               PROVE  FindsFactor(req'[c], rows'[req'[c].uid])
    BY DEF FactorsFound, Exists, FindsFactor
  <2>1. c # b /\ Busy(c) /\ req'[c] = req[c] /\ raced \cap {"enrolment", "reuse"} = {}
    BY <1>2
  <2>. QED
    BY <2>1 DEF Factor, FactorsFound, Exists
<1>5. EnabledIsConfirmed'
  BY DEF Factor, EnabledIsConfirmed
<1>. QED
  BY <1>3, <1>4, <1>5 DEF Factor

\* A confirmation and a clearing that overlap are recorded when the later one
\* starts, and what a read forgets of verified secrets nobody has.
LEMMA ReadFactor ==
  ASSUME TypeOK, Factor, NEW b \in Browsers, FactorRead(b)
  PROVE  Factor'
<1>0. PICK op \in Ops, u \in Users \cup {None}, new \in Row, code \in SUBSET Nat :
        LET old == IF Exists(u) THEN rows[u] ELSE new IN
        /\ HandleCode(b, op, u, new, code)
        /\ Changes(op, old, new, code)
        /\ op = "create" <=> ~Exists(u)
        /\ NotesSecret(op, u)
  BY DEF FactorRead
<1> DEFINE old == IF Exists(u) THEN rows[u] ELSE new
<1>1. /\ req'[b] = [op |-> op, uid |-> u, new |-> new, code |-> code, old |-> old]
      /\ \A c \in Browsers \ {b} : req'[c] = req[c]
  BY <1>0, ReadType
<1>2. raced' = raced \cup RacesWith(b, op, u) /\ rows' = rows
  BY <1>0 DEF HandleCode
<1>3. /\ \A w \in DOMAIN rows : rows[w] \in InUse
      /\ \A c \in Browsers : Busy(c) => req[c].old \in InUse
  BY DEF InUse
<1>4. /\ \A r \in InUse : r.secret \in verified => r.secret \in verified'
      /\ op = "2fa_confirm" => old.secret \in verified'
  BY <1>0 DEF NotesSecret
<1>5. ASSUME NEW c \in Browsers \ {b}, Busy(c), req[c].uid = u,
             \/ op = "2fa_confirm" /\ req[c].op \in Clearing
             \/ req[c].op = "2fa_confirm" /\ op \in Clearing
      PROVE  "enrolment" \in raced'
  <2>1. /\ "enrolment" \in DOMAIN Races
        /\ Races["enrolment"] = {{"2fa_confirm", x} : x \in Clearing}
    BY DEF Races, Clearing
  <2>2. {op, req[c].op} \in Races["enrolment"]
    <3>1. \/ {op, req[c].op} = {"2fa_confirm", req[c].op} /\ req[c].op \in Clearing
          \/ {op, req[c].op} = {"2fa_confirm", op} /\ op \in Clearing
      BY <1>5
    <3>. QED
      BY <2>1, <3>1
  <2>3. "enrolment" \in RacesWith(b, op, u)
    BY <1>5, <2>1, <2>2 DEF RacesWith
  <2>. QED
    BY <1>2, <2>3
<1> HIDE DEF old
<1>6. FactorHandlers'
  BY <1>0, <1>1 DEF Factor, FactorHandlers, Busy, old
<1>7. EnrolmentOverlaps'
  <2> SUFFICES ASSUME NEW c \in Browsers, NEW d \in Browsers,
                      Busy(c)', req'[c].op = "2fa_confirm",
                      Busy(d)', req'[d].op \in Clearing, req'[c].uid = req'[d].uid
               PROVE  "enrolment" \in raced'
    BY DEF EnrolmentOverlaps
  <2>1. CASE c = b
    <3>1. d # b /\ req'[d] = req[d] /\ req[d].uid = u /\ op = "2fa_confirm" /\ Busy(d)
      BY <2>1, <1>1 DEF Busy, Clearing
    <3>. QED
      BY <3>1, <1>5
  <2>2. CASE d = b
    <3>1. c # b /\ req'[c] = req[c] /\ req[c].uid = u /\ op \in Clearing /\ Busy(c)
      BY <2>2, <1>1 DEF Busy, Clearing
    <3>. QED
      BY <3>1, <1>5
  <2>3. CASE c # b /\ d # b
    BY <2>3, <1>1, <1>2 DEF Factor, EnrolmentOverlaps, Busy
  <2>. QED
    BY <2>1, <2>2, <2>3
<1>8. ConfirmsVerified'
  <2>1. \A c \in Browsers \ {b} : Busy(c)' /\ req'[c].op = "2fa_confirm"
                                    => req'[c].old.secret \in verified'
    BY <1>1, <1>3, <1>4 DEF Factor, ConfirmsVerified, Busy
  <2>2. req'[b].op = "2fa_confirm" => req'[b].old.secret \in verified'
    BY <1>1, <1>4
  <2>. QED
    BY <2>1, <2>2 DEF ConfirmsVerified
<1>9. FactorsFound'
  <2>1. raced' \cap {"enrolment", "reuse"} = {} => raced \cap {"enrolment", "reuse"} = {}
    BY <1>2
  <2>2. FindsFactor(req[b], rows[u])' \/ u \notin DOMAIN rows
    BY <1>1, <1>2 DEF FindsFactor, Exists, old
  <2>. QED
    BY <1>1, <1>2, <2>1, <2>2 DEF Factor, FactorsFound, FindsFactor, Exists, Busy
<1>10. EnabledIsConfirmed'
  BY <1>2, <1>3, <1>4 DEF Factor, EnabledIsConfirmed
<1>. QED
  BY <1>6, <1>7, <1>8, <1>9, <1>10 DEF Factor

\* The invariant of second factors: every handler's read and commit keeps it.
LEMMA FactorInvariant == Spec => []Factor
<1>1. Init => Factor
  <2> SUFFICES ASSUME Init PROVE Factor
    OBVIOUS
  <2>1. FactorHandlers /\ EnrolmentOverlaps /\ ConfirmsVerified /\ FactorsFound
    BY DEF Init, FactorHandlers, EnrolmentOverlaps, ConfirmsVerified, FactorsFound, Busy
  <2>2. ~SeededRow.enabled
    BY DEF SeededRow
  <2>3. \A u \in DOMAIN rows : ~rows[u].enabled
    <3>1. CASE rows = [u \in {BreakGlass} |-> SeededRow]
      BY <2>2, <3>1
    <3>2. ASSUME NEW a \in BOOLEAN,
                 rows = [u \in Users |-> IF u = BreakGlass
                                         THEN [SeededRow EXCEPT !.must = FALSE, !.pw = "own"]
                                         ELSE NewRow(a)]
          PROVE  \A u \in DOMAIN rows : ~rows[u].enabled
      <4>1. /\ ~[SeededRow EXCEPT !.must = FALSE, !.pw = "own"].enabled
            /\ ~NewRow(a).enabled
        BY DEF SeededRow, NewRow
      <4>. QED
        BY <3>2, <4>1
    <3>. QED
      BY <3>1, <3>2 DEF Init
  <2>. QED
    BY <2>1, <2>3 DEF Factor, EnabledIsConfirmed
<1>2. Rights /\ Factor /\ [Next]_vars => Factor'
  <2> SUFFICES ASSUME Rights, Factor, [Next]_vars PROVE Factor'
    OBVIOUS
  <2>0. TypeOK /\ ProperHandlers /\ SomeoneAdministers
    BY DEF Rights
  <2>1. ASSUME NEW b \in Browsers, Request(b) PROVE Factor'
    <3>1. ASSUME NEW s, Answer(b, s) PROVE Factor'
      BY <3>1, StillFactor DEF Answer, Busy
    <3>. QED
      BY <2>0, <2>1, <3>1, FactorShape, ReadFactor
  <2>2. ASSUME NEW b \in Browsers, Insert(b) PROVE Factor'
    <3>1. PICK v \in Users :
            /\ v \notin DOMAIN rows /\ raced \subseteq raced'
            /\ rows' = [w \in DOMAIN rows \cup {v} |-> IF w = v THEN req[b].new ELSE rows[w]]
            /\ (\E c \in Browsers : Busy(c) /\ req[c].uid = v) => "reuse" \in raced'
      BY <2>0, <2>2, InsertShape
    <3>2. ~req[b].new.enabled
      BY <2>2 DEF Insert, Factor, FactorHandlers, Changes
    <3>3. /\ Finish(b) /\ verified' = verified /\ rows'[v] = req[b].new
          /\ \A u \in DOMAIN rows' : u # v => u \in DOMAIN rows /\ rows'[u] = rows[u]
      BY <2>2, <3>1 DEF Insert
    <3>. QED
      BY <2>0, <3>1, <3>2, <3>3, CommitFactor
  <2>3. ASSUME NEW b \in Browsers, Remove(b) PROVE Factor'
    <3> DEFINE v == req[b].uid
    <3>1. /\ Finish(b) /\ raced' = raced /\ verified' = verified
          /\ v \notin DOMAIN rows'
          /\ \A u \in DOMAIN rows' : u # v => u \in DOMAIN rows /\ rows'[u] = rows[u]
      BY <2>0, <2>3, BusyHandler DEF Remove
    <3>. QED
      BY <2>0, <3>1, CommitFactor
  <2>4. ASSUME NEW b \in Browsers, Update(b) PROVE Factor'
    <3> DEFINE q == req[b]
               v == q.uid
    <3>1. /\ q \in Handler /\ v \in Users /\ q.op # "create"
          /\ Changes(q.op, q.old, q.new, q.code)
          /\ v \in DOMAIN rows /\ rows[v] \in Row /\ Busy(b)
      BY <2>0, <2>4, BusyHandler DEF Update, Factor, FactorHandlers, TypeOK, Exists
    <3>2. /\ Finish(b) /\ raced' = raced /\ verified' = verified
          /\ \A u \in DOMAIN rows' : u # v => u \in DOMAIN rows /\ rows'[u] = rows[u]
          /\ rows'[v] = Merge(rows[v], q)
      BY <2>4, <3>1 DEF Update
    <3>3. raced \cap {"enrolment", "reuse"} = {} =>
            /\ FindsFactor(q, rows[v]) /\ (rows[v].enabled => rows[v].secret \in verified)
            /\ \A c \in Browsers : Busy(c) /\ req[c].uid = v => FindsFactor(req[c], rows[v])
            /\ \A c \in Browsers : Busy(c) /\ req[c].uid = v =>
                 /\ q.op = "2fa_confirm" => req[c].op \notin Clearing
                 /\ q.op \in Clearing => req[c].op # "2fa_confirm"
      BY <3>1 DEF Factor, FactorsFound, EnabledIsConfirmed, EnrolmentOverlaps, Exists
    <3>4. q.op = "2fa_confirm" => q.old.secret \in verified
      BY <3>1 DEF Factor, ConfirmsVerified
    <3> HIDE DEF q, v
    <3>5. /\ q.op \notin Clearing => rows'[v].secret = rows[v].secret
          /\ q.op \notin Clearing \cup {"2fa_confirm"} => rows'[v].enabled = rows[v].enabled
          /\ q.op \in Clearing => \/ ~rows'[v].enabled
                                  \/ ~q.old.enabled /\ rows'[v].enabled = rows[v].enabled
      BY <3>1, <3>2, MergeFactor
    <3>6. ASSUME raced \cap {"enrolment", "reuse"} = {}
          PROVE  /\ rows'[v].enabled => rows'[v].secret \in verified
                 /\ \A c \in Browsers \ {b} :
                      Busy(c) /\ req[c].uid = v => FindsFactor(req[c], rows'[v])
      <4>1. CASE q.op \in Clearing
        <5>1. ~rows'[v].enabled
          BY <3>3, <3>5, <3>6, <4>1 DEF FindsFactor
        <5>. QED
          BY <3>3, <3>6, <4>1, <5>1 DEF FindsFactor
      <4>2. CASE q.op = "2fa_confirm"
        <5>1. rows'[v].secret = rows[v].secret /\ rows[v].secret = q.old.secret
          BY <3>3, <3>5, <3>6, <4>2 DEF FindsFactor, Clearing
        <5>. QED
          BY <3>3, <3>4, <3>6, <4>2, <5>1 DEF FindsFactor
      <4>3. CASE q.op \notin Clearing \cup {"2fa_confirm"}
        BY <3>3, <3>5, <3>6, <4>3 DEF FindsFactor
      <4>. QED
        BY <4>1, <4>2, <4>3
    <3>. QED
      BY <2>0, <3>1, <3>2, <3>6, CommitFactor
  <2>5. ASSUME NEW b \in Browsers, CommitFails(b) PROVE Factor'
    <3>1. req'[b] = Idle /\ \A c \in Browsers \ {b} : req'[c] = req[c]
      BY <2>0, <2>5, FinishType DEF CommitFails
    <3>. QED
      BY <2>5, <3>1, StillFactor DEF CommitFails, Busy
  <2>6. CASE Restart
    <3>1. rows' = rows /\ raced' = raced /\ verified' = verified
      BY <2>0, <2>6 DEF Restart, SomeoneAdministers, Exists
    <3>2. \A c \in Browsers : ~Busy(c)'
      BY <2>6 DEF Restart, Busy
    <3>. QED
      BY <3>1, <3>2, StillFactor
  <2>7. CASE UNCHANGED vars
    BY <2>7, StillFactor DEF vars, Busy
  <2>. QED
    BY <2>1, <2>2, <2>3, <2>4, <2>5, <2>6, <2>7 DEF Next, Commit, Done
<1>. QED
  BY <1>1, <1>2, RightsInvariant, PTL DEF Spec

\* The second factor is asked for only with a secret a code of which was verified,
\* except after a confirmation that overlapped a clearing of the same account.
THEOREM EnabledAlwaysConfirmed == Spec => []EnabledIsConfirmed
<1>1. Factor => EnabledIsConfirmed
  BY DEF Factor
<1>. QED
  BY <1>1, FactorInvariant, PTL

-----------------------------------------------------------------------------
(* Recovery codes: a code that was used is not accepted again                *)

\* Only the break-glass account has recovery codes.
CodesOfBreakGlass ==
  /\ \A u \in DOMAIN rows : u # BreakGlass => rows[u].codes = {}
  /\ \A b \in Browsers : Busy(b) /\ req[b].uid # BreakGlass =>
       req[b].old.codes = {} /\ req[b].new.codes = {}

\* Two redemptions in flight at once are a race.
RedemptionOverlaps ==
  \A b, c \in Browsers :
    (b # c /\ Busy(b) /\ Busy(c) /\ req[b].op = "redeem" /\ req[c].op = "redeem")
      => "codes" \in raced

\* The codes that a confirmation in flight will store are nobody's, and unused.
Apart ==
  \A b \in Browsers : Busy(b) /\ req[b].op = "2fa_confirm" =>
    /\ req[b].new.codes \cap spent = {}
    /\ \A u \in DOMAIN rows : rows[u].codes \cap req[b].new.codes = {}
    /\ \A c \in Browsers : c # b /\ Busy(c) =>
         /\ req[c].old.codes \cap req[b].new.codes = {}
         /\ req[c].new.codes \cap req[b].new.codes = {}

\* Without a race, the codes that a redemption loaded are still unused.
RedeemsUnspent ==
  "codes" \notin raced =>
    \A b \in Browsers : Busy(b) /\ req[b].op = "redeem" => req[b].old.codes \cap spent = {}

\* The inductive invariant of the theorem about recovery codes.
Codes ==
  CodesOfBreakGlass /\ RedemptionOverlaps /\ Apart /\ RedeemsUnspent /\ SpentCodesStaySpent

\* What a commit leaves of the codes of the row it finds.
LEMMA MergeCodes ==
  ASSUME NEW now \in Row, NEW q \in Handler, Changes(q.op, q.old, q.new, q.code),
         q.op # "create"
  PROVE  /\ Merge(now, q).codes = q.new.codes \/ Merge(now, q).codes = now.codes
         /\ q.new.codes # q.old.codes => Merge(now, q).codes = q.new.codes
         /\ q.op \notin {"redeem", "2fa_confirm"} =>
              Merge(now, q).codes = {} \/ Merge(now, q).codes = now.codes
         /\ q.op = "redeem" => /\ Merge(now, q).codes = q.old.codes \ q.code
                               /\ q.code # {} /\ q.code \subseteq q.old.codes
         /\ q.op # "redeem" => q.code = {}
<1>1. Merge(now, q).codes = IF q.new.codes # q.old.codes THEN q.new.codes ELSE now.codes
  BY DEF Merge, Column
<1>2. q.op = "redeem" => q.new.codes = q.old.codes \ q.code /\ q.new.codes # q.old.codes
  BY DEF Changes
<1>. QED
  BY <1>1, <1>2 DEF Changes, Clearing

\* A step that starts no handler and spends no code keeps Codes.
LEMMA StillCodes ==
  ASSUME Codes, raced \subseteq raced', rows' = rows, spent' = spent,
         \A c \in Browsers : Busy(c)' => Busy(c) /\ req'[c] = req[c]
  PROVE  Codes'
<1>1. CodesOfBreakGlass' /\ RedemptionOverlaps' /\ Apart'
  BY DEF Codes, CodesOfBreakGlass, RedemptionOverlaps, Apart
<1>2. RedeemsUnspent' /\ SpentCodesStaySpent'
  BY DEF Codes, RedeemsUnspent, SpentCodesStaySpent
<1>. QED
  BY <1>1, <1>2 DEF Codes

\* What a commit of b to the row of v must establish.
LEMMA CommitCodes ==
  ASSUME TypeOK, Codes, NEW b \in Browsers, Finish(b), raced \subseteq raced',
         NEW v,
         \A u \in DOMAIN rows' : u # v => u \in DOMAIN rows /\ rows'[u] = rows[u],
         v \in DOMAIN rows' /\ v # BreakGlass => rows'[v].codes = {},
         \A c \in Browsers \ {b} : Busy(c) /\ req[c].op = "2fa_confirm" =>
           /\ req[c].new.codes \cap spent' = {}
           /\ v \in DOMAIN rows' => rows'[v].codes \cap req[c].new.codes = {},
         "codes" \notin raced =>
           /\ \A c \in Browsers \ {b} :
                Busy(c) /\ req[c].op = "redeem" => req[c].old.codes \cap spent' = {}
           /\ \A u \in DOMAIN rows' : rows'[u].codes \cap spent' = {}
  PROVE  Codes'
<1>1. req'[b] = Idle /\ \A c \in Browsers \ {b} : req'[c] = req[c]
  BY FinishType
<1>2. \A c \in Browsers : Busy(c)' => c # b /\ Busy(c) /\ req'[c] = req[c]
  BY <1>1 DEF Busy
<1>3. CodesOfBreakGlass' /\ RedemptionOverlaps'
  BY <1>2 DEF Codes, CodesOfBreakGlass, RedemptionOverlaps
<1>4. Apart'
  <2> SUFFICES ASSUME NEW c \in Browsers, Busy(c)', req'[c].op = "2fa_confirm"
               PROVE  /\ req'[c].new.codes \cap spent' = {}
                      /\ \A u \in DOMAIN rows' : rows'[u].codes \cap req'[c].new.codes = {}
                      /\ \A d \in Browsers : d # c /\ Busy(d)' =>
                           /\ req'[d].old.codes \cap req'[c].new.codes = {}
                           /\ req'[d].new.codes \cap req'[c].new.codes = {}
    BY DEF Apart
  <2>. QED
    BY <1>2 DEF Codes, Apart
<1>5. RedeemsUnspent' /\ SpentCodesStaySpent'
  BY <1>2 DEF RedeemsUnspent, SpentCodesStaySpent
<1>. QED
  BY <1>3, <1>4, <1>5 DEF Codes

\* The codes a read prepares are fresh, and a code it redeems is of the account's.
LEMMA ReadCodes ==
  ASSUME TypeOK, Factor, Codes, NEW b \in Browsers, FactorRead(b)
  PROVE  Codes'
<1>0. PICK op \in Ops, u \in Users \cup {None}, new \in Row, code \in SUBSET Nat :
        LET old == IF Exists(u) THEN rows[u] ELSE new IN
        /\ HandleCode(b, op, u, new, code)
        /\ Changes(op, old, new, code)
        /\ op = "create" <=> ~Exists(u)
        /\ NotesCodes(op, u, old, new)
  BY DEF FactorRead
<1> DEFINE old == IF Exists(u) THEN rows[u] ELSE new
<1>1. /\ req'[b] = [op |-> op, uid |-> u, new |-> new, code |-> code, old |-> old]
      /\ \A c \in Browsers \ {b} : req'[c] = req[c]
  BY <1>0, ReadType
<1>2. raced' = raced \cup RacesWith(b, op, u) /\ rows' = rows
  BY <1>0 DEF HandleCode
<1>3. /\ \A w \in DOMAIN rows : rows[w] \in InUse
      /\ \A c \in Browsers : Busy(c) => req[c].old \in InUse /\ req[c].new \in InUse
  BY DEF InUse
<1>4. op = "create" => old = new
  BY <1>0
<1>5. op # "create" => u \in DOMAIN rows /\ old = rows[u]
  BY <1>0 DEF Exists
<1> HIDE DEF old
<1>6. Changes(op, old, new, code) /\ NotesCodes(op, u, old, new)
  BY <1>0 DEF old
<1>7. u # BreakGlass => old.codes = {} /\ new.codes = {}
  <2> SUFFICES ASSUME u # BreakGlass PROVE old.codes = {} /\ new.codes = {}
    OBVIOUS
  <2>1. CASE op = "create"
    BY <2>1, <1>4, <1>6 DEF Changes
  <2>2. CASE op # "create"
    <3>1. old.codes = {}
      BY <2>2, <1>5 DEF Codes, CodesOfBreakGlass
    <3>. QED
      BY <2>2, <3>1, <1>6 DEF Changes, NotesCodes
  <2>. QED
    BY <2>1, <2>2
<1>8. spent' \subseteq spent
  BY <1>6 DEF NotesCodes
<1>9. CodesOfBreakGlass'
  BY <1>1, <1>2, <1>7 DEF Codes, CodesOfBreakGlass, Busy
<1>10. ASSUME NEW c \in Browsers \ {b}, Busy(c), req[c].op = "redeem", op = "redeem"
       PROVE  "codes" \in raced'
  <2>1. req[c].old.codes # {} /\ old.codes # {}
    BY <1>6, <1>10 DEF Factor, FactorHandlers, Changes
  <2>2. u = BreakGlass /\ req[c].uid = BreakGlass
    BY <2>1, <1>7, <1>10 DEF Codes, CodesOfBreakGlass
  <2>3. "codes" \in DOMAIN Races /\ {op, req[c].op} \in Races["codes"]
    BY <1>10 DEF Races
  <2>4. "codes" \in RacesWith(b, op, u)
    BY <2>2, <2>3, <1>10 DEF RacesWith
  <2>. QED
    BY <1>2, <2>4
<1>11. RedemptionOverlaps'
  <2> SUFFICES ASSUME NEW c \in Browsers, NEW d \in Browsers, c # d, Busy(c)', Busy(d)',
                      req'[c].op = "redeem", req'[d].op = "redeem"
               PROVE  "codes" \in raced'
    BY DEF RedemptionOverlaps
  <2>1. CASE c = b
    BY <2>1, <1>1, <1>10 DEF Busy
  <2>2. CASE d = b
    BY <2>2, <1>1, <1>10 DEF Busy
  <2>3. CASE c # b /\ d # b
    BY <2>3, <1>1, <1>2 DEF Codes, RedemptionOverlaps, Busy
  <2>. QED
    BY <2>1, <2>2, <2>3
<1>12. Apart'
  <2>1. ASSUME op = "2fa_confirm"
        PROVE  /\ new.codes \cap spent' = {}
               /\ \A w \in DOMAIN rows : rows[w].codes \cap new.codes = {}
               /\ \A c \in Browsers : Busy(c) =>
                    /\ req[c].old.codes \cap new.codes = {}
                    /\ req[c].new.codes \cap new.codes = {}
    BY <2>1, <1>3, <1>6, <1>7 DEF NotesCodes
  <2>2. ASSUME NEW c \in Browsers \ {b}, Busy(c), req[c].op = "2fa_confirm"
        PROVE  /\ req[c].new.codes \cap spent' = {}
               /\ old.codes \cap req[c].new.codes = {}
               /\ new.codes \cap req[c].new.codes = {}
    <3>1. CASE op = "create"
      BY <3>1, <2>2, <1>4, <1>6, <1>8 DEF Codes, Apart, Changes
    <3>2. CASE op = "2fa_confirm"
      BY <3>2, <2>1, <2>2, <1>5, <1>8 DEF Codes, Apart
    <3>3. CASE op \notin {"create", "2fa_confirm"}
      <4>1. new.codes \subseteq old.codes
        BY <3>3, <1>6 DEF Changes
      <4>. QED
        BY <3>3, <4>1, <2>2, <1>5, <1>8 DEF Codes, Apart
    <3>. QED
      BY <3>1, <3>2, <3>3
  <2> SUFFICES ASSUME NEW c \in Browsers, Busy(c)', req'[c].op = "2fa_confirm"
               PROVE  /\ req'[c].new.codes \cap spent' = {}
                      /\ \A w \in DOMAIN rows' : rows'[w].codes \cap req'[c].new.codes = {}
                      /\ \A d \in Browsers : d # c /\ Busy(d)' =>
                           /\ req'[d].old.codes \cap req'[c].new.codes = {}
                           /\ req'[d].new.codes \cap req'[c].new.codes = {}
    BY DEF Apart
  <2>3. CASE c = b
    BY <2>1, <2>3, <1>1, <1>2 DEF Busy
  <2>4. CASE c # b
    <3>1. Busy(c) /\ req'[c] = req[c]
      BY <2>4, <1>1 DEF Busy
    <3>2. \A d \in Browsers : d # c /\ Busy(d)' =>
            \/ d = b /\ req'[d].old = old /\ req'[d].new = new
            \/ Busy(d) /\ req'[d] = req[d]
      BY <1>1 DEF Busy
    <3>. QED
      BY <2>2, <2>4, <3>1, <3>2, <1>2 DEF Codes, Apart
  <2>. QED
    BY <2>3, <2>4
<1>13. RedeemsUnspent'
  <2>1. op = "redeem" /\ "codes" \notin raced => old.codes \cap spent' = {}
    BY <1>5, <1>8 DEF Codes, SpentCodesStaySpent
  <2>. QED
    BY <2>1, <1>1, <1>2, <1>8 DEF Codes, RedeemsUnspent, Busy
<1>14. SpentCodesStaySpent'
  BY <1>2, <1>8 DEF Codes, SpentCodesStaySpent
<1>. QED
  BY <1>9, <1>11, <1>12, <1>13, <1>14 DEF Codes

\* The invariant of recovery codes: every handler's read and commit keeps it.
LEMMA CodesInvariant == Spec => []Codes
<1>1. Init => Codes
  <2> SUFFICES ASSUME Init PROVE Codes
    OBVIOUS
  <2>1. spent = {} /\ \A b \in Browsers : ~Busy(b)
    BY DEF Init, Busy
  <2>2. SeededRow.codes = {}
    BY DEF SeededRow
  <2>3. \A u \in DOMAIN rows : rows[u].codes = {}
    <3>1. CASE rows = [u \in {BreakGlass} |-> SeededRow]
      BY <2>2, <3>1
    <3>2. ASSUME NEW a \in BOOLEAN,
                 rows = [u \in Users |-> IF u = BreakGlass
                                         THEN [SeededRow EXCEPT !.must = FALSE, !.pw = "own"]
                                         ELSE NewRow(a)]
          PROVE  \A u \in DOMAIN rows : rows[u].codes = {}
      <4>1. /\ [SeededRow EXCEPT !.must = FALSE, !.pw = "own"].codes = {}
            /\ NewRow(a).codes = {}
        BY DEF SeededRow, NewRow
      <4>. QED
        BY <3>2, <4>1
    <3>. QED
      BY <3>1, <3>2 DEF Init
  <2>. QED
    BY <2>1, <2>3 DEF Codes, CodesOfBreakGlass, RedemptionOverlaps, Apart, RedeemsUnspent,
                      SpentCodesStaySpent
<1>2. Rights /\ Factor /\ Codes /\ [Next]_vars => Codes'
  <2> SUFFICES ASSUME Rights, Factor, Codes, [Next]_vars PROVE Codes'
    OBVIOUS
  <2>0. TypeOK /\ SomeoneAdministers
    BY DEF Rights
  <2>1. ASSUME NEW b \in Browsers, Request(b) PROVE Codes'
    <3>1. ASSUME NEW s, Answer(b, s) PROVE Codes'
      BY <3>1, StillCodes DEF Answer, Busy
    <3>. QED
      BY <2>0, <2>1, <3>1, FactorShape, ReadCodes
  <2>2. ASSUME NEW b \in Browsers, Insert(b) PROVE Codes'
    <3>0. PICK v \in Users :
            /\ v \notin DOMAIN rows /\ raced \subseteq raced'
            /\ rows' = [w \in DOMAIN rows \cup {v} |-> IF w = v THEN req[b].new ELSE rows[w]]
      BY <2>0, <2>2, InsertShape
    <3>1. /\ Finish(b) /\ spent' = spent /\ rows'[v] = req[b].new
          /\ \A u \in DOMAIN rows' : u # v => u \in DOMAIN rows /\ rows'[u] = rows[u]
      BY <2>2, <3>0 DEF Insert
    <3>2. req[b].new.codes = {}
      BY <2>2 DEF Insert, Factor, FactorHandlers, Changes
    <3>3. /\ "codes" \notin raced => \A u \in DOMAIN rows' : rows'[u].codes \cap spent' = {}
          /\ \A c \in Browsers \ {b} : Busy(c) /\ req[c].op = "2fa_confirm" =>
               req[c].new.codes \cap spent' = {}
          /\ "codes" \notin raced =>
               \A c \in Browsers \ {b} :
                 Busy(c) /\ req[c].op = "redeem" => req[c].old.codes \cap spent' = {}
      BY <3>1, <3>2 DEF Codes, SpentCodesStaySpent, Apart, RedeemsUnspent
    <3>. QED
      BY <2>0, <3>0, <3>1, <3>2, <3>3, CommitCodes
  <2>3. ASSUME NEW b \in Browsers, Remove(b) PROVE Codes'
    <3> DEFINE v == req[b].uid
    <3>1. /\ Finish(b) /\ raced' = raced /\ spent' = spent
          /\ v \notin DOMAIN rows'
          /\ \A u \in DOMAIN rows' : u \in DOMAIN rows /\ rows'[u] = rows[u]
      BY <2>0, <2>3, BusyHandler DEF Remove
    <3> HIDE DEF v
    <3>2. /\ "codes" \notin raced => \A u \in DOMAIN rows' : rows'[u].codes \cap spent' = {}
          /\ \A c \in Browsers \ {b} : Busy(c) /\ req[c].op = "2fa_confirm" =>
               req[c].new.codes \cap spent' = {}
          /\ "codes" \notin raced =>
               \A c \in Browsers \ {b} :
                 Busy(c) /\ req[c].op = "redeem" => req[c].old.codes \cap spent' = {}
      BY <3>1 DEF Codes, SpentCodesStaySpent, Apart, RedeemsUnspent
    <3>. QED
      BY <2>0, <3>1, <3>2, CommitCodes
  <2>4. ASSUME NEW b \in Browsers, Update(b) PROVE Codes'
    <3> DEFINE q == req[b]
               v == q.uid
    <3>1. /\ q \in Handler /\ v \in Users /\ q.op # "create"
          /\ Changes(q.op, q.old, q.new, q.code)
          /\ v \in DOMAIN rows /\ rows[v] \in Row /\ Busy(b)
      BY <2>0, <2>4, BusyHandler DEF Update, Factor, FactorHandlers, TypeOK, Exists
    <3>2. /\ Finish(b) /\ raced' = raced /\ spent' = spent \cup q.code
          /\ \A u \in DOMAIN rows' : u # v => u \in DOMAIN rows /\ rows'[u] = rows[u]
          /\ rows'[v] = Merge(rows[v], q)
      BY <2>4, <3>1 DEF Update
    <3>3. /\ v # BreakGlass => rows[v].codes = {} /\ q.old.codes = {} /\ q.new.codes = {}
          /\ \A u \in DOMAIN rows : u # BreakGlass => rows[u].codes = {}
      BY <3>1 DEF Codes, CodesOfBreakGlass
    <3>4. \A c \in Browsers \ {b} : Busy(c) /\ req[c].op = "2fa_confirm" =>
            /\ req[c].new.codes \cap spent = {}
            /\ rows[v].codes \cap req[c].new.codes = {}
            /\ q.old.codes \cap req[c].new.codes = {}
            /\ q.new.codes \cap req[c].new.codes = {}
      BY <3>1 DEF Codes, Apart
    <3>5. q.op = "2fa_confirm" => q.new.codes \cap spent = {}
      BY <3>1 DEF Codes, Apart
    <3>6. "codes" \notin raced =>
            /\ q.op = "redeem" => q.old.codes \cap spent = {}
            /\ \A u \in DOMAIN rows : rows[u].codes \cap spent = {}
            /\ \A c \in Browsers \ {b} : Busy(c) /\ req[c].op = "redeem" =>
                 q.op # "redeem" /\ req[c].old.codes \cap spent = {}
      BY <3>1 DEF Codes, RedeemsUnspent, RedemptionOverlaps, SpentCodesStaySpent
    <3> HIDE DEF q, v
    <3>7. /\ rows'[v].codes = q.new.codes \/ rows'[v].codes = rows[v].codes
          /\ q.op \notin {"redeem", "2fa_confirm"} =>
               rows'[v].codes = {} \/ rows'[v].codes = rows[v].codes
          /\ q.op = "redeem" => /\ rows'[v].codes = q.old.codes \ q.code
                                /\ q.code # {} /\ q.code \subseteq q.old.codes
          /\ q.op # "redeem" => q.code = {}
      BY <3>1, <3>2, MergeCodes
    <3>8. v # BreakGlass => rows'[v].codes = {}
      BY <3>3, <3>7
    <3>9. \A c \in Browsers \ {b} : Busy(c) /\ req[c].op = "2fa_confirm" =>
            /\ req[c].new.codes \cap spent' = {}
            /\ rows'[v].codes \cap req[c].new.codes = {}
      BY <3>2, <3>4, <3>7
    <3>10. ASSUME "codes" \notin raced
           PROVE  \A u \in DOMAIN rows' : rows'[u].codes \cap spent' = {}
      <4>1. CASE q.op = "redeem"
        <5>1. v = BreakGlass
          BY <3>3, <3>7, <4>1
        <5>2. rows'[v].codes \cap spent' = {}
          BY <3>2, <3>6, <3>7, <3>10, <4>1
        <5>. QED
          BY <5>1, <5>2, <3>2, <3>3
      <4>2. CASE q.op # "redeem"
        <5>1. rows'[v].codes \cap spent = {}
          BY <3>1, <3>5, <3>6, <3>7, <3>10, <4>2
        <5>. QED
          BY <5>1, <3>2, <3>6, <3>7, <3>10, <4>2
      <4>. QED
        BY <4>1, <4>2
    <3>11. "codes" \notin raced =>
             \A c \in Browsers \ {b} :
               Busy(c) /\ req[c].op = "redeem" => req[c].old.codes \cap spent' = {}
      BY <3>2, <3>6, <3>7
    <3>. QED
      BY <2>0, <3>1, <3>2, <3>8, <3>9, <3>10, <3>11, CommitCodes
  <2>5. ASSUME NEW b \in Browsers, CommitFails(b) PROVE Codes'
    <3>1. req'[b] = Idle /\ \A c \in Browsers \ {b} : req'[c] = req[c]
      BY <2>0, <2>5, FinishType DEF CommitFails
    <3>. QED
      BY <2>5, <3>1, StillCodes DEF CommitFails, Busy
  <2>6. CASE Restart
    <3>1. rows' = rows /\ raced' = raced /\ spent' = spent
      BY <2>0, <2>6 DEF Restart, SomeoneAdministers, Exists
    <3>2. \A c \in Browsers : ~Busy(c)'
      BY <2>6 DEF Restart, Busy
    <3>. QED
      BY <3>1, <3>2, StillCodes
  <2>7. CASE UNCHANGED vars
    BY <2>7, StillCodes DEF vars, Busy
  <2>. QED
    BY <2>1, <2>2, <2>3, <2>4, <2>5, <2>6, <2>7 DEF Next, Commit, Done
<1>. QED
  BY <1>1, <1>2, RightsInvariant, FactorInvariant, PTL DEF Spec

\* A recovery code that was used to log in is in no account's list any more, unless
\* two redemptions overlapped.
THEOREM UsedCodesAreGone == Spec => []SpentCodesStaySpent
<1>1. Codes => SpentCodesStaySpent
  BY DEF Codes
<1>. QED
  BY <1>1, CodesInvariant, PTL
=============================================================================
