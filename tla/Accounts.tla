------------------------------ MODULE Accounts ------------------------------
(***************************************************************************)
(* Accounts, login and second factor (ez_kea/auth.py, models.py and         *)
(* _seed_admin in ez_kea/__init__.py).                                      *)
(*                                                                         *)
(* A handler loads rows at the start of its request, decides, and commits   *)
(* at its end the columns it changed: two browsers' handlers overlap        *)
(* between these two steps.  A browser has one request at a time; its       *)
(* session is a cookie, so it outlives the process.                         *)
(*                                                                         *)
(* A password is only whose choice it was, a secret and a recovery code are *)
(* numbers, generated fresh; a wrong password, code or form changes nothing *)
(* and is left out.  No row ever has totp_required set, so the two pages    *)
(* for it are not reached; password-reset links are left out.               *)
(***************************************************************************)
EXTENDS Naturals, FiniteSets

CONSTANTS
  Users,        \* bound: the row ids; SQLite gives a new row the id after the largest
  BreakGlass,   \* the seeded account
  Browsers,
  None,
  MaxRequests   \* bound: how many requests the browsers make

ASSUME AccountsAssumption ==
  /\ Users \subseteq Nat
  /\ BreakGlass \in Users
  /\ None \notin Users
  /\ MaxRequests \in Nat

VARIABLES
  rows,       \* the users table
  sess,       \* the browsers' sessions: user, pending_setup_uid, pending_2fa_uid
  req,        \* a handler between its reads and its commit
  left,       \* requests yet to come
  verified,   \* history: secrets a code of which was verified
  spent,      \* history: recovery codes that were used to log in
  raced       \* history: which handlers of one account or id have overlapped

vars == <<rows, sess, req, left, verified, spent, raced>>

Row == [admin : BOOLEAN, must : BOOLEAN, pw : {"own", "assigned"},
        secret : Nat, enabled : BOOLEAN, codes : SUBSET Nat]
Ops == {"login", "account_setup", "totp", "redeem", "create", "delete", "reset",
        "toggle", "reset_2fa", "password", "2fa_setup", "2fa_confirm", "2fa_disable"}
Session == [user : Users \cup {None}, setup : Users \cup {None}, twofa : Users \cup {None}]

Handler == [op : Ops, uid : Users \cup {None}, old : Row, new : Row, code : SUBSET Nat]

NoSession == [user |-> None, setup |-> None, twofa |-> None]
Idle      == [op |-> "none"]
Busy(b)   == req[b] # Idle
Exists(u) == u \in DOMAIN rows

\* load_user: the account a browser acts as; a deleted one is nobody.
CurrentUser(b) == IF Exists(sess[b].user) THEN sess[b].user ELSE None

-----------------------------------------------------------------------------
(* Fresh secrets and codes, and the overlaps the properties speak of *)

InUse == {rows[u] : u \in DOMAIN rows}
         \cup UNION {{req[b].old, req[b].new} : b \in {c \in Browsers : Busy(c)}}

Least(S) == CHOOSE n \in S : \A m \in S : n <= m

LeastOf(S) == {n \in S : \A m \in S : n <= m}

\* pyotp.random_base32: a secret no account has, the least one of them.
FreshSecrets ==
  LeastOf({n \in 1 .. 1 + Cardinality(InUse) : \A r \in InUse : r.secret # n})

\* The codes of one generation, two for the eight of _gen_recovery_codes.
Generation(g) == {2 * g, 2 * g + 1}
FreshGenerations ==
  LeastOf({g \in 0 .. Cardinality(InUse) :
             \A r \in InUse : Generation(g) \cap r.codes = {}})

\* Pairs of handlers which, overlapping on one account, leave it in a state that
\* neither would leave alone; and the reuse of an id that a handler has loaded.
Races ==
  [enrolment |-> {{"2fa_confirm", x} : x \in {"2fa_setup", "2fa_disable", "reset_2fa"}},
   codes     |-> {{"redeem"}},
   password  |-> {{"reset", "account_setup"}},
   rights    |-> {{"toggle"}},
   reuse     |-> {}]

RacesWith(b, op, u) ==
  {k \in DOMAIN Races :
     \E c \in Browsers \ {b} :
       Busy(c) /\ req[c].uid = u /\ {op, req[c].op} \in Races[k]}

-----------------------------------------------------------------------------
(* Handlers: the reads *)

\* The seeded row, and one an administrator makes.
SeededRow  == [admin |-> TRUE, must |-> TRUE, pw |-> "assigned",
               secret |-> 0, enabled |-> FALSE, codes |-> {}]
NewRow(a)  == [SeededRow EXCEPT !.admin = a]

\* b's handler op has loaded account u and will commit new; code is the recovery
\* code it redeems, if any.
HandleCode(b, op, u, new, code) ==
  /\ ~Busy(b)
  /\ left > 0
  /\ left' = left - 1
  /\ req' = [req EXCEPT ![b] = [op |-> op, uid |-> u, new |-> new, code |-> code,
                                old |-> IF Exists(u) THEN rows[u] ELSE new]]
  /\ raced' = raced \cup RacesWith(b, op, u)
  /\ UNCHANGED <<rows, sess>>

Handle(b, op, u, new) == HandleCode(b, op, u, new, {})

\* A request that changes b's session and no row.
Answer(b, session) ==
  /\ ~Busy(b)
  /\ left > 0
  /\ left' = left - 1
  /\ sess' = [sess EXCEPT ![b] = session]
  /\ UNCHANGED <<rows, req, verified, spent, raced>>

\* login: the right password, and what the account still has to do.
Login(b, u) ==
  /\ CurrentUser(b) = None
  /\ Exists(u)
  /\ \/ rows[u].must /\ Answer(b, [sess[b] EXCEPT !.setup = u])
     \/ ~rows[u].must /\ rows[u].enabled /\ Answer(b, [sess[b] EXCEPT !.twofa = u])
     \/ /\ ~rows[u].must /\ ~rows[u].enabled
        /\ Handle(b, "login", u, rows[u])
        /\ UNCHANGED <<verified, spent>>

Logout(b) ==
  /\ CurrentUser(b) # None
  /\ Answer(b, [sess[b] EXCEPT !.user = None])

\* login_2fa_cancel
Cancel(b) ==
  /\ sess[b].setup # None \/ sess[b].twofa # None
  /\ Answer(b, [sess[b] EXCEPT !.setup = None, !.twofa = None])

\* account_setup: new credentials, or the key is dropped when there is nothing
\* to set up.
AccountSetup(b) ==
  LET u == sess[b].setup IN
  /\ u # None
  /\ IF Exists(u) /\ rows[u].must
     THEN /\ Handle(b, "account_setup", u, [rows[u] EXCEPT !.must = FALSE, !.pw = "own"])
          /\ UNCHANGED <<verified, spent>>
     ELSE Answer(b, [sess[b] EXCEPT !.setup = None])

\* Faulty: a code is checked and not struck off.
RedeemKeepingCode(row, c) == row
\* _redeem_recovery
Redeem(row, c) == [row EXCEPT !.codes = @ \ {c}]

\* login_2fa: a current code, or a recovery code.
Login2fa(b) ==
  LET u == sess[b].twofa IN
  /\ u # None
  /\ IF Exists(u) /\ rows[u].enabled
     THEN /\ \/ Handle(b, "totp", u, rows[u])
             \/ \E c \in rows[u].codes :
                  HandleCode(b, "redeem", u, Redeem(rows[u], c), {c})
          /\ UNCHANGED <<verified, spent>>
     ELSE Answer(b, [sess[b] EXCEPT !.twofa = None])

-----------------------------------------------------------------------------
(* Handlers of an administrator *)

IsAdmin(b) == CurrentUser(b) # None /\ rows[CurrentUser(b)].admin

\* users_create: the row has no id before it is inserted.
Create(b, a) ==
  /\ IsAdmin(b)
  /\ Handle(b, "create", None, NewRow(a))
  /\ UNCHANGED <<verified, spent>>

\* Faulty: only one's own account is refused.
Other(b, u) == Exists(u) /\ u # CurrentUser(b)
\* What users_delete and users_toggle_admin refuse: one's own account and the
\* break-glass account.
MayChange(b, u) == Exists(u) /\ u # CurrentUser(b) /\ u # BreakGlass

\* users_delete
Delete(b, u) ==
  /\ IsAdmin(b) /\ MayChange(b, u)
  /\ Handle(b, "delete", u, rows[u])
  /\ UNCHANGED <<verified, spent>>

\* users_toggle_admin
ToggleAdmin(b, u) ==
  /\ IsAdmin(b) /\ MayChange(b, u)
  /\ Handle(b, "toggle", u, [rows[u] EXCEPT !.admin = ~@])
  /\ UNCHANGED <<verified, spent>>

\* Faulty: the account may keep the assigned password.
ResetForgettingMust(b, u) ==
  /\ IsAdmin(b) /\ Exists(u)
  /\ Handle(b, "reset", u, [rows[u] EXCEPT !.pw = "assigned"])
  /\ UNCHANGED <<verified, spent>>

\* users_reset
Reset(b, u) ==
  /\ IsAdmin(b) /\ Exists(u)
  /\ Handle(b, "reset", u, [rows[u] EXCEPT !.pw = "assigned", !.must = TRUE])
  /\ UNCHANGED <<verified, spent>>

\* Faulty: no secret is NULL instead of "".
No2faNull(row) == [row EXCEPT !.enabled = FALSE, !.secret = None, !.codes = {}]
\* What users_reset_2fa and profile_2fa_disable set.
No2fa(row) == [row EXCEPT !.enabled = FALSE, !.secret = 0, !.codes = {}]

\* users_reset_2fa
Reset2fa(b, u) ==
  /\ IsAdmin(b) /\ Exists(u)
  /\ Handle(b, "reset_2fa", u, No2fa(rows[u]))
  /\ UNCHANGED <<verified, spent>>

-----------------------------------------------------------------------------
(* Handlers of one's own profile *)

\* change_password
ChangePassword(b) ==
  LET u == CurrentUser(b) IN
  /\ u # None
  /\ Handle(b, "password", u, [rows[u] EXCEPT !.pw = "own"])
  /\ UNCHANGED <<verified, spent>>

\* Faulty: a second enrolment leaves the factor enabled.
SetupKeepingEnabled(row, s) == [row EXCEPT !.secret = s]
\* What profile_2fa_setup sets.
Enrolling(row, s) == [row EXCEPT !.secret = s, !.enabled = FALSE]

\* profile_2fa_setup
Setup2fa(b) ==
  LET u == CurrentUser(b) IN
  /\ u # None
  /\ \E s \in FreshSecrets :
       /\ Handle(b, "2fa_setup", u, Enrolling(rows[u], s))
       /\ verified' = verified \ {s}
  /\ UNCHANGED spent

\* profile_2fa_confirm: a code of the secret was verified; the break-glass
\* account gets new recovery codes.
Confirm2fa(b) ==
  LET u == CurrentUser(b) IN
  /\ u # None
  /\ rows[u].secret # 0
  /\ IF u = BreakGlass
     THEN \E g \in FreshGenerations :
            /\ Handle(b, "2fa_confirm", u,
                      [rows[u] EXCEPT !.enabled = TRUE, !.codes = Generation(g)])
            /\ spent' = spent \ Generation(g)
     ELSE /\ Handle(b, "2fa_confirm", u, [rows[u] EXCEPT !.enabled = TRUE])
          /\ UNCHANGED spent
  /\ verified' = verified \cup {rows[u].secret}

\* profile_2fa_disable
Disable2fa(b) ==
  LET u == CurrentUser(b) IN
  /\ u # None
  /\ Handle(b, "2fa_disable", u, No2fa(rows[u]))
  /\ UNCHANGED <<verified, spent>>

-----------------------------------------------------------------------------
(* Handlers: the commit *)

\* Faulty: an update writes every column of the row as the handler loaded it.
WholeRow(now, q) == q.new

\* The columns of an UPDATE: those whose value the handler changed.  A password
\* is hashed with a new salt, so setting it always changes it.
Column(old, new, now) == IF new # old THEN new ELSE now
Merge(now, q) ==
  [admin   |-> Column(q.old.admin, q.new.admin, now.admin),
   must    |-> Column(q.old.must, q.new.must, now.must),
   pw      |-> IF q.op \in {"account_setup", "reset", "password"}
               THEN q.new.pw ELSE Column(q.old.pw, q.new.pw, now.pw),
   secret  |-> Column(q.old.secret, q.new.secret, now.secret),
   enabled |-> Column(q.old.enabled, q.new.enabled, now.enabled),
   codes   |-> Column(q.old.codes, q.new.codes, now.codes)]

\* The session without the pending key that a handler pops before it commits.
Popped(b, q) ==
  [sess[b] EXCEPT !.setup = IF q.op = "account_setup" THEN None ELSE @,
                  !.twofa = IF q.op \in {"totp", "redeem"} THEN None ELSE @]

\* The session after the commit: logged in, or with the second factor to come.
LoggedIn(b, q) ==
  LET s == Popped(b, q) IN
  CASE q.op = "account_setup" /\ q.old.enabled -> [s EXCEPT !.twofa = q.uid]
    [] q.op = "account_setup" /\ ~q.old.enabled -> [s EXCEPT !.user = q.uid]
    [] q.op \in {"login", "totp", "redeem"} -> [s EXCEPT !.user = q.uid]
    [] OTHER -> s

Finish(b) == req' = [req EXCEPT ![b] = Idle]

\* The id of the next row: the one after the largest, so that of a deleted account
\* comes back if none was created after it.
NextIds == LeastOf({u \in Users : \A v \in DOMAIN rows : v < u})

Insert(b) ==
  /\ Busy(b) /\ req[b].op = "create"
  /\ \E u \in NextIds :
       /\ rows' = [w \in DOMAIN rows \cup {u} |-> IF w = u THEN req[b].new ELSE rows[w]]
       /\ raced' = raced \cup {k \in {"reuse"} :
                               \E c \in Browsers : Busy(c) /\ req[c].uid = u}
  /\ Finish(b)
  /\ UNCHANGED <<sess, left, verified, spent>>

\* A DELETE of a row that is gone does nothing.
Remove(b) ==
  /\ Busy(b) /\ req[b].op = "delete"
  /\ rows' = [u \in DOMAIN rows \ {req[b].uid} |-> rows[u]]
  /\ Finish(b)
  /\ UNCHANGED <<sess, left, verified, spent, raced>>

Update(b) ==
  LET q == req[b] IN
  /\ Busy(b) /\ q.op \notin {"create", "delete"}
  /\ Exists(q.uid)
  /\ rows' = [rows EXCEPT ![q.uid] = Merge(@, q)]
  /\ sess' = [sess EXCEPT ![b] = LoggedIn(b, q)]
  /\ spent' = spent \cup q.code
  /\ Finish(b)
  /\ UNCHANGED <<left, verified, raced>>

\* The commit fails: the name of a new account may have been taken meanwhile, or
\* the row is gone.  The pending key of a login is popped all the same.
CommitFails(b) ==
  LET q == req[b] IN
  /\ Busy(b) /\ q.op # "delete"
  /\ q.op = "create" \/ ~Exists(q.uid)
  /\ sess' = [sess EXCEPT ![b] = Popped(b, q)]
  /\ Finish(b)
  /\ UNCHANGED <<rows, left, verified, spent, raced>>

\* The process ends and create_app runs again: handlers in flight are lost, and
\* _seed_admin adds the break-glass account if the table is empty.
Restart ==
  /\ \E b \in Browsers : Busy(b)
  /\ req' = [b \in Browsers |-> Idle]
  /\ rows' = IF DOMAIN rows = {} THEN [u \in {BreakGlass} |-> SeededRow] ELSE rows
  /\ UNCHANGED <<sess, left, verified, spent, raced>>

-----------------------------------------------------------------------------
\* A new installation, or one in use: the break-glass account set up, the others
\* just created.
Init ==
  /\ rows \in {[u \in {BreakGlass} |-> SeededRow]}
       \cup {[u \in Users |-> IF u = BreakGlass
                              THEN [SeededRow EXCEPT !.must = FALSE, !.pw = "own"]
                              ELSE NewRow(a)] : a \in BOOLEAN}
  /\ sess = [b \in Browsers |-> NoSession]
  /\ req = [b \in Browsers |-> Idle]
  /\ left = MaxRequests
  /\ verified = {}
  /\ spent = {}
  /\ raced = {}

Commit(b) == Insert(b) \/ Remove(b) \/ Update(b) \/ CommitFails(b)

Request(b) ==
  \/ \E u \in Users : Login(b, u)
  \/ Logout(b) \/ Cancel(b) \/ AccountSetup(b) \/ Login2fa(b)
  \/ \E a \in BOOLEAN : Create(b, a)
  \/ \E u \in Users : Delete(b, u) \/ ToggleAdmin(b, u) \/ Reset(b, u) \/ Reset2fa(b, u)
  \/ ChangePassword(b) \/ Setup2fa(b) \/ Confirm2fa(b) \/ Disable2fa(b)

Done == left = 0 /\ (\A b \in Browsers : ~Busy(b)) /\ UNCHANGED vars

Next == (\E b \in Browsers : Request(b) \/ Commit(b)) \/ Restart \/ Done

Spec == Init /\ [][Next]_vars
-----------------------------------------------------------------------------
(* Properties *)

TypeOK ==
  /\ DOMAIN rows \subseteq Users
  /\ rows \in [DOMAIN rows -> Row]
  /\ sess \in [Browsers -> Session]
  /\ req \in [Browsers -> {Idle} \cup Handler]
  /\ left \in 0 .. MaxRequests
  /\ verified \subseteq Nat /\ spent \subseteq Nat
  /\ raced \subseteq DOMAIN Races

\* However administrators delete and demote each other at the same time, the
\* break-glass account remains, and remains an administrator (models.py:48-50).
SomeoneAdministers == Exists(BreakGlass) /\ rows[BreakGlass].admin

\* The second factor is asked for only with a secret the user has shown a code of
\* (models.py:26-28), whatever handlers, logins, deletions, new accounts of an old id
\* and restarts interleave.  Two interleavings are excepted, in which the code does
\* enable an unconfirmed secret: a confirmation that overlaps a change of the secret
\* it confirms, and one in flight while its account's id goes to a new account.
EnabledIsConfirmed ==
  raced \cap {"enrolment", "reuse"} = {} =>
    \A u \in DOMAIN rows : rows[u].enabled => rows[u].secret \in verified

\* A recovery code that was used to log in is never accepted again (models.py:34,
\* "one-time-use"), whatever other handlers, enrolments and restarts follow; but two
\* redemptions that overlap may leave a used code behind, and are excepted.
SpentCodesStaySpent ==
  "codes" \notin raced =>
    \A u \in DOMAIN rows : rows[u].codes \cap spent = {}

\* An account whose password an administrator chose has to change it at its next
\* login (models.py:42-43), a new account of a deleted one's id too; but a reset that
\* overlaps the account's own setup may leave it unasked, and is excepted.
AssignedMustChange ==
  "password" \notin raced =>
    \A u \in DOMAIN rows : rows[u].pw = "assigned" => rows[u].must

\* A toggle of u commits.
ToggleCommits(u) == \E b \in Browsers : Update(b) /\ req[b].op = "toggle" /\ req[b].uid = u

\* No stale row takes rights back: an account's rights change only when a toggle of
\* its id commits, never with the commit of another handler that loaded it before.
\* And every toggle turns the rights it finds, unless it overlapped another toggle of
\* the account (which the code lets undo it), or loaded the id's former account.
RightsFollowToggles ==
  [][\A u \in DOMAIN rows \cap DOMAIN rows' :
       /\ rows'[u].admin # rows[u].admin => ToggleCommits(u)
       /\ ToggleCommits(u) /\ raced \cap {"rights", "reuse"} = {}
            => rows'[u].admin # rows[u].admin]_vars
=============================================================================
