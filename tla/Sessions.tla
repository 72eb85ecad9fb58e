------------------------------- MODULE Sessions -------------------------------
(***************************************************************************)
(* Browser sessions (api/v2/ui.py), admin elevation (api/v2/admin.py), the *)
(* session workspace of the portal (api/v2/admin_portal.py) and the policy *)
(* that governs them (api/v2/session_policy.py), and the accounts whose    *)
(* sessions these are: a suspension, deletion or change of role leaves the *)
(* sessions as they are, and the lookups ask for the account themselves.   *)
(*                                                                         *)
(* A request decides on the rows it loaded and commits later, its writes   *)
(* being `unit` in between.  Times are relative: a row counts the ticks it *)
(* has left and those it has lived, so that time need not be bounded.      *)
(*                                                                         *)
(* The specification has names of its own, so that AdminProofs can extend  *)
(* it beside Install.                                                      *)
(***************************************************************************)
EXTENDS Naturals, FiniteSets

CONSTANTS
  Users,      \* people with an account on the board
  SA,         \* the super admin
  Roles,      \* what operators may make of the others: "super_user" or less
  MaxIds,     \* bound: session ids that can be handed out
  Threads,    \* request threads
  Null,       \* SQL NULL, no row, no cookie
  Policies,   \* what operators may set: slide, cap, concurrent, stale
  CapMax,     \* ABSOLUTE_CAP_DAYS_MAX, in ticks
  ConcurrentMax, \* CONCURRENT_CAP_MAX
  StaleMax,   \* AUTO_REVOKE_STALE_DAYS_MAX, in ticks
  TTL,        \* SU_ELEVATION_MINUTES and the life of an SA session, in ticks
  AwayAfter,  \* five minutes of silence, in ticks
  IdleAfter   \* thirty minutes

Knobs == {"slide", "cap", "concurrent", "stale"}

ASSUME SessionAssumption ==
  /\ MaxIds \in Nat /\ StaleMax \in Nat /\ ConcurrentMax \in Nat
  /\ CapMax \in Nat \ {0} /\ TTL \in 1..CapMax
  /\ AwayAfter \in Nat \ {0} /\ IdleAfter \in Nat /\ AwayAfter <= IdleAfter
  /\ Policies \subseteq [Knobs -> Nat] /\ Policies # {}
  /\ \A p \in Policies : /\ p["slide"] \in 1..CapMax /\ p["cap"] \in 1..CapMax
                         /\ p["slide"] <= p["cap"] /\ p["concurrent"] \in 1..ConcurrentMax
                         /\ p["stale"] <= StaleMax
  /\ "super_admin" \notin Roles /\ SA \notin Users /\ Null \notin Users \cup {SA} \cup Nat

VARIABLES
  sess,     \* sessions
  used,     \* ids handed out so far: the first of Ids (they are random, and never equal)
  policy,   \* system_settings
  account,  \* users: whether the status is active, and the role
  unit,     \* the pending writes of each request
  alone     \* history: the login of a request has not been overlapped so far

sessionVars == <<sess, used, policy, account, unit, alone>>

(***************************************************************************)
(* Data                                                                    *)
(***************************************************************************)
Ids == 1..MaxIds

\* Suspended and deleted accounts are alike to the lookups.
Account == [active : BOOLEAN, role : Roles \cup {"super_admin"}]

\* left, elev: ticks until expires_at and elevated_until; age: ticks since
\* created_at; quiet: ticks since last_activity_at.
SessionRow == [user : Users \cup {SA}, type : {"user", "sa"}, age : 0..CapMax, left : 0..CapMax,
               elev : 0..TTL, quiet : 0..StaleMax \cup {Null}, revoked : BOOLEAN]

\* NULL is told from a row.
ASSUME NullAssumption == Null \notin SessionRow

NoRows  == [x \in {} |-> x]
Nothing == [rows |-> NoRows, born |-> NoRows, gone |-> {}]
Busy    == {w \in Threads : unit[w] # Nothing}

\* The cookies vf_session and vf_sa_session of a request.
Cookies == [board : 1..used \cup {Null}, sa : 1..used \cup {Null}]

\* A row with the columns of `change` written over it; the row of one id.
Over(change, row) == [k \in DOMAIN row |-> IF k \in DOMAIN change THEN change[k] ELSE row[k]]
Only(s, row) == [x \in {s} |-> row]

Lower(m, n) == IF m <= n THEN m ELSE n

(***************************************************************************)
(* Lookups.  A request carries the cookies b, from whichever browser.        *)
(***************************************************************************)
Unexpired(s) == sess[s] # Null /\ sess[s].left > 0
Live(s)      == Unexpired(s) /\ ~sess[s].revoked

\* The board session whose id a cookie holds.
OfBoard(b) == {s \in Ids : s = b.board /\ sess[s] # Null /\ sess[s].type = "user"}

Active(s)   == account[sess[s].user].active
IsA(s, r)   == Active(s) /\ account[sess[s].user].role = r

\* As the pages see it.
_get_session_user(b) == {s \in OfBoard(b) : Live(s) /\ Active(s)}

\* The API of the board, and the admin gates, ask for the account too, but of
\* the session for expires_at only.
_cookie_user(b) == {s \in OfBoard(b) : Unexpired(s) /\ Active(s)}
_get_sa_user(b) ==
  {s \in Ids : s = b.sa /\ Unexpired(s) /\ sess[s].type = "sa" /\ IsA(s, "super_admin")}
_get_elevated_su(b) ==
  {s \in OfBoard(b) : Unexpired(s) /\ sess[s].elev > 0 /\ IsA(s, "super_user")}

LiveOf(u, type) == {s \in Ids : Live(s) /\ sess[s].user = u /\ sess[s].type = type}

(***************************************************************************)
(* Writing                                                                 *)
(***************************************************************************)
With(S, change) == [s \in Ids |-> IF s \in S THEN Over(change, sess[s]) ELSE sess[s]]

\* _get_session_user stamps last_activity_at and commits.
Touched(b) == With(_get_session_user(b), [quiet |-> 0])

\* _resolve_acting_user: an SA session passes, a board session beside it is
\* touched; else an elevated session passes and its elevation rolls on.
Passes(b)    == _get_sa_user(b) \cup _get_elevated_su(b) # {}
\* Mutant: the new term is added to what is left of the old one.
GateAdds(b)  == IF _get_sa_user(b) # {} THEN Touched(b)
                ELSE [s \in Ids |-> IF s \in _get_elevated_su(b)
                                    THEN [sess[s] EXCEPT !.elev = @ + TTL] ELSE sess[s]]
AfterGate(b) == IF _get_sa_user(b) # {} THEN Touched(b) ELSE With(_get_elevated_su(b), [elev |-> TTL])

\* An idle thread takes the request; which one makes no difference.
Decide(w, q) ==
  /\ unit[w] = Nothing /\ w = CHOOSE v \in Threads : unit[v] = Nothing
  /\ unit' = [unit EXCEPT ![w] = q]
  /\ alone' = [v \in Threads |-> v = w /\ Busy = {} /\ q.born # NoRows]

\* An UPDATE of a row that is gone fails with its whole commit.
Commit(w) ==
  /\ unit[w] # Nothing
  /\ LET q == unit[w]
     IN  IF \A s \in DOMAIN q.rows : sess[s] # Null
         THEN sess' = [s \in Ids |-> IF s \in DOMAIN q.born THEN q.born[s]
                                     ELSE IF s \in q.gone THEN Null
                                     ELSE IF s \in DOMAIN q.rows THEN Over(q.rows[s], sess[s])
                                     ELSE sess[s]]
         ELSE UNCHANGED sess
  /\ unit' = [unit EXCEPT ![w] = Nothing]
  /\ alone' = [alone EXCEPT ![w] = FALSE]
  /\ UNCHANGED <<used, policy, account>>

SessionsInit ==
  /\ sess = [s \in Ids |-> Null] /\ used = 0
  /\ policy \in Policies
  /\ account \in [Users \cup {SA} -> Account]
  /\ \A u \in Users : account[u].active /\ account[u].role \in Roles
  /\ account[SA] = [active |-> TRUE, role |-> "super_admin"]
  /\ unit = [w \in Threads |-> Nothing]
  /\ alone = [w \in Threads |-> FALSE]

(***************************************************************************)
(* Sessions                                                                *)
(***************************************************************************)
\* Mutant: revokes one too few.
OverCap(u, type, S) ==
  /\ S \subseteq LiveOf(u, type)
  /\ Cardinality(LiveOf(u, type) \ S) = Lower(policy["concurrent"], Cardinality(LiveOf(u, type)))
  /\ \A s \in S, t \in LiveOf(u, type) \ S : sess[s].age >= sess[t].age

\* Enough of the oldest live sessions to make room for one.
enforce_concurrent_cap(u, type, S) ==
  /\ S \subseteq LiveOf(u, type)
  /\ Cardinality(LiveOf(u, type) \ S) = Lower(policy["concurrent"] - 1, Cardinality(LiveOf(u, type)))
  /\ \A s \in S, t \in LiveOf(u, type) \ S : sess[s].age >= sess[t].age

_create_session(w, u, type, lasts) ==
  \E S \in SUBSET Ids : LET s == used + 1 IN
    /\ used < MaxIds
    /\ enforce_concurrent_cap(u, type, S)
    /\ Decide(w, [Nothing EXCEPT
         !.rows = [x \in S |-> [revoked |-> TRUE]],
         !.born = Only(s, [user |-> u, type |-> type, age |-> 0, left |-> lasts,
                           elev |-> 0, quiet |-> Null, revoked |-> FALSE])])
    /\ used' = s
    /\ UNCHANGED <<policy, account>>

login_submit(w, u) ==
  /\ account[u].active
  /\ _create_session(w, u, "user", policy["slide"])
  /\ UNCHANGED sess

\* The break-glass session of the super admin: short, under the same cap.
_create_sa_session(w) == _create_session(w, SA, "sa", TTL)

admin_login(w, b) ==
  /\ _create_sa_session(w)
  /\ sess' = Touched(b)

\* The row goes, but not that of the other cookie, which the browser forgets.
logout(w, b) ==
  /\ b.board # Null /\ sess[b.board] # Null
  /\ Decide(w, [Nothing EXCEPT !.gone = {b.board}])
  /\ UNCHANGED <<sess, used, policy, account>>

\* Any page of the board.
visit(b) ==
  /\ _get_session_user(b) # {}
  /\ sess' = Touched(b)
  /\ UNCHANGED <<used, policy, account, unit, alone>>

\* Mutant: no ceiling.
slide_forever(s) == policy["slide"]
\* expires_at = min(now + slide, created_at + cap); the second may be past.
slide_session_expiry(s) ==
  Lower(policy["slide"], IF sess[s].age <= policy["cap"] THEN policy["cap"] - sess[s].age ELSE 0)

\* The beat does not ask for the account.
heartbeat(w, b) ==
  /\ \E s \in {x \in OfBoard(b) : Live(x)} : Decide(w, [Nothing EXCEPT
       !.rows = Only(s, [quiet |-> 0, left |-> slide_session_expiry(s)])])
  /\ UNCHANGED <<sess, used, policy, account>>

(***************************************************************************)
(* Elevation                                                               *)
(***************************************************************************)
BySuperUser(b) == {s \in _get_session_user(b) : IsA(s, "super_user")}

admin_elevate(w, b) ==
  /\ \E s \in BySuperUser(b) : Decide(w, [Nothing EXCEPT !.rows = Only(s, [elev |-> TTL])])
  /\ sess' = Touched(b)
  /\ UNCHANGED <<used, policy, account>>

admin_unelevate(w, b) ==
  /\ \E s \in _get_session_user(b) : Decide(w, [Nothing EXCEPT !.rows = Only(s, [elev |-> 0])])
  /\ sess' = Touched(b)
  /\ UNCHANGED <<used, policy, account>>

admin_logout(w, b) ==
  /\ Decide(w, [Nothing EXCEPT !.gone = {s \in Ids : s = b.sa /\ sess[s] # Null},
                               !.rows = [s \in BySuperUser(b) |-> [elev |-> 0]]])
  /\ unit'[w] # Nothing
  /\ sess' = Touched(b)
  /\ UNCHANGED <<used, policy, account>>

(***************************************************************************)
(* The portal                                                              *)
(***************************************************************************)
\* A page of the portal by an elevated user: the gate loads the row, then
\* commits the new elevated_until.
portal_page(w, b) ==
  /\ _get_sa_user(b) = {}
  /\ \E s \in _get_elevated_su(b) : Decide(w, [Nothing EXCEPT !.rows = Only(s, [elev |-> TTL])])
  /\ UNCHANGED <<sess, used, policy, account>>

Stale(row) ==
  /\ policy["stale"] > 0
  /\ row # Null /\ row.left > 0 /\ ~row.revoked
  /\ row.quiet # Null /\ row.quiet >= policy["stale"]

\* One UPDATE statement.
Swept(rows) == [s \in Ids |-> IF Stale(rows[s]) THEN Over([revoked |-> TRUE], rows[s]) ELSE rows[s]]

\* The list of sessions is asked for: the gate first, then the sweep.
sweep_stale_sessions(b) ==
  /\ Passes(b)
  /\ sess' = Swept(AfterGate(b))
  /\ UNCHANGED <<used, policy, account, unit, alone>>

portal_api_session_revoke(w, b, s) ==
  /\ Passes(b)
  /\ sess[s] # Null /\ s \notin {b.board, b.sa} /\ ~sess[s].revoked
  /\ Decide(w, [Nothing EXCEPT !.rows = Only(s, [revoked |-> TRUE])])
  /\ sess' = AfterGate(b)
  /\ UNCHANGED <<used, policy, account>>

\* An operator's policy is checked as a whole and written setting by setting,
\* each with a commit of its own: other requests run between them, another
\* operator writes too, and a failure leaves the rest unwritten.  So one write of
\* one setting may come at any time.  (The operator's gate is portal_page.)
portal_api_policy_set(p, key) ==
  /\ policy[key] # p[key]
  /\ policy' = [policy EXCEPT ![key] = p[key]]
  /\ UNCHANGED <<sess, used, account, unit, alone>>

(***************************************************************************)
(* Accounts.  What an operator does to one is one step: of two that        *)
(* overlap, the later one writes the status or the role it wants.  That    *)
(* the last super user stays one is in module Access; here there is always *)
(* one more.                                                               *)
(***************************************************************************)
\* The sessions of the account are left alone.
ChangeAccount(b, u, new) ==
  /\ Passes(b)
  /\ account' = [account EXCEPT ![u] = new]
  /\ sess' = AfterGate(b)
  /\ UNCHANGED <<used, policy, unit, alone>>

\* suspend_user and soft_delete_user.
Disable(b, u) == account[u].active /\ ChangeAccount(b, u, [account[u] EXCEPT !.active = FALSE])

\* unsuspend_user and restore_user.
Enable(b, u) == ~account[u].active /\ ChangeAccount(b, u, [account[u] EXCEPT !.active = TRUE])

change_user_role(b, u, role) == ChangeAccount(b, u, [account[u] EXCEPT !.role = role])

(***************************************************************************)
(* What is shown                                                           *)
(***************************************************************************)
activity(row) ==
  IF row.quiet = Null THEN "idle"
  ELSE IF row.quiet < AwayAfter THEN "active"
  ELSE IF row.quiet < IdleAfter THEN "away"
  ELSE "idle"

\* Mutant: the end is looked at, the revocation is not.
state_by_end(row) == IF row.left = 0 THEN "expired" ELSE activity(row)

\* For display only: no column holds it.
derive_session_state(row) ==
  IF row.revoked THEN "revoked" ELSE IF row.left = 0 THEN "expired" ELSE activity(row)

_serialize_session(row) ==
  [state |-> derive_session_state(row), session_type |-> row.type, elevated |-> row.elev > 0]

\* The workspace of an operator with cookies b: the gate and the sweep come first.
\* A revoked row is listed for seven days, here as long as it exists; the list is
\* cut at 200 rows, which are more than there are here.
_build_sessions_payload(b) ==
  LET rows == Swept(AfterGate(b))
  IN  [s \in {x \in Ids : rows[x] # Null /\ (rows[x].left > 0 \/ rows[x].revoked)}
         |-> _serialize_session(rows[s])]

\* Who is online, per person, for the health pages.
_collect_sessions ==
  [u \in {sess[s].user : s \in {x \in Ids : Unexpired(x)}} |->
     LET own == {s \in Ids : Unexpired(s) /\ sess[s].user = u}
     IN  [tab_count |-> Cardinality(own), has_sa |-> \E s \in own : sess[s].type = "sa"]]

\* The frame of every page of the portal: under what authority, for how long.
\* The countdown is read from the row as it is, expired or not.
_portal_context(b) ==
  [acting |-> CASE _get_sa_user(b) # {} /\ b.board = Null  -> "pure_break_glass"
                [] _get_sa_user(b) # {} /\ b.board # Null  -> "stacked_sa"
                [] _get_sa_user(b) = {} /\ b.board # Null  -> "su_elevated_only"
                [] OTHER                                   -> Null,
   elevation_ttl_seconds |->
     IF b.board # Null /\ sess[b.board] # Null THEN sess[b.board].elev ELSE 0]

(***************************************************************************)
(* Time                                                                    *)
(***************************************************************************)
Later(k, n) ==
  CASE k \in {"left", "elev"} -> IF n = 0 THEN 0 ELSE n - 1
    [] k = "age"              -> Lower(n + 1, CapMax)
    [] k = "quiet"            -> IF n = Null THEN Null ELSE Lower(n + 1, StaleMax)
    [] OTHER                  -> n

Older(row) == [k \in DOMAIN row |-> Later(k, row[k])]

\* The times that a request has computed get nearer as well.
Tick ==
  /\ \E s \in Ids : sess[s] # Null /\ sess[s] # Older(sess[s])
  /\ sess' = [s \in Ids |-> IF sess[s] = Null THEN Null ELSE Older(sess[s])]
  /\ unit' = [w \in Threads |-> [unit[w] EXCEPT
       !.rows = [s \in DOMAIN unit[w].rows |-> Older(unit[w].rows[s])],
       !.born = [s \in DOMAIN unit[w].born |-> Older(unit[w].born[s])]]]
  /\ UNCHANGED <<used, policy, account, alone>>

SessionsNext ==
  \/ Tick
  \/ \E p \in Policies, key \in Knobs : portal_api_policy_set(p, key)
  \/ \E w \in Threads : Commit(w) \/ \E u \in Users : login_submit(w, u)
  \/ \E b \in {c \in Cookies : c.sa = Null} :   \* the other cookie is not looked at
       \/ visit(b)
       \/ \E w \in Threads :
            \/ logout(w, b) \/ heartbeat(w, b) \/ portal_page(w, b)
            \/ admin_login(w, b) \/ admin_elevate(w, b) \/ admin_unelevate(w, b)
  \/ \E b \in Cookies :
       \/ sweep_stale_sessions(b)
       \/ \E w \in Threads :
            \/ admin_logout(w, b)
            \/ \E s \in Ids : portal_api_session_revoke(w, b, s)
       \/ \E u \in Users :
            \/ Disable(b, u) \/ Enable(b, u) \/ \E r \in Roles : change_user_role(b, u, r)

SessionsSpec == SessionsInit /\ [][SessionsNext]_sessionVars

(***************************************************************************)
(* Properties                                                              *)
(***************************************************************************)
(* Every variable has its type. *)
SessionsTypeOK ==
  /\ sess \in [Ids -> SessionRow \cup {Null}] /\ used \in 0..MaxIds
  /\ DOMAIN policy = Knobs /\ policy["slide"] \in 1..CapMax /\ policy["cap"] \in 1..CapMax
  /\ account \in [Users \cup {SA} -> Account] /\ alone \in [Threads -> BOOLEAN]

LargestCap == CHOOSE n \in {p["concurrent"] : p \in Policies} :
                \A p \in Policies : p["concurrent"] <= n

(* A login that no other request overlaps leaves at most the concurrent cap of
   live sessions of its kind, the new one among them.  (Two that overlap both
   make room for one.) *)
LoginMakesRoom == [][
  \A w \in Threads : (unit'[w] = Nothing /\ alone[w]) =>
    \A row \in {unit[w].born[s] : s \in DOMAIN unit[w].born} :
      Cardinality(LiveOf(row.user, row.type)') <= LargestCap]_sessionVars

(* No session outlives the ceiling of the absolute cap, counted from its creation:
   one that beats for ever, whatever is set between its beats and however late a beat
   commits, and one that was revoked and that some lookups go on accepting. *)
EndsByCap == \A s \in Ids : sess[s] # Null => sess[s].age + sess[s].left <= CapMax

Shown(list) == {s \in DOMAIN list : list[s].state \in {"active", "away", "idle"}}

ShownIsSo(b) ==
  LET list  == _build_sessions_payload(b)
      frame == _portal_context(b)
  IN
  /\ \A s \in Shown(list) : LET cookie == [board |-> s, sa |-> Null] IN
       /\ Live(s)
       /\ list[s].session_type = "user" /\ Active(s) => s \in _get_session_user(cookie)
       /\ list[s].elevated /\ IsA(s, "super_user") => s \in _get_elevated_su(cookie)
       /\ s \in _get_elevated_su(cookie) => list[s].elevated
  /\ \A s \in Ids :
       s \in _cookie_user([board |-> s, sa |-> Null]) \cup _get_sa_user([board |-> Null, sa |-> s])
         => s \in DOMAIN list /\ sess[s].user \in DOMAIN _collect_sessions
  /\ frame.acting = "su_elevated_only" => frame.elevation_ttl_seconds > 0

StaysRevoked(s) ==
  (sess[s] # Null /\ derive_session_state(sess[s]) = "revoked") =>
    (sess[s] # Null => derive_session_state(sess[s]) = "revoked")'

(* The operator's pages tell the truth about sessions.  What the workspace shows as
   active, away or idle the pages do accept from an active account, with the
   elevation that the gates accept from a super user; nothing that any lookup
   accepts is missing from its list, nor its owner from the panel of who is online;
   who works under an elevation sees its countdown.  And a session once shown as
   revoked is never shown otherwise again, whatever requests that loaded it before
   still write. *)
ViewsAreTrue ==
  /\ [](\A b \in Cookies : Passes(b) => ShownIsSo(b))
  /\ [][\A s \in Ids : StaysRevoked(s)]_sessionVars

(* "Auth check stays single-WHERE (expires_at > now AND revoked_at IS NULL)"
   (models/session.py): no lookup accepts a revoked session. *)
RevokedIsOut == \A b \in Cookies :
  \A s \in _cookie_user(b) \cup _get_sa_user(b) : ~sess[s].revoked

(* "Sessions revoked immediately", says the portal of a suspension: no session of
   an account is live when it stops being active.  (Refuted: README, Disagreements.) *)
SuspensionRevokes == [][
  \A u \in Users : account[u].active /\ ~account'[u].active =>
    \A s \in Ids : Live(s)' => sess'[s].user # u]_sessionVars
===============================================================================
