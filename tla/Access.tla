-------------------------------- MODULE Access --------------------------------
(***************************************************************************)
(* Who may act on a project: accounts (api/v2/admin.py), project members   *)
(* and their cascades (api/v2/members.py), ownership, and the agents with  *)
(* their API tokens (api/v2/ui.py, admin.py, members.py).                  *)
(*                                                                         *)
(* A request loads rows and decides (an action of its own), then commits   *)
(* the columns it changed (Commit).  Other requests run in between.  The   *)
(* decisions of one request are its pending writes, `unit`.                *)
(***************************************************************************)
EXTENDS Naturals, FiniteSets

CONSTANTS
  Users,    \* human accounts, without the super admin, whom nothing here changes
  Agents,   \* agents of the project, created or not
  Rows,     \* ids of human project_members rows of the project
  Tokens,   \* tokens that can be minted
  Workers,  \* request threads
  None      \* SQL NULL, or no row

ASSUME AccessAssumption ==
  /\ None \notin Users \cup Agents \cup Rows \cup Tokens
  /\ IsFiniteSet(Users)

VARIABLES
  user,     \* users.status and users.role
  owner,    \* projects.owner_id
  open,     \* projects.status = "active"
  member,   \* project_members
  agent,    \* agents: status, api_token_hash, expires_at, created_by
  issued,   \* tokens minted so far (random, so never twice)
  unit,     \* the pending writes of each request
  dead,     \* history: tokens that worked once and then did not
  granted   \* history: agents that a sysadmin created or restored, or a reissue revived

tables == <<user, owner, open, member, agent>>
vars == <<user, owner, open, member, agent, issued, unit, dead, granted>>

(***************************************************************************)
(* Data                                                                    *)
(***************************************************************************)
Roles       == {"viewer", "user", "super_user"}
MemberRoles == {"read", "write", "admin"}
User   == [status : {"none", "active", "suspended", "deleted"}, role : Roles]
Seat   == [user : Users, role : MemberRoles]
ASSUME NoneAssumption == None \notin Seat

\* expires_at: NULL, in the future, or passed
Agent  == [status : {"none", "active", "revoked"}, hash : Tokens \cup {None},
           expires : {"never", "later", "passed"}, creator : Users \cup {None}]
NoUser == [status |-> "none", role |-> "user"]
Absent == [status |-> "none", hash |-> None, expires |-> "never", creator |-> None]

\* Nothing pending.  users, agents and seats map a row to its changed columns.
NoRows == [x \in {} |-> x]
Nothing == [users |-> NoRows, agents |-> NoRows, seats |-> NoRows, added |-> NoRows,
            gone |-> {}, owner |-> None, grants |-> {}]

\* Changes of one row.
One(k, columns) == [x \in {k} |-> columns]

\* A row, or a table, with the changed columns written over the loaded ones.
Over(row, columns) ==
  [c \in DOMAIN row |-> IF c \in DOMAIN columns THEN columns[c] ELSE row[c]]
Saved(table, changes) ==
  [k \in DOMAIN table |-> IF k \in DOMAIN changes THEN Over(table[k], changes[k]) ELSE table[k]]

(***************************************************************************)
(* What a token and a session cookie let their bearer do                   *)
(***************************************************************************)
\* _resolve_actor: the agent of this hash is active and has not expired.
Works(t) == \E a \in Agents : /\ agent[a].status = "active"
                              /\ agent[a].hash = t
                              /\ agent[a].expires # "passed"

Seats(u) == {r \in Rows : member[r] # None /\ member[r].user = u}

\* The effective roles; a user with several rows gets that of any of them.
_human_project_role(u) ==
  IF user[u].status # "active"        THEN {}
  ELSE IF user[u].role = "super_user" THEN {"su"}
  ELSE IF owner = u                   THEN {"owner"}
  ELSE IF user[u].role = "viewer"     THEN {"read" : r \in Seats(u)}
  ELSE {member[r].role : r \in Seats(u)}

MayWrite(u) == _human_project_role(u) \cap {"su", "owner", "admin", "write"} # {}
MayAdmin(u) == _human_project_role(u) \cap {"su", "owner", "admin"} # {}
AnAdmin     == \E u \in Users : MayAdmin(u)

_user_can_manage_agent(u, a) ==
  user[u].status = "active" /\ (user[u].role = "super_user" \/ agent[a].creator = u)

ActiveSuperUsers == {u \in Users : user[u] = [status |-> "active", role |-> "super_user"]}
\* Mutant: off by one.
NoSuperUser(u) == user[u].role = "super_user" /\ Cardinality(ActiveSuperUsers) < 1

\* The guard of suspend, delete and demote.
LastSuperUser(u) == user[u].role = "super_user" /\ Cardinality(ActiveSuperUsers) <= 1

NewAgent(t, expires, u) == [status |-> "active", hash |-> t, expires |-> expires, creator |-> u]

\* POST projects: a project without agents.
create_project == agent = [a \in Agents |-> Absent] /\ issued = {}

\* The wizard adds an agent, which its creator manages, and a token without a term.
onboard_wizard_commit(u, a, t) ==
  /\ agent = [x \in Agents |-> IF x = a THEN NewAgent(t, "never", u) ELSE Absent]
  /\ issued = {t}

\* Nobody keeps a viewer from creating a project, whose row then says admin: such a
\* project is left out.
Init ==
  /\ user \in [Users -> [status : {"active"}, role : Roles] \cup {NoUser}]
  /\ ActiveSuperUsers # {}
  /\ \E u \in Users, r \in Rows :
       /\ user[u].status = "active" /\ user[u].role # "viewer"
       /\ owner = u
       /\ member = [x \in Rows |-> IF x = r THEN [user |-> u, role |-> "admin"] ELSE None]
       /\ create_project \/ \E a \in Agents, t \in Tokens : onboard_wizard_commit(u, a, t)
  /\ open = TRUE
  /\ dead = {} /\ granted = {}
  /\ unit = [w \in Workers |-> Nothing]

(***************************************************************************)
(* The unit of work                                                        *)
(***************************************************************************)
Busy == {w \in Workers : unit[w] # Nothing}

\* A request has loaded what it needs and passed its checks.
Decide(w, q) ==
  /\ unit[w] = Nothing
  /\ unit' = [unit EXCEPT ![w] = q]
  /\ UNCHANGED <<tables, dead, granted>>

\* An UPDATE of a row that is gone fails, and with it the whole commit; a
\* DELETE of such a row does not.
Lands(q) == \A r \in DOMAIN q.seats : member[r] # None

SeatsAfter(q) ==
  [r \in Rows |-> IF r \in DOMAIN q.added      THEN q.added[r]
                  ELSE IF r \in q.gone         THEN None
                  ELSE IF r \in DOMAIN q.seats THEN Over(member[r], q.seats[r])
                  ELSE member[r]]

Write(q) ==
  /\ user' = Saved(user, q.users)
  /\ agent' = Saved(agent, q.agents)
  /\ member' = SeatsAfter(q)
  /\ owner' = IF q.owner = None THEN owner ELSE q.owner
  /\ granted' = granted \cup q.grants

Bury == dead' = dead \cup {t \in Tokens : Works(t) /\ ~Works(t)'}

Commit(w) ==
  /\ unit[w] # Nothing
  /\ IF Lands(unit[w]) THEN Write(unit[w]) ELSE UNCHANGED <<user, agent, member, owner, granted>>
  /\ Bury
  /\ unit' = [unit EXCEPT ![w] = Nothing]
  /\ UNCHANGED <<open, issued>>

(***************************************************************************)
(* Agents and their tokens                                                 *)
(***************************************************************************)
\* Mutant: the token is not remembered as minted.
MintTwice(t) == t \notin issued /\ UNCHANGED issued

Mint(t) == t \notin issued /\ issued' = issued \cup {t}

\* The slug is unique: no two requests create one agent.
Unborn(a) == agent[a] = Absent /\ \A w \in Busy : a \notin DOMAIN unit[w].agents

create_agent(w, a) ==
  /\ Unborn(a)
  /\ Decide(w, [Nothing EXCEPT !.agents = One(a, NewAgent(None, "never", None))])
  /\ UNCHANGED issued

user_create_agent(w, a, t, u) ==
  /\ MayWrite(u) /\ Unborn(a) /\ Mint(t)
  /\ \E expires \in {"never", "later"} :
       Decide(w, [Nothing EXCEPT
         !.agents = One(a, NewAgent(t, expires, u)),
         !.grants = {x \in {a} : "su" \in _human_project_role(u)}])

\* On behalf of a user who need not be a member.
admin_create_agent(w, a, t, u) ==
  /\ user[u].status = "active" /\ user[u].role \in {"super_user", "user"}
  /\ Unborn(a) /\ Mint(t)
  /\ Decide(w, [Nothing EXCEPT !.agents = One(a, NewAgent(t, "later", u)), !.grants = {a}])

\* A fresh token and a fresh term, for an eternal agent too.
Cycle(w, a, t) ==
  /\ agent[a].status = "active" /\ Mint(t)
  /\ Decide(w, [Nothing EXCEPT !.agents = One(a, [hash |-> t, expires |-> "later"])])

user_cycle_agent(w, a, t, u) == _user_can_manage_agent(u, a) /\ Cycle(w, a, t)
cycle_agent_token(w, a, t) == Cycle(w, a, t)

\* Whatever the agent's status; the term stays as it is.
issue_agent_token(w, a, t) ==
  /\ agent[a] # Absent /\ Mint(t)
  /\ Decide(w, [Nothing EXCEPT !.agents = One(a, [hash |-> t])])

\* Mutant: the token survives a revoke.
HashKept(a) == NoRows

\* A column that already has the new value is not written.
NoHash(a) == IF agent[a].hash = None THEN NoRows ELSE [hash |-> None]

revoke_agent_token(w, a) ==
  /\ agent[a] # Absent
  /\ Decide(w, [Nothing EXCEPT !.agents = One(a, NoHash(a))])
  /\ UNCHANGED issued

portal_agent_revoke_token(w, a) ==
  agent[a].status = "active" /\ agent[a].hash # None /\ revoke_agent_token(w, a)

\* The wizard's fresh token, which also makes a revoked agent active; the term stays.
onboard_wizard_reissue_token(w, a, t, u) ==
  LET revived == {x \in {a} : agent[x].status = "revoked"} IN
  /\ agent[a] # Absent /\ _user_can_manage_agent(u, a) /\ Mint(t)
  /\ Decide(w, [Nothing EXCEPT
       !.agents = One(a, IF revived = {} THEN [hash |-> t] ELSE [hash |-> t, status |-> "active"]),
       !.grants = revived])

\* status, revoked_at, api_token_hash and token_prefix of each agent.
Revoked(S) ==
  [a \in S |-> [c \in {"status"} \cup DOMAIN NoHash(a) |-> IF c = "status" THEN "revoked" ELSE None]]

Revoke(w, a) ==
  /\ agent[a].status = "active"
  /\ Decide(w, [Nothing EXCEPT !.agents = Revoked({a})])
  /\ UNCHANGED issued

user_revoke_agent(w, a, u) == _user_can_manage_agent(u, a) /\ Revoke(w, a)
revoke_agent(w, a) == Revoke(w, a)

Restore(w, a) ==
  /\ agent[a].status = "revoked"
  /\ Decide(w, [Nothing EXCEPT !.agents = One(a, [status |-> "active"]), !.grants = {a}])
  /\ UNCHANGED issued

user_restore_agent(w, a, u) ==
  user[u].status = "active" /\ user[u].role = "super_user" /\ Restore(w, a)
restore_agent(w, a) == Restore(w, a)

\* The term of a token ends.
TokenExpires(a) ==
  /\ agent[a].expires = "later"
  /\ agent' = [agent EXCEPT ![a].expires = "passed"]
  /\ Bury
  /\ UNCHANGED <<user, owner, open, member, issued, unit, granted>>

(***************************************************************************)
(* Members                                                                 *)
(***************************************************************************)
\* Mutant: the cascades take only agents that hold a token.
ArmedAgentsOf(u) ==
  {a \in Agents : agent[a].status = "active" /\ agent[a].creator = u /\ agent[a].hash # None}

ActiveAgentsOf(u) == {a \in Agents : agent[a].status = "active" /\ agent[a].creator = u}

\* Mutant: viewers are stopped at admin rows only.
ViewerNoAdmin(u, role) == user[u].role = "viewer" => role # "admin"

ViewerOnlyReads(u, role) == user[u].role = "viewer" => role = "read"

\* Ids are not used twice: a row another request holds is not a new one.
NewRow(r) ==
  /\ member[r] = None
  /\ \A w \in Busy : r \notin DOMAIN unit[w].seats \cup DOMAIN unit[w].added \cup unit[w].gone

add_member(w, r, u, role) ==
  /\ AnAdmin
  /\ user[u] # NoUser
  /\ Seats(u) = {} /\ ViewerOnlyReads(u, role) /\ NewRow(r)
  /\ Decide(w, [Nothing EXCEPT !.added = One(r, [user |-> u, role |-> role])])
  /\ UNCHANGED issued

update_member_role(w, r, role) ==
  /\ AnAdmin
  /\ member[r] # None
  /\ member[r].role # role /\ ViewerOnlyReads(member[r].user, role)
  /\ Decide(w, [Nothing EXCEPT !.seats = One(r, [role |-> role])])
  /\ UNCHANGED issued

\* The member's agents go with the row.
remove_member(w, r) ==
  /\ AnAdmin
  /\ member[r] # None
  /\ member[r].user # owner
  /\ Decide(w, [Nothing EXCEPT !.gone = {r}, !.agents = Revoked(ActiveAgentsOf(member[r].user))])
  /\ UNCHANGED issued

(***************************************************************************)
(* Accounts                                                                *)
(***************************************************************************)
\* The user name and the e-mail address are unique.
create_user(w, u, role) ==
  /\ user[u] = NoUser
  /\ \A v \in Busy : u \notin DOMAIN unit[v].users
  /\ Decide(w, [Nothing EXCEPT !.users = One(u, [status |-> "active", role |-> role])])
  /\ UNCHANGED issued

SetStatus(w, u, status) ==
  /\ Decide(w, [Nothing EXCEPT !.users = One(u, [status |-> status])])
  /\ UNCHANGED issued

soft_delete_user(w, u) ==
  /\ ~LastSuperUser(u)
  /\ user[u].status \notin {"none", "deleted"}
  /\ ~(open /\ owner = u)
  /\ Decide(w, [Nothing EXCEPT !.users = One(u, [status |-> "deleted"]),
                               !.agents = Revoked(ActiveAgentsOf(u))])
  /\ UNCHANGED issued

suspend_user(w, u)   == ~LastSuperUser(u) /\ user[u].status = "active" /\ SetStatus(w, u, "suspended")
unsuspend_user(w, u) == user[u].status = "suspended" /\ SetStatus(w, u, "active")
restore_user(w, u)   == user[u].status = "deleted" /\ SetStatus(w, u, "active")

\* A new viewer keeps the rows, with role read.
change_user_role(w, u, role) ==
  /\ user[u] # NoUser
  /\ role # "super_user" => ~LastSuperUser(u)
  /\ LET down == {r \in Seats(u) : role = "viewer" /\ user[u].role # "viewer" /\ member[r].role # "read"}
     IN  Decide(w, [Nothing EXCEPT !.users = One(u, [role |-> role]),
                                  !.seats = [r \in down |-> [role |-> "read"]]])
  /\ UNCHANGED issued

(***************************************************************************)
(* The project                                                             *)
(***************************************************************************)
\* Who may become the owner, by which row.
MayOwn(u, r) ==
  /\ open /\ u # owner
  /\ user[u].status = "active" /\ user[u].role # "viewer"
  /\ r \in Seats(u)

transfer_project_owner(w, u, r) ==
  /\ MayOwn(u, r)
  /\ Decide(w, [Nothing EXCEPT
       !.owner = u,
       !.seats = [x \in {y \in {r} : member[y].role # "admin"} |-> [role |-> "admin"]]])
  /\ UNCHANGED issued

\* complete, archive and reopen change the status and look at no one's account.
archive_project ==
  /\ open /\ open' = FALSE
  /\ UNCHANGED <<user, owner, member, agent, issued, unit, dead, granted>>
reopen_project ==
  /\ ~open /\ open' = TRUE
  /\ UNCHANGED <<user, owner, member, agent, issued, unit, dead, granted>>

AgentStep(w, a) ==
  \/ create_agent(w, a) \/ revoke_agent_token(w, a) \/ portal_agent_revoke_token(w, a)
  \/ revoke_agent(w, a) \/ restore_agent(w, a)
  \/ \E t \in Tokens : cycle_agent_token(w, a, t) \/ issue_agent_token(w, a, t)
  \/ \E u \in Users : user_revoke_agent(w, a, u) \/ user_restore_agent(w, a, u)
  \/ \E u \in Users, t \in Tokens :
       \/ user_create_agent(w, a, t, u) \/ admin_create_agent(w, a, t, u)
       \/ user_cycle_agent(w, a, t, u) \/ onboard_wizard_reissue_token(w, a, t, u)

AccountStep(w, u) ==
  \/ soft_delete_user(w, u) \/ suspend_user(w, u) \/ unsuspend_user(w, u) \/ restore_user(w, u)
  \/ \E role \in Roles : create_user(w, u, role) \/ change_user_role(w, u, role)

MemberStep(w, r) ==
  \/ remove_member(w, r)
  \/ \E u \in Users : transfer_project_owner(w, u, r)
  \/ \E role \in MemberRoles :
       update_member_role(w, r, role) \/ \E u \in Users : add_member(w, r, u, role)

Next ==
  \/ archive_project \/ reopen_project
  \/ \E a \in Agents : TokenExpires(a)
  \/ \E w \in Workers :
       \/ Commit(w)
       \/ \E a \in Agents : AgentStep(w, a)
       \/ \E u \in Users : AccountStep(w, u)
       \/ \E r \in Rows : MemberStep(w, r)

Spec == Init /\ [][Next]_vars

(***************************************************************************)
(* Properties                                                              *)
(***************************************************************************)
(* Every variable has its type. *)
TypeOK ==
  /\ user \in [Users -> User]
  /\ owner \in Users /\ open \in BOOLEAN
  /\ member \in [Rows -> Seat \cup {None}]
  /\ agent \in [Agents -> Agent]
  /\ issued \subseteq Tokens /\ dead \subseteq issued /\ granted \subseteq Agents

(* A token that stopped working, because it was cycled, revoked with its agent
   or by a cascade, or expired, never works again: no restore and no new term
   brings it back. *)
DeadTokensStayDead == \A t \in dead : ~Works(t)

(* An agent that no sysadmin vouched for and no reissue revived works only while its creator has a
   place on the project: the creator is not deleted and has a member row.  The
   cascades of remove_member and soft_delete_user are for this. *)
AgentsHaveStanding ==
  \A a \in Agents \ granted :
    (agent[a].status = "active" /\ agent[a].creator # None) =>
      user[agent[a].creator].status # "deleted" /\ Seats(agent[a].creator) # {}

(* The rows of a viewer say read, whatever order of adds, role changes,
   demotions and transfers led there (VF-328). *)
ViewersOnlyRead == \A r \in Rows :
  (member[r] # None /\ user[member[r].user].role = "viewer") => member[r].role = "read"

(* Somebody can always administer: an active super user remains, and the owner
   of the project is one of its members. *)
AuthorityRemains == ActiveSuperUsers # {} /\ Seats(owner) # {}

(* _human_project_role's promise: "For viewers (global role=viewer), the
   per-project role is forced to 'read' regardless of project_member.role".
   (Refuted: README, Disagreements.) *)
ViewerRoleIsRead == \A u \in Users :
  user[u].role = "viewer" => _human_project_role(u) \subseteq {"read"}
=============================================================================
