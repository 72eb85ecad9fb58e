------------------------------ MODULE AccessViews ------------------------------
(***************************************************************************)
(* What the lists and the pickers show of the accounts, seats and agents   *)
(* of Access, and whether the requests that they lead to accept it.        *)
(***************************************************************************)
EXTENDS Access

(***************************************************************************)
(* Members                                                                 *)
(***************************************************************************)
\* A row without an account behind it is left out; active agents need no row.
list_members ==
  [humans |-> {r \in Rows : member[r] # None},
   agents |-> {a \in Agents : agent[a].status = "active"}]

OwnsUnseated == {u \in {owner} : Seats(u) = {}}

\* The seats of a user, and the project of an owner who has none.
user_memberships(u) ==
  {[seat |-> r, role |-> member[r].role, is_owner |-> owner = u] : r \in Seats(u)}
    \cup {[seat |-> None, role |-> "owner", is_owner |-> TRUE] : x \in {u} \cap OwnsUnseated}

Excluded == {u \in Users : Seats(u) # {}} \cup {owner}

addable_users == {u \in Users : user[u].status = "active"} \ Excluded
user_addable_projects(u) == open /\ u \notin Excluded

eligible_new_owners ==
  {u \in Users \ {owner} :
    user[u].status = "active" /\ user[u].role \in {"user", "super_user"} /\ Seats(u) # {}}

\* Whether the project is in the user's sidebar.
_sidebar_projects(u) == open /\ (user[u].role = "super_user" \/ owner = u \/ Seats(u) # {})

\* Whether a read of the project goes through; who has no valid session reads as well.
_check_human_project_access(u) ==
  user[u].status = "active" => user[u].role = "super_user" \/ owner = u \/ Seats(u) # {}

(***************************************************************************)
(* Agents                                                                  *)
(***************************************************************************)
AllAgents == {a \in Agents : agent[a] # Absent}

\* Mutant: an agent is pending when its token has expired.
OutOfTerm(a) == agent[a].expires = "passed"

\* Active, but without a token.
token_pending(a) == agent[a].status = "active" /\ agent[a].hash = None

_serialize_agent_for_portal(a) ==
  [id |-> a, status |-> agent[a].status, token_pending |-> token_pending(a)]

\* list_all_agents shows them all as well.
_build_agents_flat_list == {_serialize_agent_for_portal(a) : a \in AllAgents}

_agents_for_user(u) ==
  LET own == {a \in AllAgents : agent[a].creator = u}
      cards(S) == {_serialize_agent_for_portal(a) : a \in S}
      active == {a \in own : agent[a].status = "active"}
  IN [active |-> cards(active), archive |-> cards(own \ active)]

\* Agents without a creator are left out of the tree.
_build_agents_tree ==
  [u \in {agent[a].creator : a \in AllAgents} \ {None} |-> _agents_for_user(u)]

\* Whom GET /me names: the agent of a token, past its term too, and who may review.
agent_me(t) == {a \in Agents : agent[a].hash = t /\ agent[a].status = "active"}
reviewers == {u \in Users : user[u].status = "active" /\ Seats(u) # {}}

portal_admin_users ==
  [u \in {v \in Users : user[v] # NoUser} |->
    [status |-> user[u].status, agents |-> _agents_for_user(u),
     memberships |-> user_memberships(u), active_su_count |-> Cardinality(ActiveSuperUsers)]]

(***************************************************************************)
(* What the views promise                                                  *)
(***************************************************************************)
(* Lists and pickers agree with each other and with the requests.

   The pickers offer exactly those whom the requests accept: new owners, new
   members (who may at least read) and, for each user, projects.  Every user of
   the sidebar, and every reviewer, has a role that reads it, if only the account
   is active, and the requests that read let the same users through.

   The lists of agents tell the same: the tree shows every agent that has a
   creator, the lists show the same agents as active, and an agent that is
   active and not pending holds a token that works until it expires, and GET /me
   knows no other agent of that token. *)
ListsAgree ==
  /\ open => eligible_new_owners = {u \in Users : \E r \in Rows : MayOwn(u, r)}
  /\ \A u \in addable_users : user[u] # NoUser /\ Seats(u) = {} /\ ViewerOnlyReads(u, "read")
  /\ \A u \in Users : user[u].status = "active" /\ open =>
       /\ user_addable_projects(u) <=> u \in addable_users
       /\ user_addable_projects(u) <=> user_memberships(u) = {}
       /\ _sidebar_projects(u) <=> _human_project_role(u) # {}
       /\ _sidebar_projects(u) <=> _check_human_project_access(u)
  /\ \A u \in reviewers : _human_project_role(u) # {}
  /\ \A a \in AllAgents :
       agent[a].creator # None =>
         LET branch == _build_agents_tree[agent[a].creator]
         IN _serialize_agent_for_portal(a) \in branch.active \cup branch.archive
  /\ UNION {_agents_for_user(u).active \cup _agents_for_user(u).archive : u \in Users}
       \subseteq _build_agents_flat_list
  /\ {c \in _build_agents_flat_list : c.status = "active"}
       = {_serialize_agent_for_portal(a) : a \in list_members.agents}
  /\ \A c \in _build_agents_flat_list :
       LET works == agent[c.id].hash # None /\ Works(agent[c.id].hash)
       IN IF c.status = "active" /\ ~c.token_pending
          THEN /\ works \/ agent[c.id].expires = "passed"
               /\ agent_me(agent[c.id].hash) = {c.id}
          ELSE ~works
================================================================================
