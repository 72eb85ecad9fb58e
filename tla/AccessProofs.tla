----------------------------- MODULE AccessProofs -----------------------------
(***************************************************************************)
(* Proofs about Access and AccessViews.  For any number of requests: the   *)
(* types, that a token is at one place at most, and that the lists agree.  *)
(* For requests that do not overlap: that dead tokens stay dead, that the  *)
(* agents have standing, that viewers only read, that authority remains.   *)
(***************************************************************************)
EXTENDS AccessViews, FiniteSetTheorems, TLAPS

-----------------------------------------------------------------------------
(* What a request may have pending *)

UserChange(c) ==
  /\ DOMAIN c \subseteq {"status", "role"}
  /\ "status" \in DOMAIN c => c["status"] \in {"active", "suspended", "deleted"}
  /\ "role" \in DOMAIN c => c["role"] \in Roles

AgentChange(c) ==
  /\ DOMAIN c \subseteq {"status", "hash", "expires", "creator"}
  /\ "status" \in DOMAIN c => c["status"] \in {"active", "revoked"}
  /\ "hash" \in DOMAIN c => c["hash"] \in Tokens \cup {None}
  /\ "expires" \in DOMAIN c => c["expires"] \in {"never", "later"}
  /\ "creator" \in DOMAIN c => c["creator"] \in Users \cup {None}

SeatChange(c) == DOMAIN c = {"role"} /\ c["role"] \in MemberRoles

Pending(q) ==
  /\ DOMAIN q.users \subseteq Users /\ \A u \in DOMAIN q.users : UserChange(q.users[u])
  /\ DOMAIN q.agents \subseteq Agents /\ \A a \in DOMAIN q.agents : AgentChange(q.agents[a])
  /\ DOMAIN q.seats \subseteq Rows /\ \A r \in DOMAIN q.seats : SeatChange(q.seats[r])
  /\ DOMAIN q.added \subseteq Rows /\ \A r \in DOMAIN q.added : q.added[r] \in Seat
  /\ q.owner \in Users \cup {None} /\ q.grants \subseteq Agents

Typed == TypeOK /\ unit = [w \in Workers |-> unit[w]] /\ \A w \in Workers : Pending(unit[w])

-----------------------------------------------------------------------------
(* Where a token can be *)

\* The token that a request is about to give to an agent.
Given(q, a) == IF a \in DOMAIN q.agents /\ "hash" \in DOMAIN q.agents[a]
               THEN q.agents[a]["hash"] ELSE None

\* The agents, and the requests on their way to one, hold different tokens.
OneHolder ==
  /\ \A a \in Agents : agent[a].hash \in issued \cup {None}
  /\ \A a, b \in Agents : a # b /\ agent[a].hash = agent[b].hash => agent[a].hash = None
  /\ \A w \in Workers, a \in Agents :
       LET t == Given(unit[w], a) IN
       /\ t \in issued \cup {None}
       /\ \A b \in Agents : t = agent[b].hash => t = None
       /\ \A v \in Workers, b \in Agents :
            t = Given(unit[v], b) /\ (v # w \/ b # a) => t = None

-----------------------------------------------------------------------------
(* Requests that do not overlap *)

\* Someone has the row, in the table m.
Seated(m, u) == \E r \in Rows : m[r] # None /\ m[r].user = u

\* If the agent is active, its creator, if any, has a place on the project.
Stands(us, m, row) ==
  (row.status = "active" /\ row.creator # None) =>
    us[row.creator].status # "deleted" /\ Seated(m, row.creator)

\* What the tables, or what they will be after a commit, have to satisfy.
Order(us, ow, m, ag, gr) ==
  /\ \E u \in Users : us[u] = [status |-> "active", role |-> "super_user"]
  /\ Seated(m, ow)
  /\ \A a \in Agents \ gr : Stands(us, m, ag[a])
  /\ \A r \in Rows : m[r] # None =>
       /\ us[m[r].user].status # "none"
       /\ us[m[r].user].role = "viewer" => m[r].role = "read"
  /\ \A u \in Users : us[u].status = "none" => us[u] = NoUser

OwnerAfter(q) == IF q.owner = None THEN owner ELSE q.owner

OrderAfter(q) ==
  Lands(q) /\ Order(Saved(user, q.users), OwnerAfter(q), SeatsAfter(q), Saved(agent, q.agents),
                    granted \cup q.grants)

\* The order of the tables, and that which each pending commit will leave.
Ordered  == Order(user, owner, member, agent, granted)
OrderInv == Ordered /\ \A w \in Workers : OrderAfter(unit[w])

\* A change of agent a that gives no dead token new life.
Harmless(a, c) ==
  /\ "hash" \in DOMAIN c => c["hash"] \notin dead
  /\ "expires" \in DOMAIN c => "hash" \in DOMAIN c
  /\ "status" \in DOMAIN c /\ c["status"] = "revoked" =>
       IF "hash" \in DOMAIN c THEN c["hash"] = None ELSE agent[a].hash = None

DeadInv ==
  /\ \A t \in dead, a \in Agents : agent[a].hash = t => agent[a].expires = "passed"
  /\ \A w \in Workers : \A a \in DOMAIN unit[w].agents : Harmless(a, unit[w].agents[a])

-----------------------------------------------------------------------------
(* What every request asks for *)

\* The request mints one token, or none.
Mints(q) ==
  \/ issued' = issued /\ \A a \in Agents : Given(q, a) = None
  \/ \E t \in Tokens \ issued, b \in Agents :
       /\ issued' = issued \cup {t}
       /\ \A a \in Agents : Given(q, a) = IF a = b THEN t ELSE None

Sound(q) ==
  /\ Pending(q) /\ Mints(q)
  /\ Ordered => OrderAfter(q)
  /\ \A a \in DOMAIN q.agents : Harmless(a, q.agents[a])

-----------------------------------------------------------------------------
(* Rows and changed columns *)

LEMMA OverUser ==
  ASSUME NEW row \in User, NEW c, UserChange(c)
  PROVE  /\ Over(row, c) \in User
         /\ Over(row, c).status = IF "status" \in DOMAIN c THEN c["status"] ELSE row.status
         /\ Over(row, c).role = IF "role" \in DOMAIN c THEN c["role"] ELSE row.role
<1>1. DOMAIN row = {"status", "role"}
  BY DEF User
<1>2. Over(row, c) = [status |-> IF "status" \in DOMAIN c THEN c["status"] ELSE row.status,
                      role   |-> IF "role" \in DOMAIN c THEN c["role"] ELSE row.role]
  BY <1>1 DEF Over
<1> QED BY <1>2 DEF UserChange, User

LEMMA OverAgent ==
  ASSUME NEW row \in Agent, NEW c, AgentChange(c)
  PROVE  /\ Over(row, c) \in Agent
         /\ Over(row, c).status = IF "status" \in DOMAIN c THEN c["status"] ELSE row.status
         /\ Over(row, c).hash = IF "hash" \in DOMAIN c THEN c["hash"] ELSE row.hash
         /\ Over(row, c).expires = IF "expires" \in DOMAIN c THEN c["expires"] ELSE row.expires
         /\ Over(row, c).creator = IF "creator" \in DOMAIN c THEN c["creator"] ELSE row.creator
<1>1. DOMAIN row = {"status", "hash", "expires", "creator"}
  BY DEF Agent
<1>2. Over(row, c) = [status  |-> IF "status" \in DOMAIN c THEN c["status"] ELSE row.status,
                      hash    |-> IF "hash" \in DOMAIN c THEN c["hash"] ELSE row.hash,
                      expires |-> IF "expires" \in DOMAIN c THEN c["expires"] ELSE row.expires,
                      creator |-> IF "creator" \in DOMAIN c THEN c["creator"] ELSE row.creator]
  BY <1>1 DEF Over
<1> QED BY <1>2 DEF AgentChange, Agent

LEMMA OverSeat ==
  ASSUME NEW row \in Seat, NEW c, SeatChange(c)
  PROVE  /\ Over(row, c) \in Seat
         /\ Over(row, c).user = row.user
         /\ Over(row, c).role = c["role"]
<1>1. DOMAIN row = {"user", "role"}
  BY DEF Seat
<1>2. Over(row, c) = [user |-> row.user, role |-> c["role"]]
  BY <1>1 DEF Over, SeatChange
<1> QED BY <1>2 DEF SeatChange, Seat

\* A table after a commit.
LEMMA SavedRows ==
  ASSUME TypeOK, NEW q, Pending(q)
  PROVE  /\ Saved(user, q.users) \in [Users -> User]
         /\ \A u \in Users : Saved(user, q.users)[u] =
              IF u \in DOMAIN q.users THEN Over(user[u], q.users[u]) ELSE user[u]
         /\ Saved(agent, q.agents) \in [Agents -> Agent]
         /\ \A a \in Agents : Saved(agent, q.agents)[a] =
              IF a \in DOMAIN q.agents THEN Over(agent[a], q.agents[a]) ELSE agent[a]
         /\ Lands(q) => SeatsAfter(q) \in [Rows -> Seat \cup {None}]
<1>1. /\ DOMAIN user = Users /\ DOMAIN agent = Agents
      /\ \A u \in Users : user[u] \in User
      /\ \A a \in Agents : agent[a] \in Agent
      /\ \A r \in Rows : member[r] \in Seat \cup {None}
  BY DEF TypeOK
<1>2. \A u \in DOMAIN q.users : u \in Users /\ Over(user[u], q.users[u]) \in User
  BY <1>1, OverUser DEF Pending
<1>3. \A a \in DOMAIN q.agents : a \in Agents /\ Over(agent[a], q.agents[a]) \in Agent
  BY <1>1, OverAgent DEF Pending
<1>4. ASSUME Lands(q), NEW r \in Rows PROVE SeatsAfter(q)[r] \in Seat \cup {None}
  <2>1. r \in DOMAIN q.seats => Over(member[r], q.seats[r]) \in Seat
    BY <1>1, <1>4, OverSeat DEF Pending, Lands
  <2>2. r \in DOMAIN q.added => q.added[r] \in Seat
    BY DEF Pending
  <2> QED BY <1>1, <2>1, <2>2 DEF SeatsAfter
<1>5. Lands(q) => SeatsAfter(q) \in [Rows -> Seat \cup {None}]
  BY <1>4 DEF SeatsAfter
<1>6. /\ Saved(user, q.users) \in [Users -> User]
      /\ \A u \in Users : Saved(user, q.users)[u] =
           IF u \in DOMAIN q.users THEN Over(user[u], q.users[u]) ELSE user[u]
  BY <1>1, <1>2 DEF Saved
<1>7. /\ Saved(agent, q.agents) \in [Agents -> Agent]
      /\ \A a \in Agents : Saved(agent, q.agents)[a] =
           IF a \in DOMAIN q.agents THEN Over(agent[a], q.agents[a]) ELSE agent[a]
  BY <1>1, <1>3 DEF Saved
<1> QED BY <1>5, <1>6, <1>7

LEMMA NothingIs ==
  /\ Nothing.users = NoRows /\ Nothing.agents = NoRows /\ Nothing.seats = NoRows
  /\ Nothing.added = NoRows /\ Nothing.gone = {} /\ Nothing.owner = None /\ Nothing.grants = {}
  /\ DOMAIN NoRows = {}
  BY DEF Nothing, NoRows

LEMMA OneIs ==
  ASSUME NEW k, NEW c
  PROVE  DOMAIN One(k, c) = {k} /\ One(k, c)[k] = c
  BY DEF One

LEMMA SameRows ==
  ASSUME TypeOK
  PROVE  Saved(user, NoRows) = user /\ Saved(agent, NoRows) = agent
  BY DEF TypeOK, Saved, NoRows

LEMMA SameSeats ==
  ASSUME TypeOK, NEW q, q.seats = NoRows, q.added = NoRows, q.gone = {}
  PROVE  Lands(q) /\ SeatsAfter(q) = member
  BY DEF TypeOK, Lands, SeatsAfter, NoRows

\* A request that changes agents only.
AgentsOnly(q, A, G) ==
  /\ q.users = NoRows /\ q.agents = A /\ q.seats = NoRows /\ q.added = NoRows
  /\ q.gone = {} /\ q.owner = None /\ q.grants = G

LEMMA AgentRequest ==
  ASSUME TypeOK, NEW A, NEW G, G \subseteq Agents, NEW q, AgentsOnly(q, A, G), Mints(q),
         \A a \in DOMAIN A : a \in Agents /\ AgentChange(A[a]) /\ Harmless(a, A[a]),
         Ordered => \A a \in DOMAIN A \ (granted \cup G) : Stands(user, member, Over(agent[a], A[a]))
  PROVE  Sound(q)
<1>1. /\ q.users = NoRows /\ q.agents = A /\ q.seats = NoRows /\ q.added = NoRows
      /\ q.gone = {} /\ q.owner = None /\ q.grants = G
  BY DEF AgentsOnly
<1>2. Pending(q)
  BY <1>1, NothingIs DEF Pending
<1>3. ASSUME Ordered PROVE OrderAfter(q)
  <2>1. /\ Saved(user, q.users) = user /\ Lands(q) /\ SeatsAfter(q) = member
        /\ OwnerAfter(q) = owner
    BY <1>1, SameRows, SameSeats DEF OwnerAfter
  <2>2. \A a \in Agents \ (granted \cup G) : Stands(user, member, Saved(agent, q.agents)[a])
    <3> SUFFICES ASSUME NEW a \in Agents \ (granted \cup G)
                 PROVE  Stands(user, member, Saved(agent, q.agents)[a])
      OBVIOUS
    <3>1. \A b \in Agents : Saved(agent, q.agents)[b] =
            IF b \in DOMAIN q.agents THEN Over(agent[b], q.agents[b]) ELSE agent[b]
      BY <1>2, SavedRows
    <3>2. \A b \in Agents \ granted : Stands(user, member, agent[b])
      BY <1>3 DEF Ordered, Order
    <3> QED BY <1>1, <1>3, <3>1, <3>2
  <2> QED BY <1>1, <1>3, <2>1, <2>2 DEF OrderAfter, Ordered, Order
<1> QED BY <1>1, <1>2, <1>3 DEF Sound

\* One agent, which gets a token that was never minted.
LEMMA MintsOne ==
  ASSUME NEW a \in Agents, NEW c, NEW t \in Tokens, Mint(t), c["hash"] = t, "hash" \in DOMAIN c,
         NEW q, q.agents = One(a, c)
  PROVE  Mints(q)
<1>0. DOMAIN q.agents = {a} /\ q.agents[a] = c
  BY OneIs
<1>1. \A b \in Agents : Given(q, b) = IF b = a THEN t ELSE None
  BY <1>0 DEF Given
<1>2. t \in Tokens \ issued /\ issued' = issued \cup {t}
  BY DEF Mint
<1> QED BY <1>1, <1>2 DEF Mints

\* No agent gets a token.
LEMMA MintsNone ==
  ASSUME issued' = issued, NEW q,
         \A a \in DOMAIN q.agents : "hash" \in DOMAIN q.agents[a] => q.agents[a]["hash"] = None
  PROVE  Mints(q)
  BY DEF Mints, Given

-----------------------------------------------------------------------------
(* The requests, one by one *)

LEMMA DeadAreTokens ==
  ASSUME TypeOK
  PROVE  dead \subseteq issued /\ issued \subseteq Tokens /\ None \notin dead
  BY AccessAssumption DEF TypeOK

\* A new agent.
LEMMA Birth ==
  ASSUME TypeOK, NEW a \in Agents, NEW h \in Tokens \cup {None}, h \notin dead,
         NEW e \in {"never", "later"}, NEW u \in Users \cup {None}, NEW G, G \subseteq {a}, NEW q,
         AgentsOnly(q, One(a, NewAgent(h, e, u)), G), Mints(q),
         Ordered => G = {a} \/ u = None \/ (user[u].status # "deleted" /\ Seated(member, u))
  PROVE  Sound(q)
<1> DEFINE c == NewAgent(h, e, u)
<1>1. /\ c = [status |-> "active", hash |-> h, expires |-> e, creator |-> u]
      /\ DOMAIN c = {"status", "hash", "expires", "creator"}
      /\ c["status"] = "active" /\ c["hash"] = h /\ c["expires"] = e /\ c["creator"] = u
  BY DEF NewAgent
<1> HIDE DEF c
<1>2. AgentChange(c) /\ Harmless(a, c)
  BY <1>1 DEF AgentChange, Harmless
<1>3. agent[a] \in Agent
  BY DEF TypeOK
<1>4. Ordered => G = {a} \/ Stands(user, member, Over(agent[a], c))
  BY <1>1, <1>2, <1>3, OverAgent DEF Stands
<1>5. DOMAIN One(a, c) = {a} /\ One(a, c)[a] = c
  BY OneIs
<1>6. AgentsOnly(q, One(a, c), G)
  BY DEF c
<1> QED BY <1>2, <1>4, <1>5, <1>6, AgentRequest

\* Another change of one agent: the creator stays, and only a restore makes it active.
LEMMA Change ==
  ASSUME TypeOK, NEW a \in Agents, NEW c, AgentChange(c), Harmless(a, c), "creator" \notin DOMAIN c,
         NEW G, G \subseteq {a}, NEW q, AgentsOnly(q, One(a, c), G), Mints(q),
         G = {a} \/ "status" \notin DOMAIN c \/ c["status"] = "revoked"
  PROVE  Sound(q)
<1>1. agent[a] \in Agent
  BY DEF TypeOK
<1>2. Ordered => a \in granted \/ Stands(user, member, agent[a])
  BY DEF Ordered, Order
<1>3. Ordered => a \in granted \/ G = {a} \/ Stands(user, member, Over(agent[a], c))
  BY <1>1, <1>2, OverAgent DEF Stands
<1>4. DOMAIN One(a, c) = {a} /\ One(a, c)[a] = c
  BY OneIs
<1> QED BY <1>3, <1>4, AgentRequest

LEMMA AgentsOnlyIs ==
  ASSUME NEW A, NEW G
  PROVE  /\ AgentsOnly([Nothing EXCEPT !.agents = A, !.grants = G], A, G)
         /\ AgentsOnly([Nothing EXCEPT !.agents = A], A, {})
  BY DEF Nothing, AgentsOnly

LEMMA NoHashIs ==
  ASSUME TypeOK, NEW a \in Agents
  PROVE  /\ DOMAIN NoHash(a) = IF agent[a].hash = None THEN {} ELSE {"hash"}
         /\ "hash" \in DOMAIN NoHash(a) => NoHash(a)["hash"] = None
  BY DEF NoHash, NoRows

\* The revocation of agent a, by itself or with others.
Revokes(a, c) ==
  /\ AgentChange(c) /\ Harmless(a, c) /\ "creator" \notin DOMAIN c
  /\ "status" \in DOMAIN c /\ c["status"] = "revoked"
  /\ "hash" \in DOMAIN c => c["hash"] = None

LEMMA RevokedIs ==
  ASSUME TypeOK, NEW S, S \subseteq Agents
  PROVE  DOMAIN Revoked(S) = S /\ \A a \in S : Revokes(a, Revoked(S)[a])
<1>1. DOMAIN Revoked(S) = S
  BY DEF Revoked
<1>2. ASSUME NEW a \in S, NEW c, c = Revoked(S)[a] PROVE Revokes(a, c)
  <2>1. /\ DOMAIN c = {"status"} \cup DOMAIN NoHash(a)
        /\ \A k \in DOMAIN c : c[k] = IF k = "status" THEN "revoked" ELSE None
    BY <1>2 DEF Revoked
  <2>2. /\ DOMAIN c = IF agent[a].hash = None THEN {"status"} ELSE {"status", "hash"}
        /\ c["status"] = "revoked"
        /\ "hash" \in DOMAIN c => c["hash"] = None
    BY <2>1, NoHashIs
  <2>3. AgentChange(c)
    BY <2>2 DEF AgentChange
  <2>4. Harmless(a, c)
    BY <2>2, DeadAreTokens DEF Harmless
  <2> QED BY <2>2, <2>3, <2>4 DEF Revokes
<1> QED BY <1>1, <1>2

LEMMA Fresh ==
  ASSUME TypeOK, NEW t \in Tokens, Mint(t)
  PROVE  t \notin dead
  BY DeadAreTokens DEF Mint

LEMMA CreateRequest ==
  ASSUME TypeOK, NEW w \in Workers, NEW a \in Agents,
         \/ create_agent(w, a)
         \/ \E u \in Users, t \in Tokens : user_create_agent(w, a, t, u) \/ admin_create_agent(w, a, t, u)
  PROVE  \E q : Decide(w, q) /\ Sound(q)
<1>1. CASE create_agent(w, a)
  <2> DEFINE q == [Nothing EXCEPT !.agents = One(a, NewAgent(None, "never", None))]
  <2>1. Decide(w, q) /\ issued' = issued
    BY <1>1 DEF create_agent
  <2>2. AgentsOnly(q, One(a, NewAgent(None, "never", None)), {})
    BY AgentsOnlyIs
  <2> HIDE DEF q
  <2>3. Mints(q)
    <3>1. DOMAIN q.agents = {a} /\ q.agents[a]["hash"] = None
      <4>1. q.agents = One(a, NewAgent(None, "never", None))
        BY <2>2 DEF AgentsOnly
      <4>2. DOMAIN q.agents = {a} /\ q.agents[a] = NewAgent(None, "never", None)
        BY <4>1, OneIs
      <4> QED BY <4>2 DEF NewAgent
    <3> QED BY <2>1, <3>1, MintsNone
  <2>4. Sound(q)
    BY <2>2, <2>3, Birth, DeadAreTokens
  <2> QED BY <2>1, <2>4
<1>2. ASSUME NEW u \in Users, NEW t \in Tokens, user_create_agent(w, a, t, u)
      PROVE  \E q : Decide(w, q) /\ Sound(q)
  <2> DEFINE G == {x \in {a} : "su" \in _human_project_role(u)}
  <2>1. PICK e \in {"never", "later"} :
          Decide(w, [Nothing EXCEPT !.agents = One(a, NewAgent(t, e, u)), !.grants = G])
    BY <1>2 DEF user_create_agent
  <2> DEFINE q == [Nothing EXCEPT !.agents = One(a, NewAgent(t, e, u)), !.grants = G]
  <2>2. AgentsOnly(q, One(a, NewAgent(t, e, u)), G)
    BY AgentsOnlyIs
  <2>3. Mint(t) /\ MayWrite(u) /\ Decide(w, q)
    BY <1>2, <2>1 DEF user_create_agent
  <2>4. Ordered => G = {a} \/ (user[u].status # "deleted" /\ Seated(member, u))
    <3>1. user[u].status = "active"
      BY <2>3 DEF MayWrite, _human_project_role
    <3>2. ASSUME "su" \notin _human_project_role(u), owner # u PROVE Seated(member, u)
      BY <2>3, <3>1, <3>2 DEF MayWrite, _human_project_role, Seats, Seated
    <3>3. Ordered => Seated(member, owner)
      BY DEF Ordered, Order
    <3> QED BY <3>1, <3>2, <3>3
  <2> HIDE DEF q, G
  <2>5. Mints(q)
    BY <2>2, <2>3, MintsOne DEF AgentsOnly, NewAgent
  <2>6. Sound(q)
    BY <2>2, <2>3, <2>4, <2>5, Birth, Fresh DEF G
  <2> QED BY <2>3, <2>6
<1>3. ASSUME NEW u \in Users, NEW t \in Tokens, admin_create_agent(w, a, t, u)
      PROVE  \E q : Decide(w, q) /\ Sound(q)
  <2> DEFINE q == [Nothing EXCEPT !.agents = One(a, NewAgent(t, "later", u)), !.grants = {a}]
  <2>1. Decide(w, q) /\ Mint(t)
    BY <1>3 DEF admin_create_agent
  <2>2. AgentsOnly(q, One(a, NewAgent(t, "later", u)), {a})
    BY AgentsOnlyIs
  <2> HIDE DEF q
  <2>3. Mints(q)
    BY <2>1, <2>2, MintsOne DEF AgentsOnly, NewAgent
  <2>4. Sound(q)
    BY <2>1, <2>2, <2>3, Birth, Fresh
  <2> QED BY <2>1, <2>4
<1> QED BY <1>1, <1>2, <1>3

\* A fresh token, with or without a new term, and with or without a new status.
LEMMA TokenRequest ==
  ASSUME TypeOK, NEW a \in Agents, NEW t \in Tokens, Mint(t), NEW c, NEW G, G \subseteq {a}, NEW q,
         AgentsOnly(q, One(a, c), G),
         \/ c = [hash |-> t, expires |-> "later"]
         \/ c = [hash |-> t]
         \/ c = [hash |-> t, status |-> "active"] /\ G = {a}
  PROVE  Sound(q)
<1>1. /\ "hash" \in DOMAIN c /\ c["hash"] = t /\ "creator" \notin DOMAIN c
      /\ DOMAIN c \subseteq {"hash", "expires", "status"}
      /\ "expires" \in DOMAIN c => c["expires"] = "later"
      /\ "status" \in DOMAIN c => c["status"] = "active" /\ G = {a}
  OBVIOUS
<1>2. AgentChange(c) /\ Harmless(a, c)
  BY <1>1, Fresh DEF AgentChange, Harmless
<1>3. Mints(q)
  BY <1>1, MintsOne DEF AgentsOnly
<1> QED BY <1>1, <1>2, <1>3, Change

\* No token: a status, or a hash taken away.
LEMMA PlainRequest ==
  ASSUME TypeOK, NEW a \in Agents, issued' = issued, NEW c, AgentChange(c), Harmless(a, c),
         "creator" \notin DOMAIN c, "hash" \in DOMAIN c => c["hash"] = None,
         NEW G, G \subseteq {a}, G = {a} \/ "status" \notin DOMAIN c \/ c["status"] = "revoked",
         NEW q, AgentsOnly(q, One(a, c), G)
  PROVE  Sound(q)
<1>1. DOMAIN q.agents = {a} /\ q.agents[a] = c
  BY OneIs DEF AgentsOnly
<1>2. Mints(q)
  BY <1>1, MintsNone
<1> QED BY <1>2, Change

LEMMA ReissueRequest ==
  ASSUME TypeOK, NEW w \in Workers, NEW a \in Agents, NEW t \in Tokens,
         \/ Cycle(w, a, t)
         \/ issue_agent_token(w, a, t)
         \/ \E u \in Users : onboard_wizard_reissue_token(w, a, t, u)
  PROVE  \E q : Decide(w, q) /\ Sound(q)
<1>1. CASE Cycle(w, a, t)
  <2> DEFINE c == [hash |-> t, expires |-> "later"]
             q == [Nothing EXCEPT !.agents = One(a, c)]
  <2>1. Decide(w, q) /\ Mint(t)
    BY <1>1 DEF Cycle
  <2>2. AgentsOnly(q, One(a, c), {})
    BY AgentsOnlyIs
  <2> HIDE DEF q
  <2> QED BY <2>1, <2>2, TokenRequest
<1>2. CASE issue_agent_token(w, a, t)
  <2> DEFINE c == [hash |-> t]
             q == [Nothing EXCEPT !.agents = One(a, c)]
  <2>1. Decide(w, q) /\ Mint(t)
    BY <1>2 DEF issue_agent_token
  <2>2. AgentsOnly(q, One(a, c), {})
    BY AgentsOnlyIs
  <2> HIDE DEF q
  <2> QED BY <2>1, <2>2, TokenRequest
<1>3. ASSUME NEW u \in Users, onboard_wizard_reissue_token(w, a, t, u)
      PROVE  \E q : Decide(w, q) /\ Sound(q)
  <2> DEFINE G == {x \in {a} : agent[x].status = "revoked"}
             c == IF G = {} THEN [hash |-> t] ELSE [hash |-> t, status |-> "active"]
             q == [Nothing EXCEPT !.agents = One(a, c), !.grants = G]
  <2>1. Decide(w, q) /\ Mint(t)
    BY <1>3 DEF onboard_wizard_reissue_token
  <2>2. AgentsOnly(q, One(a, c), G)
    BY AgentsOnlyIs
  <2>3. G = {} \/ G = {a}
    OBVIOUS
  <2> HIDE DEF q, G
  <2>4. c = [hash |-> t] \/ (c = [hash |-> t, status |-> "active"] /\ G = {a})
    <3>1. G = {} => c = [hash |-> t]
      OBVIOUS
    <3>2. G # {} => c = [hash |-> t, status |-> "active"]
      OBVIOUS
    <3> HIDE DEF c
    <3> QED BY <2>3, <3>1, <3>2
  <2> HIDE DEF c
  <2> QED BY <2>1, <2>2, <2>3, <2>4, TokenRequest
<1> QED BY <1>1, <1>2, <1>3

LEMMA StatusRequest ==
  ASSUME TypeOK, NEW w \in Workers, NEW a \in Agents,
         revoke_agent_token(w, a) \/ Revoke(w, a) \/ Restore(w, a)
  PROVE  \E q : Decide(w, q) /\ Sound(q)
<1>1. CASE revoke_agent_token(w, a)
  <2>1. Decide(w, [Nothing EXCEPT !.agents = One(a, NoHash(a))]) /\ issued' = issued
    BY <1>1 DEF revoke_agent_token
  <2>2. AgentChange(NoHash(a)) /\ Harmless(a, NoHash(a))
    BY NoHashIs, DeadAreTokens DEF AgentChange, Harmless
  <2>3. Sound([Nothing EXCEPT !.agents = One(a, NoHash(a))])
    BY <2>1, <2>2, NoHashIs, AgentsOnlyIs, PlainRequest
  <2> QED BY <2>1, <2>3
<1>2. CASE Revoke(w, a)
  <2>1. Decide(w, [Nothing EXCEPT !.agents = Revoked({a})]) /\ issued' = issued
    BY <1>2 DEF Revoke
  <2>2. Revokes(a, Revoked({a})[a])
    BY RevokedIs
  <2>3. Revoked({a}) = One(a, Revoked({a})[a])
    BY DEF Revoked, One
  <2>4. AgentsOnly([Nothing EXCEPT !.agents = Revoked({a})], One(a, Revoked({a})[a]), {})
    BY <2>3, AgentsOnlyIs
  <2>5. Sound([Nothing EXCEPT !.agents = Revoked({a})])
    BY <2>1, <2>2, <2>4, PlainRequest DEF Revokes
  <2> QED BY <2>1, <2>5
<1>3. CASE Restore(w, a)
  <2> DEFINE c == [status |-> "active"]
  <2>1. Decide(w, [Nothing EXCEPT !.agents = One(a, c), !.grants = {a}]) /\ issued' = issued
    BY <1>3 DEF Restore
  <2>2. AgentChange(c) /\ Harmless(a, c) /\ DOMAIN c = {"status"}
    BY DEF AgentChange, Harmless
  <2> HIDE DEF c
  <2>3. Sound([Nothing EXCEPT !.agents = One(a, c), !.grants = {a}])
    BY <2>1, <2>2, AgentsOnlyIs, PlainRequest
  <2> QED BY <2>1, <2>3
<1> QED BY <1>1, <1>2, <1>3

LEMMA AgentRequests ==
  ASSUME TypeOK, NEW w \in Workers, NEW a \in Agents, AgentStep(w, a)
  PROVE  \E q : Decide(w, q) /\ Sound(q)
<1>1. CASE \/ create_agent(w, a)
           \/ \E u \in Users, t \in Tokens : user_create_agent(w, a, t, u) \/ admin_create_agent(w, a, t, u)
  BY <1>1, CreateRequest
<1>2. CASE \E t \in Tokens : \/ cycle_agent_token(w, a, t) \/ issue_agent_token(w, a, t)
                             \/ \E u \in Users : \/ user_cycle_agent(w, a, t, u)
                                                 \/ onboard_wizard_reissue_token(w, a, t, u)
  BY <1>2, ReissueRequest DEF cycle_agent_token, user_cycle_agent
<1>3. CASE \/ revoke_agent_token(w, a) \/ portal_agent_revoke_token(w, a)
           \/ revoke_agent(w, a) \/ restore_agent(w, a)
           \/ \E u \in Users : user_revoke_agent(w, a, u) \/ user_restore_agent(w, a, u)
  BY <1>3, StatusRequest DEF portal_agent_revoke_token, revoke_agent, restore_agent,
                             user_revoke_agent, user_restore_agent
<1> QED BY <1>1, <1>2, <1>3 DEF AgentStep

\* Without the guard, or for one who is not an active super user, another one remains.
LEMMA OtherSuperUser ==
  ASSUME TypeOK, Ordered, NEW u \in Users, u \notin ActiveSuperUsers \/ ~LastSuperUser(u)
  PROVE  \E v \in Users \ {u} : user[v] = [status |-> "active", role |-> "super_user"]
<1>1. ActiveSuperUsers # {} /\ ActiveSuperUsers \subseteq Users
  BY DEF Ordered, Order, ActiveSuperUsers
<1>2. IsFiniteSet(ActiveSuperUsers) /\ Cardinality(ActiveSuperUsers) \in Nat
  BY <1>1, AccessAssumption, FS_Subset, FS_CardinalityType
<1>3. ASSUME ActiveSuperUsers = {u} PROVE FALSE
  <2>1. user[u].role = "super_user"
    BY <1>3 DEF ActiveSuperUsers
  <2>2. Cardinality(ActiveSuperUsers) = 1
    BY <1>3, FS_Singleton
  <2> QED BY <1>2, <1>3, <2>1, <2>2 DEF LastSuperUser
<1>4. PICK v \in ActiveSuperUsers : v # u
  BY <1>1, <1>3
<1> QED BY <1>1, <1>4 DEF ActiveSuperUsers

\* A request that changes one account, and perhaps its agents and its rows.
AccountOnly(q, u, c, A, D) ==
  /\ q.users = One(u, c) /\ q.agents = A /\ q.seats = D /\ q.added = NoRows
  /\ q.gone = {} /\ q.owner = None /\ q.grants = {}

LEMMA OneAccount ==
  ASSUME NEW q, NEW u, NEW c, q.users = One(u, c)
  PROVE  DOMAIN q.users = {u} /\ q.users[u] = c
  BY OneIs

LEMMA ReadRows ==
  ASSUME TypeOK, NEW q, q.added = NoRows, q.gone = {},
         NEW D, q.seats = D, \A r \in DOMAIN D : r \in Rows /\ member[r] # None /\ SeatChange(D[r])
  PROVE  /\ Lands(q)
         /\ \A r \in Rows : /\ SeatsAfter(q)[r] = None <=> member[r] = None
                            /\ member[r] # None => SeatsAfter(q)[r].user = member[r].user
                            /\ member[r] # None => SeatsAfter(q)[r].role =
                                 IF r \in DOMAIN D THEN D[r]["role"] ELSE member[r].role
         /\ \A u : Seated(SeatsAfter(q), u) <=> Seated(member, u)
<1>1. Lands(q)
  BY DEF Lands
<1>2. \A r \in Rows : SeatsAfter(q)[r] = IF r \in DOMAIN D THEN Over(member[r], D[r]) ELSE member[r]
  BY NothingIs DEF SeatsAfter
<1>3. \A r \in Rows : member[r] # None => member[r] \in Seat
  BY DEF TypeOK
<1>4. \A r \in DOMAIN D : /\ Over(member[r], D[r]) \in Seat
                          /\ Over(member[r], D[r]).user = member[r].user
                          /\ Over(member[r], D[r]).role = D[r]["role"]
  BY <1>3, OverSeat
<1>5. None \notin Seat
  BY NoneAssumption
<1>6. \A r \in Rows : /\ SeatsAfter(q)[r] = None <=> member[r] = None
                      /\ member[r] # None => SeatsAfter(q)[r].user = member[r].user
                      /\ member[r] # None => SeatsAfter(q)[r].role =
                           IF r \in DOMAIN D THEN D[r]["role"] ELSE member[r].role
  BY <1>2, <1>3, <1>4, <1>5
<1>7. \A u : Seated(SeatsAfter(q), u) <=> Seated(member, u)
  BY <1>6 DEF Seated
<1> QED BY <1>1, <1>6, <1>7

\* Rows of u that are set to read.
Demotes(u, D) == \A r \in DOMAIN D : r \in Seats(u) /\ D[r] = [role |-> "read"]

\* A change of an account that the order survives.
Allowed(u, c, A, D) ==
  LET new == Over(user[u], c) IN
  /\ new.status # "none"
  /\ \/ new = [status |-> "active", role |-> "super_user"]
     \/ \E v \in Users \ {u} : user[v] = [status |-> "active", role |-> "super_user"]
  /\ new.status = "deleted" => A = Revoked(ActiveAgentsOf(u)) \/ user[u].status = "deleted"
  /\ new.role = "viewer" =>
       \/ user[u].role = "viewer" \/ user[u].status = "none"
       \/ \A r \in Seats(u) : r \in DOMAIN D \/ member[r].role = "read"

LEMMA AccountRequest ==
  ASSUME TypeOK, issued' = issued, NEW u \in Users, NEW c, UserChange(c), NEW A, NEW D, NEW q,
         AccountOnly(q, u, c, A, D), Demotes(u, D),
         A = NoRows \/ A = Revoked(ActiveAgentsOf(u)),
         Ordered => Allowed(u, c, A, D)
  PROVE  Sound(q)
<1>1. /\ q.users = One(u, c) /\ q.agents = A /\ q.seats = D /\ q.added = NoRows
      /\ q.gone = {} /\ q.owner = None /\ q.grants = {}
  BY DEF AccountOnly
<1>0. q.users = One(u, c)
  BY <1>1
<1>2. /\ DOMAIN A \subseteq ActiveAgentsOf(u) /\ ActiveAgentsOf(u) \subseteq Agents
      /\ \A a \in DOMAIN A : Revokes(a, A[a])
  BY NothingIs, RevokedIs DEF ActiveAgentsOf
<1>3. \A r \in DOMAIN D : /\ r \in Rows /\ member[r] # None /\ member[r].user = u
                          /\ SeatChange(D[r]) /\ D[r]["role"] = "read"
  BY DEF Demotes, Seats, SeatChange, MemberRoles
<1>4. Pending(q)
  <2>1. DOMAIN q.users = {u} /\ q.users[u] = c
    BY <1>0, OneAccount
  <2>2. DOMAIN q.added = {}
    BY <1>1, NothingIs
  <2>3. \A a \in DOMAIN A : AgentChange(A[a])
    BY <1>2 DEF Revokes
  <2> QED BY <1>1, <1>2, <1>3, <2>1, <2>2, <2>3 DEF Pending
<1>5. Mints(q)
  BY <1>1, <1>2, MintsNone DEF Revokes
<1>6. \A a \in DOMAIN q.agents : Harmless(a, q.agents[a])
  BY <1>1, <1>2 DEF Revokes
<1>7. ASSUME Ordered PROVE OrderAfter(q)
  <2> DEFINE new == Over(user[u], c)
             us  == Saved(user, q.users)
             m   == SeatsAfter(q)
             ag  == Saved(agent, q.agents)
  <2>1. \A v \in Users : us[v] = IF v = u THEN new ELSE user[v]
    <3>1. DOMAIN q.users = {u} /\ q.users[u] = c
      BY <1>0, OneAccount
    <3>2. \A v \in Users : us[v] = IF v \in DOMAIN q.users THEN Over(user[v], q.users[v]) ELSE user[v]
      BY <1>4, SavedRows
    <3> HIDE DEF us
    <3> QED BY <3>1, <3>2
  <2>2. /\ Lands(q)
        /\ \A r \in Rows : /\ m[r] = None <=> member[r] = None
                           /\ member[r] # None => m[r].user = member[r].user
                           /\ member[r] # None => m[r].role =
                                IF r \in DOMAIN D THEN D[r]["role"] ELSE member[r].role
        /\ \A v : Seated(m, v) <=> Seated(member, v)
    BY <1>1, <1>3, ReadRows
  <2>3. \A r \in Rows : member[r] # None => member[r].user \in Users
    BY DEF TypeOK, Seat
  <2>4. /\ new.status # "none"
        /\ \/ new = [status |-> "active", role |-> "super_user"]
           \/ \E v \in Users \ {u} : user[v] = [status |-> "active", role |-> "super_user"]
        /\ new.status = "deleted" => A = Revoked(ActiveAgentsOf(u)) \/ user[u].status = "deleted"
        /\ new.role = "viewer" =>
             \/ user[u].role = "viewer" \/ user[u].status = "none"
             \/ \A r \in Seats(u) : r \in DOMAIN D \/ member[r].role = "read"
    BY <1>7 DEF Allowed
  <2> HIDE DEF new, us, m, ag
  <2>5. \E v \in Users : us[v] = [status |-> "active", role |-> "super_user"]
    BY <2>1, <2>4
  <2>6. OwnerAfter(q) = owner /\ Seated(m, owner)
    BY <1>1, <1>7, <2>2 DEF OwnerAfter, Ordered, Order
  <2>7. ASSUME NEW a \in Agents \ granted PROVE Stands(us, m, ag[a])
    <3>1. ag[a] = IF a \in DOMAIN A THEN Over(agent[a], A[a]) ELSE agent[a]
      BY <1>1, <1>4, SavedRows DEF ag
    <3>2. CASE a \in DOMAIN A
      <4>1. agent[a] \in Agent /\ AgentChange(A[a]) /\ "status" \in DOMAIN A[a] /\ A[a]["status"] = "revoked"
        BY <1>2, <3>2 DEF TypeOK, Revokes
      <4>2. ag[a].status = "revoked"
        BY <3>1, <3>2, <4>1, OverAgent
      <4> QED BY <4>2 DEF Stands
    <3>3. CASE a \notin DOMAIN A
      <4>1. ag[a] = agent[a] /\ Stands(user, member, agent[a]) /\ agent[a].creator \in Users \cup {None}
        BY <1>7, <3>1, <3>3 DEF Ordered, Order, TypeOK, Agent
      <4>2. agent[a].creator = u /\ agent[a].status = "active" => A # Revoked(ActiveAgentsOf(u))
        BY <3>3, RevokedIs DEF ActiveAgentsOf
      <4> QED BY <2>1, <2>2, <2>4, <4>1, <4>2 DEF Stands
    <3> QED BY <3>2, <3>3
  <2>8. ASSUME NEW r \in Rows, m[r] # None
        PROVE  us[m[r].user].status # "none" /\ (us[m[r].user].role = "viewer" => m[r].role = "read")
    <3>1. /\ member[r] # None /\ m[r].user = member[r].user /\ member[r].user \in Users
          /\ m[r].role = IF r \in DOMAIN D THEN D[r]["role"] ELSE member[r].role
      BY <2>2, <2>3, <2>8
    <3>2. /\ user[member[r].user].status # "none"
          /\ user[member[r].user].role = "viewer" => member[r].role = "read"
      BY <1>7, <3>1 DEF Ordered, Order
    <3>3. member[r].user = u => r \in Seats(u)
      BY <3>1 DEF Seats
    <3> QED BY <1>3, <2>1, <2>4, <3>1, <3>2, <3>3
  <2>9. \A v \in Users : us[v].status = "none" => us[v] = NoUser
    BY <1>7, <2>1, <2>4 DEF Ordered, Order
  <2>10. granted \cup q.grants = granted
    BY <1>1
  <2> QED BY <2>2, <2>5, <2>6, <2>7, <2>8, <2>9, <2>10 DEF OrderAfter, Order, us, m, ag
<1> QED BY <1>4, <1>5, <1>6, <1>7 DEF Sound

LEMMA AccountOnlyIs ==
  ASSUME NEW u, NEW c, NEW A, NEW D
  PROVE  /\ AccountOnly([Nothing EXCEPT !.users = One(u, c)], u, c, NoRows, NoRows)
         /\ AccountOnly([Nothing EXCEPT !.users = One(u, c), !.agents = A], u, c, A, NoRows)
         /\ AccountOnly([Nothing EXCEPT !.users = One(u, c), !.seats = D], u, c, NoRows, D)
         /\ Demotes(u, NoRows)
  BY DEF Nothing, AccountOnly, Demotes, NoRows

LEMMA CreateUser ==
  ASSUME TypeOK, NEW w \in Workers, NEW u \in Users, NEW role \in Roles, create_user(w, u, role)
  PROVE  \E q : Decide(w, q) /\ Sound(q)
<1> DEFINE c == [status |-> "active", role |-> role]
           q == [Nothing EXCEPT !.users = One(u, c)]
<1>1. Decide(w, q) /\ issued' = issued /\ user[u] = NoUser
  BY DEF create_user
<1>2. AccountOnly(q, u, c, NoRows, NoRows) /\ Demotes(u, NoRows)
  BY AccountOnlyIs
<1>3. UserChange(c)
  BY DEF UserChange
<1>4. Over(user[u], c).status = "active"
  BY <1>3, OverUser DEF TypeOK
<1>5. user[u].status = "none" /\ u \notin ActiveSuperUsers
  BY <1>1 DEF NoUser, ActiveSuperUsers
<1>6. Ordered => Allowed(u, c, NoRows, NoRows)
  BY <1>4, <1>5, OtherSuperUser DEF Allowed
<1> HIDE DEF q, c
<1>7. Sound(q)
  BY <1>1, <1>2, <1>3, <1>6, AccountRequest
<1> QED BY <1>1, <1>7

\* The status of an account that there is.
LEMMA StatusOfUser ==
  ASSUME TypeOK, NEW w \in Workers, NEW u \in Users, NEW status \in {"active", "suspended"},
         SetStatus(w, u, status),
         user[u].status # "none", user[u].status # "active" \/ ~LastSuperUser(u)
  PROVE  \E q : Decide(w, q) /\ Sound(q)
<1> DEFINE c == [status |-> status]
           q == [Nothing EXCEPT !.users = One(u, c)]
<1>1. Decide(w, q) /\ issued' = issued
  BY DEF SetStatus
<1>2. AccountOnly(q, u, c, NoRows, NoRows) /\ Demotes(u, NoRows)
  BY AccountOnlyIs
<1>3. UserChange(c)
  BY DEF UserChange
<1>4. Over(user[u], c).status = status /\ Over(user[u], c).role = user[u].role
  BY <1>3, OverUser DEF TypeOK
<1>5. u \notin ActiveSuperUsers \/ ~LastSuperUser(u)
  BY DEF ActiveSuperUsers
<1>6. Ordered => Allowed(u, c, NoRows, NoRows)
  BY <1>4, <1>5, OtherSuperUser DEF Allowed
<1> HIDE DEF q, c
<1>7. Sound(q)
  BY <1>1, <1>2, <1>3, <1>6, AccountRequest
<1> QED BY <1>1, <1>7

LEMMA DeleteUser ==
  ASSUME TypeOK, NEW w \in Workers, NEW u \in Users, soft_delete_user(w, u)
  PROVE  \E q : Decide(w, q) /\ Sound(q)
<1> DEFINE c == [status |-> "deleted"]
           A == Revoked(ActiveAgentsOf(u))
           q == [Nothing EXCEPT !.users = One(u, c), !.agents = A]
<1>1. Decide(w, q) /\ issued' = issued /\ ~LastSuperUser(u) /\ user[u].status # "none"
  BY DEF soft_delete_user
<1>2. AccountOnly(q, u, c, A, NoRows) /\ Demotes(u, NoRows)
  BY AccountOnlyIs
<1>3. UserChange(c)
  BY DEF UserChange
<1>4. Over(user[u], c).status = "deleted" /\ Over(user[u], c).role = user[u].role
  BY <1>3, OverUser DEF TypeOK
<1>5. Ordered => Allowed(u, c, A, NoRows)
  BY <1>1, <1>4, OtherSuperUser DEF Allowed
<1>6. A = Revoked(ActiveAgentsOf(u))
  OBVIOUS
<1> HIDE DEF q, c, A
<1>7. Sound(q)
  BY <1>1, <1>2, <1>3, <1>5, <1>6, AccountRequest
<1> QED BY <1>1, <1>7

LEMMA ChangeRole ==
  ASSUME TypeOK, NEW w \in Workers, NEW u \in Users, NEW role \in Roles, change_user_role(w, u, role)
  PROVE  \E q : Decide(w, q) /\ Sound(q)
<1> DEFINE down == {r \in Seats(u) : role = "viewer" /\ user[u].role # "viewer" /\ member[r].role # "read"}
           c == [role |-> role]
           D == [r \in down |-> [role |-> "read"]]
           q == [Nothing EXCEPT !.users = One(u, c), !.seats = D]
<1>1. /\ Decide(w, q) /\ issued' = issued /\ user[u] # NoUser
      /\ role # "super_user" => ~LastSuperUser(u)
  BY DEF change_user_role
<1>2. AccountOnly(q, u, c, NoRows, D) /\ Demotes(u, D)
  BY AccountOnlyIs DEF Demotes
<1>3. UserChange(c)
  BY DEF UserChange
<1>4. Over(user[u], c).status = user[u].status /\ Over(user[u], c).role = role /\ Over(user[u], c) \in User
  BY <1>3, OverUser DEF TypeOK
<1>5. role = "viewer" => user[u].role = "viewer" \/ \A r \in Seats(u) : r \in DOMAIN D \/ member[r].role = "read"
  OBVIOUS
<1>6. Ordered => Allowed(u, c, NoRows, D)
  <2> SUFFICES ASSUME Ordered PROVE Allowed(u, c, NoRows, D)
    OBVIOUS
  <2> HIDE DEF D, c, q
  <2>1. user[u].status # "none"
    BY <1>1 DEF Ordered, Order
  <2>2. u \in ActiveSuperUsers /\ role = "super_user" =>
          Over(user[u], c) = [status |-> "active", role |-> "super_user"]
    BY <1>4 DEF ActiveSuperUsers, User
  <2>3. \/ Over(user[u], c) = [status |-> "active", role |-> "super_user"]
        \/ \E v \in Users \ {u} : user[v] = [status |-> "active", role |-> "super_user"]
    BY <1>1, <2>2, OtherSuperUser
  <2>4. Over(user[u], c).status = "deleted" => user[u].status = "deleted"
    BY <1>4
  <2> QED BY <1>4, <1>5, <2>1, <2>3, <2>4 DEF Allowed
<1> HIDE DEF q, c, D
<1>7. Sound(q)
  BY <1>1, <1>2, <1>3, <1>6, AccountRequest
<1> QED BY <1>1, <1>7

LEMMA AccountRequests ==
  ASSUME TypeOK, NEW w \in Workers, NEW u \in Users, AccountStep(w, u)
  PROVE  \E q : Decide(w, q) /\ Sound(q)
<1>1. CASE soft_delete_user(w, u)
  BY <1>1, DeleteUser
<1>2. CASE suspend_user(w, u) \/ unsuspend_user(w, u) \/ restore_user(w, u)
  BY <1>2, StatusOfUser DEF suspend_user, unsuspend_user, restore_user
<1>3. CASE \E role \in Roles : create_user(w, u, role) \/ change_user_role(w, u, role)
  BY <1>3, CreateUser, ChangeRole
<1> QED BY <1>1, <1>2, <1>3 DEF AccountStep

\* A request that changes rows, and perhaps the owner or the agents of a member.
MemberOnly(q, A, D, N, G, ow) ==
  /\ q.users = NoRows /\ q.agents = A /\ q.seats = D /\ q.added = N
  /\ q.gone = G /\ q.owner = ow /\ q.grants = {}

\* Rows that the order survives: m are those to be, A the agents revoked with them.
Welcome(m, ow, A) ==
  /\ Seated(m, ow)
  /\ \A v \in Users : Seated(member, v) => Seated(m, v) \/ A = Revoked(ActiveAgentsOf(v))
  /\ \A r \in Rows : m[r] # None =>
       /\ user[m[r].user].status # "none"
       /\ user[m[r].user].role = "viewer" => m[r].role = "read"

LEMMA MemberRequest ==
  ASSUME TypeOK, issued' = issued, NEW A, NEW D, NEW N, NEW G, NEW ow \in Users \cup {None}, NEW q,
         MemberOnly(q, A, D, N, G, ow),
         A = NoRows \/ \E S \in SUBSET Agents : A = Revoked(S),
         \A r \in DOMAIN D : r \in Rows /\ SeatChange(D[r]),
         \A r \in DOMAIN N : r \in Rows /\ N[r] \in Seat,
         Lands(q),
         Ordered => Welcome(SeatsAfter(q), OwnerAfter(q), A)
  PROVE  Sound(q)
<1>1. /\ q.users = NoRows /\ q.agents = A /\ q.seats = D /\ q.added = N
      /\ q.gone = G /\ q.owner = ow /\ q.grants = {}
  BY DEF MemberOnly
<1>2. DOMAIN A \subseteq Agents /\ \A a \in DOMAIN A : Revokes(a, A[a])
  BY NothingIs, RevokedIs
<1>3. Pending(q)
  BY <1>1, <1>2, NothingIs DEF Pending, Revokes
<1>4. Mints(q)
  BY <1>1, <1>2, MintsNone DEF Revokes
<1>5. \A a \in DOMAIN q.agents : Harmless(a, q.agents[a])
  BY <1>1, <1>2 DEF Revokes
<1>6. ASSUME Ordered PROVE OrderAfter(q)
  <2> DEFINE m  == SeatsAfter(q)
             ag == Saved(agent, q.agents)
  <2>1. Saved(user, q.users) = user
    BY <1>1, SameRows
  <2>2. Welcome(m, OwnerAfter(q), A)
    BY <1>6
  <2>3. \A a \in Agents : ag[a] = IF a \in DOMAIN A THEN Over(agent[a], A[a]) ELSE agent[a]
    BY <1>1, <1>3, SavedRows
  <2> HIDE DEF m, ag
  <2>4. ASSUME NEW a \in Agents \ granted PROVE Stands(user, m, ag[a])
    <3>1. CASE a \in DOMAIN A
      <4>1. agent[a] \in Agent /\ AgentChange(A[a]) /\ "status" \in DOMAIN A[a] /\ A[a]["status"] = "revoked"
        BY <1>2, <3>1 DEF TypeOK, Revokes
      <4>2. ag[a].status = "revoked"
        BY <2>3, <3>1, <4>1, OverAgent
      <4> QED BY <4>2 DEF Stands
    <3>2. CASE a \notin DOMAIN A
      <4>1. ag[a] = agent[a] /\ Stands(user, member, agent[a]) /\ agent[a].creator \in Users \cup {None}
        BY <1>6, <2>3, <3>2 DEF Ordered, Order, TypeOK, Agent
      <4>2. \A v \in Users : agent[a].creator = v /\ agent[a].status = "active" =>
                               A # Revoked(ActiveAgentsOf(v))
        BY <3>2, RevokedIs DEF ActiveAgentsOf
      <4> QED BY <2>2, <4>1, <4>2 DEF Stands, Welcome
    <3> QED BY <3>1, <3>2
  <2>5. granted \cup q.grants = granted
    BY <1>1
  <2>6. \E u \in Users : user[u] = [status |-> "active", role |-> "super_user"]
    BY <1>6 DEF Ordered, Order
  <2>7. \A u \in Users : user[u].status = "none" => user[u] = NoUser
    BY <1>6 DEF Ordered, Order
  <2> QED BY <2>1, <2>2, <2>4, <2>5, <2>6, <2>7 DEF OrderAfter, Order, Welcome, m, ag
<1> QED BY <1>3, <1>4, <1>5, <1>6 DEF Sound

LEMMA MemberOnlyIs ==
  ASSUME NEW A, NEW D, NEW N, NEW G, NEW u
  PROVE  /\ MemberOnly([Nothing EXCEPT !.added = N], NoRows, NoRows, N, {}, None)
         /\ MemberOnly([Nothing EXCEPT !.seats = D], NoRows, D, NoRows, {}, None)
         /\ MemberOnly([Nothing EXCEPT !.gone = G, !.agents = A], A, NoRows, NoRows, G, None)
         /\ MemberOnly([Nothing EXCEPT !.owner = u, !.seats = D], NoRows, D, NoRows, {}, u)
  BY DEF Nothing, MemberOnly

LEMMA RowsAre ==
  ASSUME TypeOK, NEW r \in Rows, member[r] # None
  PROVE  member[r] \in Seat /\ member[r].user \in Users /\ member[r].role \in MemberRoles
  BY DEF TypeOK, Seat

LEMMA OrderedRows ==
  ASSUME TypeOK, Ordered
  PROVE  /\ Seated(member, owner) /\ owner \in Users
         /\ \A r \in Rows : member[r] # None =>
              /\ user[member[r].user].status # "none"
              /\ user[member[r].user].role = "viewer" => member[r].role = "read"
         /\ \A u \in Users : user[u] # NoUser => user[u].status # "none"
  BY DEF Ordered, Order, TypeOK

LEMMA AddMember ==
  ASSUME TypeOK, NEW w \in Workers, NEW r \in Rows, NEW u \in Users, NEW role \in MemberRoles,
         add_member(w, r, u, role)
  PROVE  \E q : Decide(w, q) /\ Sound(q)
<1> DEFINE N == One(r, [user |-> u, role |-> role])
           q == [Nothing EXCEPT !.added = N]
<1>1. /\ Decide(w, q) /\ issued' = issued /\ user[u] # NoUser /\ ViewerOnlyReads(u, role)
      /\ member[r] = None
  BY DEF add_member, NewRow
<1>2. MemberOnly(q, NoRows, NoRows, N, {}, None)
  BY MemberOnlyIs
<1>3. DOMAIN N = {r} /\ N[r] = [user |-> u, role |-> role] /\ N[r] \in Seat
  <2>1. [user |-> u, role |-> role] \in Seat
    BY DEF Seat
  <2> DEFINE c == [user |-> u, role |-> role]
  <2>2. c \in Seat
    BY <2>1
  <2>3. N = One(r, c)
    OBVIOUS
  <2> HIDE DEF c, N, q
  <2>4. DOMAIN N = {r} /\ N[r] = c
    BY <2>3, OneIs
  <2> QED BY <2>2, <2>4 DEF c
<1> HIDE DEF q, N
<1>4. /\ Lands(q) /\ OwnerAfter(q) = owner
      /\ \A x \in Rows : SeatsAfter(q)[x] = IF x = r THEN N[r] ELSE member[x]
  BY <1>2, <1>3, NothingIs DEF MemberOnly, Lands, OwnerAfter, SeatsAfter
<1>5. \A v : Seated(member, v) => Seated(SeatsAfter(q), v)
  BY <1>1, <1>4 DEF Seated
<1>6. Ordered => Welcome(SeatsAfter(q), OwnerAfter(q), NoRows)
  BY <1>1, <1>3, <1>4, <1>5, OrderedRows DEF Welcome, ViewerOnlyReads
<1>7. Sound(q)
  <2>1. \A x \in DOMAIN N : x \in Rows /\ N[x] \in Seat
    BY <1>3
  <2>2. DOMAIN NoRows = {}
    BY NothingIs
  <2> QED BY <1>1, <1>2, <1>4, <1>6, <2>1, <2>2, MemberRequest
<1> QED BY <1>1, <1>7

LEMMA UpdateMember ==
  ASSUME TypeOK, NEW w \in Workers, NEW r \in Rows, NEW role \in MemberRoles,
         update_member_role(w, r, role)
  PROVE  \E q : Decide(w, q) /\ Sound(q)
<1> DEFINE D == One(r, [role |-> role])
           q == [Nothing EXCEPT !.seats = D]
<1>1. /\ Decide(w, q) /\ issued' = issued /\ member[r] # None
      /\ ViewerOnlyReads(member[r].user, role)
  BY DEF update_member_role
<1>2. MemberOnly(q, NoRows, D, NoRows, {}, None)
  BY MemberOnlyIs
<1>3. DOMAIN D = {r} /\ D[r]["role"] = role /\ SeatChange(D[r])
  <2> DEFINE c == [role |-> role]
  <2>1. SeatChange(c) /\ c["role"] = role
    BY DEF SeatChange
  <2>2. D = One(r, c)
    OBVIOUS
  <2> HIDE DEF c, D, q
  <2>3. DOMAIN D = {r} /\ D[r] = c
    BY <2>2, OneIs
  <2> QED BY <2>1, <2>3
<1> HIDE DEF q, D
<1>4. /\ q.seats = D /\ q.added = NoRows /\ q.gone = {} /\ OwnerAfter(q) = owner
      /\ \A x \in DOMAIN D : x \in Rows /\ member[x] # None /\ SeatChange(D[x])
  BY <1>1, <1>2, <1>3 DEF MemberOnly, OwnerAfter
<1>5. Ordered => Welcome(SeatsAfter(q), OwnerAfter(q), NoRows)
  BY <1>1, <1>3, <1>4, ReadRows, OrderedRows DEF Welcome, ViewerOnlyReads
<1>6. Sound(q)
  BY <1>1, <1>2, <1>3, <1>4, <1>5, NothingIs, ReadRows, MemberRequest
<1> QED BY <1>1, <1>6

LEMMA RemoveMember ==
  ASSUME TypeOK, NEW w \in Workers, NEW r \in Rows, remove_member(w, r)
  PROVE  \E q : Decide(w, q) /\ Sound(q)
<1> DEFINE A == Revoked(ActiveAgentsOf(member[r].user))
           q == [Nothing EXCEPT !.gone = {r}, !.agents = A]
<1>1. /\ Decide(w, q) /\ issued' = issued /\ member[r] # None /\ member[r].user # owner
  BY DEF remove_member
<1>2. MemberOnly(q, A, NoRows, NoRows, {r}, None)
  BY MemberOnlyIs
<1>3. \E S \in SUBSET Agents : A = Revoked(S)
  BY DEF ActiveAgentsOf
<1>4. \A v : v = member[r].user => A = Revoked(ActiveAgentsOf(v))
  OBVIOUS
<1> HIDE DEF q, A
<1>5. /\ Lands(q) /\ OwnerAfter(q) = owner
      /\ \A x \in Rows : SeatsAfter(q)[x] = IF x = r THEN None ELSE member[x]
  BY <1>2, NothingIs DEF MemberOnly, Lands, OwnerAfter, SeatsAfter
<1>6. \A v : v # member[r].user /\ Seated(member, v) => Seated(SeatsAfter(q), v)
  BY <1>5 DEF Seated
<1>7. Ordered => Welcome(SeatsAfter(q), OwnerAfter(q), A)
  BY <1>1, <1>4, <1>5, <1>6, OrderedRows DEF Welcome
<1>8. Sound(q)
  BY <1>1, <1>2, <1>3, <1>5, <1>7, NothingIs, MemberRequest
<1> QED BY <1>1, <1>8

LEMMA TransferOwner ==
  ASSUME TypeOK, NEW w \in Workers, NEW r \in Rows, NEW u \in Users, transfer_project_owner(w, u, r)
  PROVE  \E q : Decide(w, q) /\ Sound(q)
<1> DEFINE D == [x \in {y \in {r} : member[y].role # "admin"} |-> [role |-> "admin"]]
           q == [Nothing EXCEPT !.owner = u, !.seats = D]
<1>1. /\ Decide(w, q) /\ issued' = issued /\ user[u].role # "viewer" /\ r \in Seats(u)
  BY DEF transfer_project_owner, MayOwn
<1>2. MemberOnly(q, NoRows, D, NoRows, {}, u)
  BY MemberOnlyIs
<1>3. DOMAIN D \subseteq {r} /\ \A x \in DOMAIN D : SeatChange(D[x])
  BY DEF SeatChange, MemberRoles
<1> HIDE DEF q, D
<1>4. /\ q.seats = D /\ q.added = NoRows /\ q.gone = {} /\ OwnerAfter(q) = u
      /\ member[r] # None /\ member[r].user = u
      /\ \A x \in DOMAIN D : x \in Rows /\ member[x] # None /\ SeatChange(D[x])
  BY <1>1, <1>2, <1>3, AccessAssumption DEF MemberOnly, OwnerAfter, Seats
<1>5. Seated(member, u)
  BY <1>4 DEF Seated
<1>6. Ordered => Welcome(SeatsAfter(q), OwnerAfter(q), NoRows)
  BY <1>1, <1>3, <1>4, <1>5, ReadRows, OrderedRows DEF Welcome
<1>7. Sound(q)
  BY <1>1, <1>2, <1>3, <1>4, <1>6, NothingIs, ReadRows, MemberRequest
<1> QED BY <1>1, <1>7

LEMMA MemberRequests ==
  ASSUME TypeOK, NEW w \in Workers, NEW r \in Rows, MemberStep(w, r)
  PROVE  \E q : Decide(w, q) /\ Sound(q)
  BY AddMember, UpdateMember, RemoveMember, TransferOwner DEF MemberStep

\* What a step can be.
LEMMA Steps ==
  ASSUME TypeOK, Next
  PROVE  \/ archive_project \/ reopen_project
         \/ \E a \in Agents : TokenExpires(a)
         \/ \E w \in Workers : Commit(w)
         \/ \E w \in Workers : \E q : Decide(w, q) /\ Sound(q)
  BY AgentRequests, AccountRequests, MemberRequests DEF Next

-----------------------------------------------------------------------------
(* Any number of requests: types, and tokens at one place *)

BaseInv == Typed /\ OneHolder

LEMMA NothingPends == Pending(Nothing) /\ \A a : Given(Nothing, a) = None
  BY NothingIs DEF Pending, Given

\* A new project has at most one agent, whose creator has the row of an admin.
LEMMA FirstAgents ==
  ASSUME Init
  PROVE  /\ issued \subseteq Tokens
         /\ \/ \A a \in Agents : agent[a] = Absent
            \/ \E a \in Agents, t \in issued :
                 \A x \in Agents : agent[x] = IF x = a THEN NewAgent(t, "never", owner) ELSE Absent
         /\ agent = [a \in Agents |-> agent[a]]
<1>1. PICK u \in Users :
        /\ owner = u
        /\ create_project \/ \E a \in Agents, t \in Tokens : onboard_wizard_commit(u, a, t)
  BY DEF Init
<1>2. CASE create_project
  BY <1>2 DEF create_project
<1>3. ASSUME NEW a \in Agents, NEW t \in Tokens, onboard_wizard_commit(owner, a, t)
      PROVE  /\ issued \subseteq Tokens /\ t \in issued
             /\ \A x \in Agents : agent[x] = IF x = a THEN NewAgent(t, "never", owner) ELSE Absent
             /\ agent = [x \in Agents |-> agent[x]]
  BY <1>3 DEF onboard_wizard_commit
<1> QED BY <1>1, <1>2, <1>3

LEMMA BaseInit == Init => BaseInv
<1> SUFFICES ASSUME Init PROVE BaseInv
  OBVIOUS
<1>1. Absent \in Agent /\ Absent.hash = None /\ NoUser \in User
  BY DEF Absent, Agent, NoUser, User, Roles
<1>2. \A u \in Users : user[u] \in User
  BY <1>1 DEF Init, User
<1>3. \A t \in Tokens, u \in Users : NewAgent(t, "never", u) \in Agent /\ NewAgent(t, "never", u).hash = t
  BY DEF NewAgent, Agent
<1>4. /\ issued \subseteq Tokens
      /\ \A a \in Agents : agent[a] \in Agent /\ agent[a].hash \in issued \cup {None}
      /\ \A a, b \in Agents : a # b /\ agent[a].hash = agent[b].hash => agent[a].hash = None
  <2>1. owner \in Users
    BY DEF Init
  <2>2. ASSUME NEW a \in Agents, NEW t \in issued,
               \A x \in Agents : agent[x] = IF x = a THEN NewAgent(t, "never", owner) ELSE Absent
        PROVE  /\ \A x \in Agents : agent[x] \in Agent /\ agent[x].hash \in issued \cup {None}
               /\ \A x, y \in Agents : x # y /\ agent[x].hash = agent[y].hash => agent[x].hash = None
    <3>1. NewAgent(t, "never", owner) \in Agent /\ NewAgent(t, "never", owner).hash = t
      BY <1>3, <2>1, FirstAgents
    <3>2. t # None
      BY FirstAgents, AccessAssumption
    <3> QED BY <1>1, <2>2, <3>1, <3>2
  <2> QED BY <1>1, <2>2, FirstAgents
<1>5. TypeOK
  <2>1. agent \in [Agents -> Agent]
    BY <1>4, FirstAgents
  <2> QED BY <1>1, <1>2, <1>4, <2>1 DEF Init, TypeOK, Seat, MemberRoles, User
<1>6. Typed
  BY <1>5, NothingPends DEF Init, Typed
<1>7. OneHolder
  BY <1>4, NothingPends DEF Init, OneHolder
<1> QED BY <1>6, <1>7 DEF BaseInv

\* Only tokens that were minted work.
LEMMA WorkingIsIssued ==
  ASSUME BaseInv, NEW t \in Tokens, Works(t)
  PROVE  t \in issued
  BY AccessAssumption DEF BaseInv, OneHolder, Works

LEMMA BuryTypes ==
  ASSUME BaseInv, Bury
  PROVE  dead' \subseteq issued
  BY WorkingIsIssued DEF Bury, BaseInv, Typed, TypeOK

LEMMA BaseDecide ==
  ASSUME BaseInv, NEW w \in Workers, NEW q, Decide(w, q), Sound(q)
  PROVE  BaseInv'
<1>1. /\ UNCHANGED <<user, owner, open, member, agent, dead, granted>>
      /\ unit' = [unit EXCEPT ![w] = q] /\ Pending(q) /\ Mints(q)
  BY DEF Decide, tables, Sound
<1>2. /\ unit' = [v \in Workers |-> unit'[v]]
      /\ \A v \in Workers : unit'[v] = IF v = w THEN q ELSE unit[v]
  BY <1>1 DEF BaseInv, Typed
<1>3. issued \subseteq issued' /\ issued' \subseteq Tokens
  BY <1>1 DEF Mints, BaseInv, Typed, TypeOK
<1>4. TypeOK'
  BY <1>1, <1>3 DEF BaseInv, Typed, TypeOK
<1>5. Typed'
  BY <1>1, <1>2, <1>4 DEF BaseInv, Typed, Pending
<1>6. \A a \in Agents : Given(q, a) # None => Given(q, a) \in issued' \ issued
  BY <1>1 DEF Mints
<1>7. \A a, b \in Agents : Given(q, a) = Given(q, b) /\ a # b => Given(q, a) = None
  BY <1>1, AccessAssumption DEF Mints
<1>8. None \notin issued'
  BY <1>3, AccessAssumption
<1>9. OneHolder'
  <2>1. \A a \in Agents : agent[a].hash \in issued \cup {None}
    BY DEF BaseInv, OneHolder
  <2>2. \A v \in Workers, a \in Agents : Given(unit[v], a) \in issued \cup {None}
    BY DEF BaseInv, OneHolder
  <2>3. \A a, b \in Agents : a # b /\ agent'[a].hash = agent'[b].hash => agent'[a].hash = None
    BY <1>1 DEF BaseInv, OneHolder
  <2>4. \A v \in Workers, a, b \in Agents :
          Given(unit'[v], a) = agent'[b].hash => Given(unit'[v], a) = None
    BY <1>1, <1>2, <1>6, <2>1 DEF BaseInv, OneHolder
  <2>5. \A v, x \in Workers, a, b \in Agents :
          Given(unit'[v], a) = Given(unit'[x], b) /\ (x # v \/ b # a) => Given(unit'[v], a) = None
    <3> SUFFICES ASSUME NEW v \in Workers, NEW x \in Workers, NEW a \in Agents, NEW b \in Agents,
                        Given(unit'[v], a) = Given(unit'[x], b), x # v \/ b # a
                 PROVE  Given(unit'[v], a) = None
      OBVIOUS
    <3>1. CASE v # w /\ x # w
      BY <1>2, <3>1 DEF BaseInv, OneHolder
    <3>2. CASE v = w /\ x = w
      BY <1>2, <1>7, <3>2
    <3>3. CASE v = w /\ x # w
      BY <1>2, <1>6, <2>2, <3>3
    <3>4. CASE v # w /\ x = w
      BY <1>2, <1>6, <2>2, <3>4
    <3> QED BY <3>1, <3>2, <3>3, <3>4
  <2>6. \A v \in Workers, a \in Agents : Given(unit'[v], a) \in issued' \cup {None}
    BY <1>2, <1>3, <1>6, <2>2
  <2> QED BY <1>1, <1>3, <2>1, <2>3, <2>4, <2>5, <2>6 DEF OneHolder
<1> QED BY <1>5, <1>9 DEF BaseInv

\* What a commit does to the agents: a hash stays, or is the one that the request gives.
LEMMA CommitHashes ==
  ASSUME Typed, NEW w \in Workers, Commit(w)
  PROVE  /\ TypeOK' \/ ~(dead' \subseteq issued)
         /\ issued' = issued
         /\ unit' = [v \in Workers |-> IF v = w THEN Nothing ELSE unit[v]]
         /\ \A a \in Agents : agent'[a].hash \in {agent[a].hash, Given(unit[w], a)}
<1>1. Pending(unit[w]) /\ TypeOK
  BY DEF Typed
<1>2. /\ issued' = issued /\ open' = open
      /\ unit' = [v \in Workers |-> IF v = w THEN Nothing ELSE unit[v]]
  BY DEF Commit, Typed
<1>3. CASE ~Lands(unit[w])
  <2>1. UNCHANGED <<user, agent, member, owner, granted>>
    BY <1>3 DEF Commit
  <2> QED BY <1>1, <1>2, <2>1 DEF TypeOK
<1>4. CASE Lands(unit[w])
  <2>1. /\ user' = Saved(user, unit[w].users) /\ agent' = Saved(agent, unit[w].agents)
        /\ member' = SeatsAfter(unit[w])
        /\ owner' = IF unit[w].owner = None THEN owner ELSE unit[w].owner
        /\ granted' = granted \cup unit[w].grants
    BY <1>4 DEF Commit, Write
  <2>2. /\ user' \in [Users -> User] /\ agent' \in [Agents -> Agent]
        /\ member' \in [Rows -> Seat \cup {None}]
        /\ \A a \in Agents : agent'[a] =
             IF a \in DOMAIN unit[w].agents THEN Over(agent[a], unit[w].agents[a]) ELSE agent[a]
    BY <1>1, <1>4, <2>1, SavedRows
  <2>3. owner' \in Users /\ granted' \subseteq Agents
    BY <1>1, <2>1 DEF Pending, TypeOK
  <2>4. ASSUME NEW a \in Agents PROVE agent'[a].hash \in {agent[a].hash, Given(unit[w], a)}
    <3>1. CASE a \in DOMAIN unit[w].agents
      <4>1. agent[a] \in Agent /\ AgentChange(unit[w].agents[a])
        BY <1>1, <3>1 DEF TypeOK, Pending
      <4> QED BY <2>2, <3>1, <4>1, OverAgent DEF Given
    <3>2. CASE a \notin DOMAIN unit[w].agents
      BY <2>2, <3>2
    <3> QED BY <3>1, <3>2
  <2> QED BY <1>1, <1>2, <2>2, <2>3, <2>4 DEF TypeOK
<1> QED BY <1>3, <1>4

LEMMA BaseCommit ==
  ASSUME BaseInv, NEW w \in Workers, Commit(w)
  PROVE  BaseInv'
<1>1. /\ TypeOK' /\ issued' = issued
      /\ unit' = [v \in Workers |-> IF v = w THEN Nothing ELSE unit[v]]
      /\ \A a \in Agents : agent'[a].hash \in {agent[a].hash, Given(unit[w], a)}
  BY CommitHashes, BuryTypes DEF BaseInv, Commit
<1>2. Typed'
  BY <1>1, NothingPends DEF BaseInv, Typed, Pending
<1>3. \A v \in Workers, a \in Agents : Given(unit'[v], a) = IF v = w THEN None ELSE Given(unit[v], a)
  BY <1>1, NothingPends
<1>4. \A a \in Agents : agent'[a].hash \in issued' \cup {None}
  BY <1>1 DEF BaseInv, OneHolder
<1>5. ASSUME NEW a \in Agents, NEW b \in Agents, a # b, agent'[a].hash = agent'[b].hash
      PROVE  agent'[a].hash = None
  <2>1. agent[a].hash = agent[b].hash => agent[a].hash = None
    BY <1>5 DEF BaseInv, OneHolder
  <2>2. Given(unit[w], a) = agent[b].hash => Given(unit[w], a) = None
    BY DEF BaseInv, OneHolder
  <2>3. Given(unit[w], b) = agent[a].hash => Given(unit[w], b) = None
    BY DEF BaseInv, OneHolder
  <2>4. Given(unit[w], a) = Given(unit[w], b) => Given(unit[w], a) = None
    BY <1>5 DEF BaseInv, OneHolder
  <2> QED BY <1>1, <1>5, <2>1, <2>2, <2>3, <2>4
<1>6. ASSUME NEW v \in Workers, NEW a \in Agents
      PROVE  LET t == Given(unit'[v], a) IN
             /\ t \in issued' \cup {None}
             /\ \A b \in Agents : t = agent'[b].hash => t = None
             /\ \A x \in Workers, b \in Agents :
                  t = Given(unit'[x], b) /\ (x # v \/ b # a) => t = None
  <2>1. CASE v = w
    BY <1>3, <2>1
  <2>2. CASE v # w
    <3>1. Given(unit'[v], a) = Given(unit[v], a)
      BY <1>3, <2>2
    <3>2. \A b \in Agents : /\ Given(unit[v], a) = agent[b].hash => Given(unit[v], a) = None
                            /\ Given(unit[v], a) = Given(unit[w], b) => Given(unit[v], a) = None
      BY <2>2 DEF BaseInv, OneHolder
    <3>3. \A x \in Workers, b \in Agents : 
            Given(unit[v], a) = Given(unit[x], b) /\ (x # v \/ b # a) => Given(unit[v], a) = None
      BY DEF BaseInv, OneHolder
    <3>4. Given(unit[v], a) \in issued \cup {None}
      BY DEF BaseInv, OneHolder
    <3> QED BY <1>1, <1>3, <3>1, <3>2, <3>3, <3>4
  <2> QED BY <2>1, <2>2
<1>7. OneHolder'
  BY <1>4, <1>5, <1>6 DEF OneHolder
<1> QED BY <1>2, <1>7 DEF BaseInv

LEMMA BaseExpires ==
  ASSUME BaseInv, NEW a \in Agents, TokenExpires(a)
  PROVE  BaseInv'
<1>1. /\ agent' = [agent EXCEPT ![a].expires = "passed"]
      /\ UNCHANGED <<user, owner, open, member, issued, unit, granted>>
      /\ dead' \subseteq issued
  BY BuryTypes DEF TokenExpires
<1>2. [agent[a] EXCEPT !.expires = "passed"] \in Agent
  BY DEF BaseInv, Typed, TypeOK, Agent
<1>3. agent' \in [Agents -> Agent] /\ \A b \in Agents : agent'[b].hash = agent[b].hash
  BY <1>1, <1>2 DEF BaseInv, Typed, TypeOK, Agent
<1>4. Typed'
  BY <1>1, <1>3 DEF BaseInv, Typed, TypeOK, Pending
<1>5. OneHolder'
  BY <1>1, <1>3 DEF BaseInv, OneHolder
<1> QED BY <1>4, <1>5 DEF BaseInv

LEMMA BaseStep == BaseInv /\ [Next]_vars => BaseInv'
<1> SUFFICES ASSUME BaseInv, [Next]_vars PROVE BaseInv'
  OBVIOUS
<1>1. CASE UNCHANGED <<user, owner, member, agent, issued, unit, dead, granted>> /\ open' \in BOOLEAN
  BY <1>1 DEF BaseInv, Typed, TypeOK, OneHolder, Pending
<1>2. CASE UNCHANGED vars
  BY <1>1, <1>2 DEF vars, tables, BaseInv, Typed, TypeOK
<1>3. CASE Next
  <2>1. TypeOK
    BY DEF BaseInv, Typed
  <2>2. CASE archive_project \/ reopen_project
    BY <1>1, <2>2 DEF archive_project, reopen_project
  <2> QED BY <1>3, <2>1, <2>2, Steps, BaseExpires, BaseCommit, BaseDecide
<1> QED BY <1>2, <1>3

LEMMA BaseHolds == Spec => []BaseInv
  BY BaseInit, BaseStep, PTL DEF Spec

\* Accounts, rows, agents and tokens keep their types, whatever requests overlap:
\* above all, a commit writes changed columns over rows that there are, and what
\* no longer works was minted.
THEOREM TypeCorrect == Spec => []TypeOK
<1>1. BaseInv => TypeOK
  BY DEF BaseInv, Typed
<1> QED BY <1>1, BaseHolds, PTL

\* Whatever requests overlap, no two agents hold the same token, so that the
\* lookup by hash of _resolve_actor finds one agent.
THEOREM TokensAreUnique ==
  Spec => [](\A a, b \in Agents : a # b /\ agent[a].hash = agent[b].hash => agent[a].hash = None)
<1>1. BaseInv => \A a, b \in Agents : a # b /\ agent[a].hash = agent[b].hash => agent[a].hash = None
  BY DEF BaseInv, OneHolder
<1> QED BY <1>1, BaseHolds, PTL

-----------------------------------------------------------------------------
(* The lists and the pickers *)

LEMMA SeatsAre ==
  ASSUME TypeOK, NEW u
  PROVE  Seats(u) \subseteq Rows /\ \A r \in Seats(u) : member[r] # None /\ member[r].user = u
  BY DEF Seats

LEMMA RolesOfReaders ==
  ASSUME TypeOK, open, NEW u \in Users, user[u].status = "active"
  PROVE  _sidebar_projects(u) <=> _human_project_role(u) # {}
  BY DEF _sidebar_projects, _human_project_role

\* A read is let through for those whose sidebar has the project.
LEMMA ReadersPass ==
  ASSUME open, NEW u \in Users, user[u].status = "active"
  PROVE  _sidebar_projects(u) <=> _check_human_project_access(u)
  BY DEF _sidebar_projects, _check_human_project_access

LEMMA ReviewersRead ==
  ASSUME TypeOK, NEW u \in reviewers
  PROVE  _human_project_role(u) # {}
  BY SeatsAre DEF reviewers, _human_project_role

LEMMA PickersAgree ==
  ASSUME TypeOK
  PROVE  /\ open => eligible_new_owners = {u \in Users : \E r \in Rows : MayOwn(u, r)}
         /\ \A u \in addable_users : user[u] # NoUser /\ Seats(u) = {} /\ ViewerOnlyReads(u, "read")
         /\ \A u \in Users : user[u].status = "active" /\ open =>
              /\ user_addable_projects(u) <=> u \in addable_users
              /\ user_addable_projects(u) <=> user_memberships(u) = {}
              /\ _sidebar_projects(u) <=> _human_project_role(u) # {}
              /\ _sidebar_projects(u) <=> _check_human_project_access(u)
         /\ \A u \in reviewers : _human_project_role(u) # {}
<1>1. ASSUME open PROVE eligible_new_owners = {u \in Users : \E r \in Rows : MayOwn(u, r)}
  <2>1. ASSUME NEW u \in Users
        PROVE  u \in eligible_new_owners <=> \E r \in Rows : MayOwn(u, r)
    <3>1. user[u].role \in {"user", "super_user"} <=> user[u].role # "viewer"
      BY DEF TypeOK, User, Roles
    <3>2. Seats(u) # {} <=> \E r \in Rows : r \in Seats(u)
      BY SeatsAre
    <3> QED BY <1>1, <3>1, <3>2 DEF eligible_new_owners, MayOwn
  <2> QED BY <2>1 DEF eligible_new_owners
<1>2. ASSUME NEW u \in addable_users
      PROVE  user[u] # NoUser /\ Seats(u) = {} /\ ViewerOnlyReads(u, "read")
  BY DEF addable_users, Excluded, NoUser, ViewerOnlyReads
<1>3. ASSUME NEW u \in Users, user[u].status = "active", open
      PROVE  /\ user_addable_projects(u) <=> u \in addable_users
             /\ user_addable_projects(u) <=> user_memberships(u) = {}
  <2>1. user_addable_projects(u) <=> u \in addable_users
    BY <1>3 DEF user_addable_projects, addable_users
  <2>2. user_memberships(u) = {} <=> Seats(u) = {} /\ u \notin OwnsUnseated
    BY DEF user_memberships
  <2> QED BY <1>3, <2>1, <2>2 DEF user_addable_projects, Excluded, OwnsUnseated
<1> QED BY <1>1, <1>2, <1>3, RolesOfReaders, ReadersPass, ReviewersRead

\* What an agent looks like in the lists.
LEMMA CardOf ==
  ASSUME NEW a
  PROVE  LET card == _serialize_agent_for_portal(a) IN
         /\ card.id = a /\ card.status = agent[a].status
         /\ card.token_pending <=> agent[a].status = "active" /\ agent[a].hash = None
  BY DEF _serialize_agent_for_portal, token_pending

LEMMA ActiveIsBorn ==
  ASSUME NEW a \in Agents, agent[a].status = "active"
  PROVE  a \in AllAgents
  BY DEF AllAgents, Absent

LEMMA AgentListsAgree ==
  ASSUME BaseInv
  PROVE  /\ \A a \in AllAgents :
              agent[a].creator # None =>
                LET branch == _build_agents_tree[agent[a].creator]
                IN _serialize_agent_for_portal(a) \in branch.active \cup branch.archive
         /\ UNION {_agents_for_user(u).active \cup _agents_for_user(u).archive : u \in Users}
              \subseteq _build_agents_flat_list
         /\ {c \in _build_agents_flat_list : c.status = "active"}
              = {_serialize_agent_for_portal(a) : a \in list_members.agents}
<1>1. ASSUME NEW u
      PROVE  /\ _agents_for_user(u).active \cup _agents_for_user(u).archive
                  = {_serialize_agent_for_portal(a) : a \in {b \in AllAgents : agent[b].creator = u}}
  BY DEF _agents_for_user
<1>2. ASSUME NEW a \in AllAgents, agent[a].creator # None
      PROVE  LET branch == _build_agents_tree[agent[a].creator]
             IN _serialize_agent_for_portal(a) \in branch.active \cup branch.archive
  <2>1. _build_agents_tree[agent[a].creator] = _agents_for_user(agent[a].creator)
    BY <1>2 DEF _build_agents_tree
  <2> QED BY <1>1, <2>1
<1>3. UNION {_agents_for_user(u).active \cup _agents_for_user(u).archive : u \in Users}
        \subseteq _build_agents_flat_list
  BY <1>1 DEF _build_agents_flat_list
<1>4. {c \in _build_agents_flat_list : c.status = "active"}
        = {_serialize_agent_for_portal(a) : a \in list_members.agents}
  <2>1. list_members.agents = {a \in AllAgents : agent[a].status = "active"}
    BY ActiveIsBorn DEF list_members, AllAgents
  <2> QED BY <2>1, CardOf DEF _build_agents_flat_list
<1> QED BY <1>2, <1>3, <1>4

LEMMA CardsTellTokens ==
  ASSUME BaseInv, NEW c \in _build_agents_flat_list
  PROVE  LET works == agent[c.id].hash # None /\ Works(agent[c.id].hash)
         IN IF c.status = "active" /\ ~c.token_pending
            THEN /\ works \/ agent[c.id].expires = "passed"
                 /\ agent_me(agent[c.id].hash) = {c.id}
            ELSE ~works
<1>1. PICK a \in AllAgents : c = _serialize_agent_for_portal(a)
  BY DEF _build_agents_flat_list
<1>2. /\ c.id = a /\ c.status = agent[a].status
      /\ c.token_pending <=> agent[a].status = "active" /\ agent[a].hash = None
  BY <1>1, CardOf
<1>3. a \in Agents
  BY DEF AllAgents
<1>4. CASE agent[a].status = "active" /\ agent[a].hash # None
  <2>1. agent[a].expires # "passed" => Works(agent[a].hash)
    BY <1>3, <1>4 DEF Works
  <2>2. agent_me(agent[a].hash) = {a}
    BY <1>3, <1>4 DEF agent_me, BaseInv, OneHolder
  <2> QED BY <1>2, <1>4, <2>1, <2>2
<1>5. CASE agent[a].status # "active" /\ agent[a].hash # None
  <2>1. ~Works(agent[a].hash)
    BY <1>3, <1>5 DEF Works, BaseInv, OneHolder
  <2> QED BY <1>2, <1>5, <2>1
<1>6. CASE agent[a].hash = None
  BY <1>2, <1>6
<1> QED BY <1>4, <1>5, <1>6

\* Whatever requests overlap, the pickers offer exactly those whom the requests
\* accept, the reads let those through who have a role, the lists of agents tell the
\* same, and an agent that is shown active and not pending holds a token of its own
\* that works until its term ends.
THEOREM ListsAlwaysAgree == Spec => []ListsAgree
<1>1. BaseInv => ListsAgree
  BY PickersAgree, AgentListsAgree, CardsTellTokens DEF ListsAgree, BaseInv, Typed
<1> QED BY <1>1, BaseHolds, PTL

-----------------------------------------------------------------------------
(* Requests that do not overlap: the order *)

LEMMA IdleKeepsOrder ==
  ASSUME TypeOK, Ordered
  PROVE  OrderAfter(Nothing)
<1>1. /\ Lands(Nothing) /\ SeatsAfter(Nothing) = member
      /\ Saved(user, Nothing.users) = user /\ Saved(agent, Nothing.agents) = agent
      /\ OwnerAfter(Nothing) = owner /\ granted \cup Nothing.grants = granted
  BY NothingIs, SameSeats, SameRows DEF OwnerAfter
<1> QED BY <1>1 DEF OrderAfter, Ordered

LEMMA OrderInit == Init => OrderInv
<1> SUFFICES ASSUME Init PROVE OrderInv
  OBVIOUS
<1>1. TypeOK
  BY BaseInit DEF BaseInv, Typed
<1>2. PICK r \in Rows : member = [x \in Rows |-> IF x = r THEN [user |-> owner, role |-> "admin"] ELSE None]
  BY DEF Init
<1>3. user[owner].status = "active" /\ user[owner].role # "viewer" /\ owner \in Users
  BY DEF Init
<1>4. member[r] # None
  BY <1>2, <1>3, NoneAssumption DEF Seat, MemberRoles
<1>5. Seated(member, owner)
  BY <1>2, <1>4 DEF Seated
<1>6. \A x \in Rows : member[x] # None => member[x].user = owner
  BY <1>2
<1>7. \A a \in Agents : agent[a].status = "none" \/ agent[a].creator = owner
  BY FirstAgents DEF Absent, NewAgent
<1>8. \A u \in Users : user[u].status = "none" => user[u] = NoUser
  BY DEF Init
<1>9. \E u \in Users : user[u] = [status |-> "active", role |-> "super_user"]
  BY DEF Init, ActiveSuperUsers
<1>10. Ordered
  BY <1>3, <1>5, <1>6, <1>7, <1>8, <1>9 DEF Ordered, Order, Stands
<1>11. \A w \in Workers : unit[w] = Nothing
  BY DEF Init
<1> QED BY <1>1, <1>10, <1>11, IdleKeepsOrder DEF OrderInv

LEMMA OrderDecide ==
  ASSUME NEW w, Workers = {w}, BaseInv, OrderInv, NEW q, Decide(w, q), Sound(q)
  PROVE  OrderInv'
<1>1. /\ UNCHANGED <<user, owner, member, agent, granted>>
      /\ unit' = [unit EXCEPT ![w] = q] /\ OrderAfter(q)
  BY DEF Decide, tables, Sound, OrderInv
<1>2. unit'[w] = q
  BY <1>1 DEF BaseInv, Typed
<1>3. Ordered'
  BY <1>1 DEF OrderInv, Ordered
<1>4. OrderAfter(unit[w])'
  BY <1>1, <1>2 DEF OrderAfter, Lands, SeatsAfter, OwnerAfter
<1> QED BY <1>3, <1>4 DEF OrderInv

LEMMA OrderCommit ==
  ASSUME NEW w, Workers = {w}, BaseInv, BaseInv', OrderInv, Commit(w)
  PROVE  OrderInv'
<1>1. OrderAfter(unit[w])
  BY DEF OrderInv
<1>2. /\ user' = Saved(user, unit[w].users) /\ agent' = Saved(agent, unit[w].agents)
      /\ member' = SeatsAfter(unit[w]) /\ owner' = OwnerAfter(unit[w])
      /\ granted' = granted \cup unit[w].grants
      /\ unit' = [unit EXCEPT ![w] = Nothing]
  BY <1>1 DEF Commit, OrderAfter, Write, OwnerAfter
<1>3. Ordered'
  BY <1>1, <1>2 DEF OrderAfter, Ordered
<1>4. TypeOK'
  BY DEF BaseInv, Typed
<1>5. unit'[w] = Nothing
  BY <1>2 DEF BaseInv, Typed
<1>6. OrderAfter(Nothing)'
  BY <1>3, <1>4, IdleKeepsOrder, PTL
<1>7. OrderAfter(unit[w])'
  BY <1>5, <1>6 DEF OrderAfter, Lands, SeatsAfter, OwnerAfter
<1> QED BY <1>3, <1>7 DEF OrderInv

\* The end of a term changes neither status nor creator of an agent.
LEMMA OrderExpires ==
  ASSUME NEW w, Workers = {w}, BaseInv, BaseInv', OrderInv, NEW a \in Agents, TokenExpires(a)
  PROVE  OrderInv'
<1> DEFINE q   == unit[w]
           ag  == Saved(agent, q.agents)
           ag2 == Saved(agent', q.agents)
<1>1. /\ UNCHANGED <<user, owner, member, unit, granted>>
      /\ agent' = [agent EXCEPT ![a].expires = "passed"]
  BY DEF TokenExpires
<1>2. /\ agent \in [Agents -> Agent] /\ agent' \in [Agents -> Agent] /\ Pending(q) /\ TypeOK
  BY DEF BaseInv, Typed, TypeOK
<1>3. \A b \in Agents : agent'[b].status = agent[b].status /\ agent'[b].creator = agent[b].creator
  BY <1>1, <1>2 DEF Agent
<1>4. \A us, m : \A b \in Agents : Stands(us, m, agent'[b]) <=> Stands(us, m, agent[b])
  BY <1>3 DEF Stands
<1> HIDE DEF q
<1>5. \A b \in Agents : ag2[b].status = ag[b].status /\ ag2[b].creator = ag[b].creator
  <2> SUFFICES ASSUME NEW b \in Agents
               PROVE  ag2[b].status = ag[b].status /\ ag2[b].creator = ag[b].creator
    OBVIOUS
  <2>1. /\ ag[b]  = IF b \in DOMAIN q.agents THEN Over(agent[b], q.agents[b]) ELSE agent[b]
        /\ ag2[b] = IF b \in DOMAIN q.agents THEN Over(agent'[b], q.agents[b]) ELSE agent'[b]
    BY <1>2 DEF Saved
  <2> HIDE DEF ag, ag2
  <2>2. CASE b \in DOMAIN q.agents
    <3>1. AgentChange(q.agents[b]) /\ agent[b] \in Agent /\ agent'[b] \in Agent
      BY <1>2, <2>2 DEF Pending
    <3> QED BY <1>3, <2>1, <2>2, <3>1, OverAgent
  <2>3. CASE b \notin DOMAIN q.agents
    BY <1>3, <2>1, <2>3
  <2> QED BY <2>2, <2>3
<1>6. \A us, m : \A b \in Agents : Stands(us, m, ag2[b]) <=> Stands(us, m, ag[b])
  BY <1>5 DEF Stands
<1>7. Ordered'
  BY <1>1, <1>4 DEF OrderInv, Ordered, Order
<1>8. OrderAfter(unit[w])'
  <2>1. OrderAfter(q)
    BY DEF OrderInv, q
  <2>2. Lands(q)' /\ SeatsAfter(q)' = SeatsAfter(q) /\ OwnerAfter(q)' = OwnerAfter(q)
    BY <1>1, <2>1 DEF OrderAfter, Lands, SeatsAfter, OwnerAfter, q
  <2>3. Order(Saved(user', q.users), OwnerAfter(q), SeatsAfter(q), ag2, granted' \cup q.grants)
    <3> HIDE DEF ag, ag2
    <3>1. Order(Saved(user, q.users), OwnerAfter(q), SeatsAfter(q), ag, granted \cup q.grants)
      BY <2>1 DEF OrderAfter, ag
    <3> QED BY <1>1, <1>6, <3>1 DEF Order
  <2> QED BY <1>1, <2>2, <2>3 DEF OrderAfter, q
<1> QED BY <1>7, <1>8 DEF OrderInv

-----------------------------------------------------------------------------
(* Requests that do not overlap: dead tokens *)

LEMMA DeadInit == Init => DeadInv
  BY NothingIs DEF Init, DeadInv

LEMMA DeadDecide ==
  ASSUME NEW w, Workers = {w}, BaseInv, DeadInv, NEW q, Decide(w, q), Sound(q)
  PROVE  DeadInv'
<1>1. /\ UNCHANGED <<agent, dead>> /\ unit' = [unit EXCEPT ![w] = q]
      /\ \A a \in DOMAIN q.agents : Harmless(a, q.agents[a])
  BY DEF Decide, tables, Sound
<1>2. unit'[w] = q
  BY <1>1 DEF BaseInv, Typed
<1> QED BY <1>1, <1>2 DEF DeadInv, Harmless

\* A token that dies by a commit is with no agent afterwards, and one that was
\* dead is where it was, out of term.
LEMMA DeadCommit ==
  ASSUME NEW w, Workers = {w}, BaseInv, BaseInv', OrderInv, DeadInv, Commit(w)
  PROVE  DeadInv'
<1> DEFINE A == unit[w].agents
<1>1. Lands(unit[w]) /\ Pending(unit[w]) /\ TypeOK
  BY DEF OrderInv, OrderAfter, BaseInv, Typed
<1>2. agent' = Saved(agent, A) /\ unit' = [unit EXCEPT ![w] = Nothing] /\ Bury
  BY <1>1 DEF Commit, Write
<1>3. \A a \in Agents : agent'[a] = IF a \in DOMAIN A THEN Over(agent[a], A[a]) ELSE agent[a]
  BY <1>1, <1>2, SavedRows
<1> HIDE DEF A
<1>4. unit'[w] = Nothing
  BY <1>2 DEF BaseInv, Typed
<1>5. \A a \in DOMAIN A : /\ a \in Agents /\ AgentChange(A[a]) /\ Harmless(a, A[a])
                          /\ agent[a] \in Agent
  BY <1>1 DEF Pending, DeadInv, TypeOK, A
<1>6. \A a \in Agents : a \in DOMAIN A => Given(unit[w], a) = IF "hash" \in DOMAIN A[a] THEN A[a]["hash"] ELSE None
  BY DEF Given, A
<1>7. ASSUME NEW t \in dead', NEW a \in Agents, agent'[a].hash = t
      PROVE  agent'[a].expires = "passed"
  <2>1. t # None /\ t \in Tokens
    BY AccessAssumption DEF BaseInv, Typed, TypeOK
  <2>2. a \in DOMAIN A =>
          /\ agent'[a].hash = IF "hash" \in DOMAIN A[a] THEN A[a]["hash"] ELSE agent[a].hash
          /\ agent'[a].expires = IF "expires" \in DOMAIN A[a] THEN A[a]["expires"] ELSE agent[a].expires
          /\ agent'[a].status = IF "status" \in DOMAIN A[a] THEN A[a]["status"] ELSE agent[a].status
    BY <1>3, <1>5, OverAgent
  <2>3. CASE t \in dead
    <3>1. a \in DOMAIN A => "hash" \notin DOMAIN A[a]
      BY <1>5, <1>7, <2>2, <2>3 DEF Harmless
    <3>2. agent[a].hash = t
      BY <1>3, <1>7, <2>2, <3>1
    <3>3. a \in DOMAIN A => "expires" \notin DOMAIN A[a]
      BY <1>5, <3>1 DEF Harmless
    <3>4. agent'[a].expires = agent[a].expires
      BY <1>3, <2>2, <3>3
    <3> QED BY <2>3, <3>2, <3>4 DEF DeadInv
  <2>4. CASE t \notin dead
    <3>1. Works(t) /\ ~Works(t)'
      BY <1>2, <2>4 DEF Bury
    <3>2. PICK b \in Agents : agent[b].status = "active" /\ agent[b].hash = t /\ agent[b].expires # "passed"
      BY <3>1 DEF Works
    <3>3. Given(unit[w], a) # t
      BY <2>1, <3>2 DEF BaseInv, OneHolder
    <3>4. a \in DOMAIN A => "hash" \notin DOMAIN A[a]
      BY <1>6, <1>7, <2>2, <3>3
    <3>5. agent[a].hash = t
      BY <1>3, <1>7, <2>2, <3>4
    <3>6. a = b
      BY <2>1, <3>2, <3>5 DEF BaseInv, OneHolder
    <3>7. a \in DOMAIN A => "expires" \notin DOMAIN A[a]
      BY <1>5, <3>4 DEF Harmless
    <3>8. a \in DOMAIN A => "status" \notin DOMAIN A[a] \/ A[a]["status"] = "active"
      BY <1>5, <2>1, <3>4, <3>5 DEF Harmless, AgentChange
    <3>9. agent'[a].status = "active" /\ agent'[a].expires # "passed"
      BY <1>3, <2>2, <3>2, <3>6, <3>7, <3>8
    <3>10. Works(t)'
      BY <1>7, <3>9 DEF Works
    <3> QED BY <3>1, <3>10
  <2> QED BY <2>3, <2>4
<1> QED BY <1>4, <1>7, NothingIs DEF DeadInv

LEMMA DeadExpires ==
  ASSUME NEW w, Workers = {w}, BaseInv, DeadInv, NEW a \in Agents, TokenExpires(a)
  PROVE  DeadInv'
<1>1. /\ UNCHANGED unit /\ agent' = [agent EXCEPT ![a].expires = "passed"] /\ Bury
      /\ agent \in [Agents -> Agent]
  BY DEF TokenExpires, BaseInv, Typed, TypeOK
<1>2. /\ agent'[a].expires = "passed"
      /\ \A b \in Agents : /\ agent'[b].hash = agent[b].hash /\ agent'[b].status = agent[b].status
                           /\ b # a => agent'[b].expires = agent[b].expires
  BY <1>1 DEF Agent
<1>3. \A t \in dead' \ dead : t # None /\ t = agent[a].hash
  <2> SUFFICES ASSUME NEW t \in dead' \ dead PROVE t # None /\ t = agent[a].hash
    OBVIOUS
  <2>1. t \in Tokens /\ Works(t) /\ ~Works(t)'
    BY <1>1 DEF Bury
  <2>2. PICK b \in Agents : agent[b].status = "active" /\ agent[b].hash = t /\ agent[b].expires # "passed"
    BY <2>1 DEF Works
  <2>3. b # a => Works(t)'
    BY <1>2, <2>2 DEF Works
  <2> QED BY <2>1, <2>2, <2>3, AccessAssumption
<1>4. \A t \in dead', b \in Agents : agent'[b].hash = t => agent'[b].expires = "passed"
  <2> SUFFICES ASSUME NEW t \in dead', NEW b \in Agents, agent'[b].hash = t, b # a
               PROVE  agent'[b].expires = "passed"
    BY <1>2
  <2>1. t \in dead
    BY <1>2, <1>3 DEF BaseInv, OneHolder
  <2> QED BY <1>2, <2>1 DEF DeadInv
<1>5. ASSUME NEW b \in DOMAIN unit[w].agents PROVE Harmless(b, unit[w].agents[b])'
  <2>1. Harmless(b, unit[w].agents[b]) /\ b \in Agents
    BY DEF DeadInv, BaseInv, Typed, Pending
  <2>2. Given(unit[w], b) # None => Given(unit[w], b) # agent[a].hash
    BY <2>1 DEF BaseInv, OneHolder
  <2>3. "hash" \in DOMAIN unit[w].agents[b] => unit[w].agents[b]["hash"] \notin dead'
    <3> SUFFICES ASSUME "hash" \in DOMAIN unit[w].agents[b], unit[w].agents[b]["hash"] \in dead' \ dead
                 PROVE  FALSE
      BY <2>1 DEF Harmless
    <3>1. Given(unit[w], b) = unit[w].agents[b]["hash"]
      BY DEF Given
    <3> QED BY <1>3, <2>2, <3>1
  <2> QED BY <1>1, <1>2, <2>1, <2>3 DEF Harmless
<1> QED BY <1>1, <1>4, <1>5 DEF DeadInv

-----------------------------------------------------------------------------
(* Requests that do not overlap: the theorems *)

SerialInv == BaseInv /\ OrderInv /\ DeadInv

LEMMA SerialStep ==
  ASSUME NEW w, Workers = {w}
  PROVE  SerialInv /\ [Next]_vars => SerialInv'
<1> SUFFICES ASSUME SerialInv, [Next]_vars PROVE SerialInv'
  OBVIOUS
<1>1. BaseInv /\ BaseInv'
  BY BaseStep DEF SerialInv
<1>2. ASSUME UNCHANGED <<user, owner, member, agent, issued, unit, dead, granted>>
      PROVE  SerialInv'
  BY <1>1, <1>2 DEF SerialInv, OrderInv, Ordered, OrderAfter, Lands, SeatsAfter, OwnerAfter,
                    DeadInv, Harmless
<1>3. CASE UNCHANGED vars
  BY <1>2, <1>3 DEF vars, tables
<1>4. CASE Next
  <2>1. TypeOK
    BY <1>1 DEF BaseInv, Typed
  <2>2. CASE archive_project \/ reopen_project
    BY <1>2, <2>2 DEF archive_project, reopen_project
  <2>3. ASSUME NEW a \in Agents, TokenExpires(a) PROVE SerialInv'
    BY <1>1, <2>3, OrderExpires, DeadExpires DEF SerialInv
  <2>4. CASE Commit(w)
    BY <1>1, <2>4, OrderCommit, DeadCommit DEF SerialInv
  <2>5. ASSUME NEW q, Decide(w, q), Sound(q) PROVE SerialInv'
    BY <1>1, <2>5, OrderDecide, DeadDecide DEF SerialInv
  <2> QED BY <1>4, <2>1, <2>2, <2>3, <2>4, <2>5, Steps
<1> QED BY <1>3, <1>4

LEMMA SerialHolds ==
  ASSUME NEW w, Workers = {w}
  PROVE  Spec => []SerialInv
<1>1. Init => SerialInv
  BY BaseInit, OrderInit, DeadInit DEF SerialInv
<1>2. SerialInv /\ [Next]_vars => SerialInv'
  BY SerialStep
<1> QED BY <1>1, <1>2, PTL DEF Spec

\* When requests do not overlap, a token that stopped working never works again,
\* for any number of agents and tokens: a restore brings back no hash that a
\* revoke has cleared, and a new term comes with a new token only.
THEOREM SerialTokensStayDead ==
  ASSUME NEW w, Workers = {w}
  PROVE  Spec => []DeadTokensStayDead
<1>1. SerialInv => DeadTokensStayDead
  BY DEF SerialInv, DeadInv, DeadTokensStayDead, Works
<1> QED BY <1>1, SerialHolds, PTL

\* When requests do not overlap, the cascades of remove_member and
\* soft_delete_user leave no agent active whose creator has lost its place.
THEOREM SerialAgentsHaveStanding ==
  ASSUME NEW w, Workers = {w}
  PROVE  Spec => []AgentsHaveStanding
<1>1. SerialInv => AgentsHaveStanding
  BY DEF SerialInv, BaseInv, Typed, TypeOK, Agent, OrderInv, Ordered, Order, Stands, Seated, Seats,
         AgentsHaveStanding
<1> QED BY <1>1, SerialHolds, PTL

\* When requests do not overlap, the rows of a viewer say read, whatever adds,
\* role changes, demotions and transfers came before.
THEOREM SerialViewersOnlyRead ==
  ASSUME NEW w, Workers = {w}
  PROVE  Spec => []ViewersOnlyRead
<1>1. SerialInv => ViewersOnlyRead
  BY DEF SerialInv, OrderInv, Ordered, Order, ViewersOnlyRead
<1> QED BY <1>1, SerialHolds, PTL

\* When requests do not overlap, an active super user remains and the owner of
\* the project keeps a row, for any number of users.
THEOREM SerialAuthorityRemains ==
  ASSUME NEW w, Workers = {w}
  PROVE  Spec => []AuthorityRemains
<1>1. SerialInv => AuthorityRemains
  BY DEF SerialInv, OrderInv, Ordered, Order, Seated, Seats, ActiveSuperUsers, AuthorityRemains
<1> QED BY <1>1, SerialHolds, PTL
=============================================================================
