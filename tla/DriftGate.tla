------------------------------ MODULE DriftGate ------------------------------
(***************************************************************************)
(* The drift gate of the VibeForge+ API.  An agent reads its contract      *)
(* (GET /agentnotes), and every mutation it sends afterwards goes through  *)
(* projects._resolve_actor: freeze check, onboard gate, contract age,      *)
(* nonce echo, session-state question.  Too many bad replies in a row      *)
(* escalate: a DriftEscalation row freezes the agent until a human ends it.*)
(*                                                                         *)
(* Requests run in a thread pool over a READ COMMITTED database without    *)
(* row locks: a request loads the agent row once and later writes back     *)
(* the columns it changed.  A slot of Requests is one such thread; its     *)
(* steps interleave with those of the others.  The clock counts ticks of   *)
(* the size of the windows (tens of minutes), so it stands still while a   *)
(* request is running.                                                     *)
(***************************************************************************)
EXTENDS Naturals, Sequences, FiniteSets, Functions

CONSTANTS
  Agents, Tasks,   \* agent rows and task rows of one project
  Answers,         \* replies above the silent length floor
  Requests,        \* request threads
  PivotLimit,      \* DRIFT_EVAL_PIVOT_LIMIT
  HashCap,         \* DRIFT_EVAL_HASH_CAP
  PassGrace,       \* DRIFT_EVAL_PASS_GRACE_SECONDS, in ticks
  OnboardGrace,    \* the quiet period after /complete, in ticks
  Windows,         \* values of the contract-age setting, in ticks
  MaxClock, MaxReads, MaxEscalations,  \* bounds of the model
  LastOnboard,     \* bound: the onboarding is registered up to this tick
  None,            \* SQL NULL, or no reply header
  Short,           \* a reply under the length floor
  Board,           \* a mutation path that names no task
  Setup,           \* an onboard-state, phases or milestones path
  Contract         \* GET /agentnotes

ASSUME LimitsAssumption ==
  /\ PivotLimit \in Nat /\ HashCap \in Nat \ {0}
  /\ PassGrace \in Nat /\ OnboardGrace \in Nat
  /\ Windows \subseteq Nat /\ Windows # {}
  /\ MaxClock \in Nat /\ MaxReads \in Nat /\ MaxEscalations \in Nat
  /\ LastOnboard \in Nat
ASSUME NamesAssumption ==
  /\ None \notin Nat \cup Answers \cup Tasks \cup Agents
  /\ Short \notin Answers \cup {None}
  /\ Tasks \cap {Board, Setup, Contract} = {}
  /\ Board # Setup /\ Board # Contract /\ Setup # Contract

VARIABLES
  clock,
  gateOn,        \* SystemSetting drift_gate_enabled
  window,        \* SystemSetting drift_eval_window_seconds
  completedAt,   \* Project.onboard_state["completed_at"], None if not onboarded
  row,           \* the drift columns of each agent row
  escalations,   \* drift_escalations, in insertion order
  attempts,      \* drift_eval_attempts of each agent
  req,           \* what each request thread holds
  clearing,      \* the clear-drift request of a human, None if there is none
  lastPass,      \* history: when each agent's last reply was accepted
  streak         \* history: bad replies since the last pass, read or clear

history == <<lastPass, streak>>
settings == <<gateOn, window, completedAt>>
vars == <<clock, settings, row, escalations, attempts, req, clearing, history>>

Paths == Tasks \cup {Board, Setup, Contract}
Times == 0..MaxClock
MaybeTimes == Times \cup {None}
Rows == [count : 0..PivotLimit, passedAt : MaybeTimes, hashes : Seq(Answers),
         lastRead : MaybeTimes, reads : 0..MaxReads]
EscalationRows == [agent : Agents, task : Tasks \cup {None}, open : BOOLEAN]
Outcomes == {"prompt", "accepted", "dedup", "too_short", "escalated"}
AttemptRows == [outcome : Outcomes, reply : Answers \cup {Short, None},
                cycle : 0..MaxReads, esc : 0..MaxEscalations]
Steps == {"idle", "loaded", "unfrozen", "gated", "admitted"}
Slots == [pc : Steps, agent : Agents \cup {None}, path : Paths \cup {None},
          snap : Rows \cup {None}, evaluated : BOOLEAN]

TypeOK ==
  /\ clock \in Times
  /\ gateOn \in BOOLEAN /\ window \in Windows /\ completedAt \in MaybeTimes
  /\ row \in [Agents -> Rows]
  /\ escalations \in Seq(EscalationRows)
  /\ attempts \in [Agents -> SUBSET AttemptRows]
  /\ req \in [Requests -> Slots]
  /\ clearing \in [esc : 1..MaxEscalations, snap : Rows] \cup {None}
  /\ lastPass \in [Agents -> MaybeTimes]
  /\ streak \in [Agents -> 0..(PivotLimit + 1)]

-----------------------------------------------------------------------------
(* Helpers *)

Idle == [pc |-> "idle", agent |-> None, path |-> None, snap |-> None, evaluated |-> FALSE]

FreshRow == [count |-> 0, passedAt |-> None, hashes |-> <<>>, lastRead |-> None, reads |-> 0]

\* The unit of work writes back only the columns whose value changed since
\* the row was loaded; the other columns keep what is committed by now.
Save(current, loaded, new) ==
  [c \in DOMAIN current |-> IF new[c] = loaded[c] THEN current[c] ELSE new[c]]

Open(e) == escalations[e].open
OpenOf(a) == {e \in DOMAIN escalations : Open(e) /\ escalations[e].agent = a}
OpenOn(t) == {e \in DOMAIN escalations : Open(e) /\ escalations[e].task = t}

is_agent_frozen(a) == OpenOf(a) # {}

\* The newest HashCap hashes, with h appended.
Remember(hashes, h) ==
  LET all == Append(hashes, h)
  IN  SubSeq(all, IF Len(all) > HashCap THEN Len(all) - HashCap + 1 ELSE 1, Len(all))

Onboarded == completedAt # None
InOnboardGrace == Onboarded /\ clock - completedAt < OnboardGrace

\* When the session-state question is put at all.
EvalApplies == Onboarded /\ ~InOnboardGrace

\* An attempt row of the agent, not linked to an escalation yet.
Attempt(outcome, reply, a) ==
  [outcome |-> outcome, reply |-> reply, cycle |-> row[a].reads, esc |-> 0]

OneMoreBadReply(a) ==
  IF streak[a] > PivotLimit THEN streak[a] ELSE streak[a] + 1

Init ==
  /\ clock = 0
  /\ gateOn = TRUE /\ window \in Windows /\ completedAt = None
  /\ row = [a \in Agents |-> FreshRow]
  /\ escalations = <<>>
  /\ attempts = [a \in Agents |-> {}]
  /\ req = [r \in Requests |-> Idle]
  /\ clearing = None
  /\ lastPass = [a \in Agents |-> None]
  /\ streak = [a \in Agents |-> 0]

-----------------------------------------------------------------------------
(* An agent's request *)

\* The token lookup loads the agent row.
Arrive(r, a, p) ==
  /\ req[r].pc = "idle"
  /\ req' = [req EXCEPT ![r] = [pc |-> "loaded", agent |-> a, path |-> p,
                                snap |-> row[a], evaluated |-> FALSE]]
  /\ UNCHANGED <<clock, settings, row, escalations, attempts, clearing, history>>

Leave(r) == req' = [req EXCEPT ![r] = Idle]

At(r, pc) == req[r].pc = pc /\ req[r].path # Contract
GoTo(r, pc) == req' = [req EXCEPT ![r].pc = pc]

\* Mutant: a pass never expires.
PassNeverExpires(snap) == FALSE

PassExpired(snap) == snap.passedAt # None /\ clock - snap.passedAt > PassGrace

\* GET /agentnotes: new timestamp and nonce, pivots forgotten, and the pass
\* kept only while it is recent.
Refresh(r) ==
  LET a == req[r].agent
      snap == req[r].snap
      new == [snap EXCEPT !.lastRead = clock, !.count = 0,
                          !.passedAt = IF PassExpired(snap) THEN None ELSE snap.passedAt]
  IN  /\ req[r].pc = "loaded" /\ req[r].path = Contract
      /\ row[a].reads < MaxReads
      /\ row' = [row EXCEPT ![a] = [Save(row[a], snap, new) EXCEPT !.reads = row[a].reads + 1]]
      /\ streak' = [streak EXCEPT ![a] = 0]
      /\ Leave(r)
      /\ UNCHANGED <<clock, settings, escalations, attempts, clearing, lastPass>>

\* The 403 of a frozen agent, at the first or the second _resolve_actor call
\* of a request (the second one comes from _require_write).
Freezes(r) == gateOn /\ is_agent_frozen(req[r].agent)
OnboardRefuses(r) == req[r].path # Setup /\ ~Onboarded

RefuseFrozen(r) ==
  /\ At(r, "loaded") \/ At(r, "gated")
  /\ Freezes(r)
  /\ Leave(r)
  /\ UNCHANGED <<clock, settings, row, escalations, attempts, clearing, history>>

PassFreezeCheck(r) ==
  /\ At(r, "loaded")
  /\ ~Freezes(r)
  /\ GoTo(r, "unfrozen")
  /\ UNCHANGED <<clock, settings, row, escalations, attempts, clearing, history>>

\* Past the freeze check: the onboard gate, the age of the contract read, a
\* wrong nonce.  Each refuses without a trace in the database.
ContractTooOld(snap) == snap.lastRead # None /\ clock - snap.lastRead > window

RefuseStale(r) ==
  /\ At(r, "unfrozen")
  /\ \/ OnboardRefuses(r)
     \/ ContractTooOld(req[r].snap)
     \/ \E echoed \in 1..MaxReads :     \* X-Refresh-Nonce, optional
          req[r].snap.lastRead # None /\ echoed # req[r].snap.reads
  /\ Leave(r)
  /\ UNCHANGED <<clock, settings, row, escalations, attempts, clearing, history>>

FreshEnough(r) ==
  /\ At(r, "unfrozen")
  /\ ~OnboardRefuses(r)
  /\ ~ContractTooOld(req[r].snap)

Evaluates(r) == req[r].snap.lastRead # None /\ EvalApplies

\* Nothing to answer: no contract read yet, in the onboard window, or passed.
PassQuietly(r) ==
  /\ FreshEnough(r)
  /\ Evaluates(r) => req[r].snap.passedAt # None
  /\ req' = [req EXCEPT ![r] = [@ EXCEPT !.pc = "gated", !.snap = None,
                                          !.evaluated = Evaluates(r)]]
  /\ UNCHANGED <<clock, settings, row, escalations, attempts, clearing, history>>

-----------------------------------------------------------------------------
(* check_drift_eval: the session-state question *)

Asked(r) == FreshEnough(r) /\ Evaluates(r) /\ req[r].snap.passedAt = None

\* No X-Drift-Response header: the question is put, and logged.
Prompt(r) ==
  LET a == req[r].agent
  IN  /\ Asked(r)
      /\ attempts' = [attempts EXCEPT ![a] = @ \cup {Attempt("prompt", None, a)}]
      /\ Leave(r)
      /\ UNCHANGED <<clock, settings, row, escalations, clearing, history>>

Seen(x, snap) == x \in Range(snap.hashes)

Accept(r, x) ==
  LET a == req[r].agent
      snap == req[r].snap
      new == [snap EXCEPT !.hashes = Remember(snap.hashes, x),
                          !.passedAt = clock, !.count = 0]
  IN  /\ Asked(r)
      /\ x \in Answers /\ ~Seen(x, snap)
      /\ row' = [row EXCEPT ![a] = Save(row[a], snap, new)]
      /\ attempts' = [attempts EXCEPT ![a] = @ \cup {Attempt("accepted", x, a)}]
      /\ req' = [req EXCEPT ![r] = [@ EXCEPT !.pc = "gated", !.snap = None, !.evaluated = TRUE]]
      /\ lastPass' = [lastPass EXCEPT ![a] = clock]
      /\ streak' = [streak EXCEPT ![a] = 0]
      /\ UNCHANGED <<clock, settings, escalations, clearing>>

\* A reply that is too short or was given before.
BadReply(r, x) == Asked(r) /\ x \in Answers \cup {Short} /\ (x = Short \/ Seen(x, req[r].snap))
OutcomeOf(x) == IF x = Short THEN "too_short" ELSE "dedup"

\* Mutant: one pivot too many.
OnePivotMore(snap) == snap.count <= PivotLimit

PivotsLeft(snap) == snap.count < PivotLimit

\* Up to PivotLimit times another question is put.
Pivot(r, x) ==
  LET a == req[r].agent
      snap == req[r].snap
  IN  /\ BadReply(r, x)
      /\ PivotsLeft(snap)
      /\ row' = [row EXCEPT ![a] = Save(row[a], snap, [snap EXCEPT !.count = @ + 1])]
      /\ attempts' = [attempts EXCEPT ![a] = @ \cup {Attempt(OutcomeOf(x), x, a)}]
      /\ Leave(r)
      /\ streak' = [streak EXCEPT ![a] = OneMoreBadReply(a)]
      /\ UNCHANGED <<clock, settings, escalations, clearing, lastPass>>

\* The task in the URL path; the project-scoped paths name none.
TaskOfPath(p) == IF p \in Tasks THEN p ELSE None

\* Links the agent's unlinked attempts since its contract read to escalation e.
AttachFiring(rows, cycle, e) ==
  {[t EXCEPT !.esc = IF t.esc = 0 /\ t.cycle >= cycle THEN e ELSE t.esc] : t \in rows}

\* One reply too many.  The pivot count stays where it is.
Escalate(r, x) ==
  LET a == req[r].agent
      snap == req[r].snap
      e == Len(escalations) + 1
      last == [Attempt("escalated", x, a) EXCEPT !.esc = e]
  IN  /\ BadReply(r, x)
      /\ ~PivotsLeft(snap)
      /\ e <= MaxEscalations
      /\ escalations' = Append(escalations, [agent |-> a, task |-> TaskOfPath(req[r].path),
                                             open |-> TRUE])
      /\ attempts' = [attempts EXCEPT ![a] = AttachFiring(@, snap.reads, e) \cup {last}]
      /\ Leave(r)
      /\ streak' = [streak EXCEPT ![a] = OneMoreBadReply(a)]
      /\ UNCHANGED <<clock, settings, row, clearing, lastPass>>

-----------------------------------------------------------------------------
(* The second _resolve_actor call, and the mutation itself *)

RefuseOnboard(r) ==
  /\ At(r, "gated") /\ ~Freezes(r) /\ OnboardRefuses(r)
  /\ Leave(r)
  /\ UNCHANGED <<clock, settings, row, escalations, attempts, clearing, history>>

\* Mutant: the second call trusts the freeze check of the first.
AdmitUnchecked(r) ==
  /\ At(r, "gated") /\ ~OnboardRefuses(r)
  /\ GoTo(r, "admitted")
  /\ UNCHANGED <<clock, settings, row, escalations, attempts, clearing, history>>

Admit(r) ==
  /\ At(r, "gated") /\ ~Freezes(r) /\ ~OnboardRefuses(r)
  /\ GoTo(r, "admitted")
  /\ UNCHANGED <<clock, settings, row, escalations, attempts, clearing, history>>

Write(r) ==
  /\ At(r, "admitted")
  /\ Leave(r)
  /\ UNCHANGED <<clock, settings, row, escalations, attempts, clearing, history>>

-----------------------------------------------------------------------------
(* Humans and the clock *)

\* POST /tasks/{t}/clear-drift by a human with write access: it takes the
\* first open escalation on the task, in no particular order ...
ClearLoad(t) ==
  /\ clearing = None
  /\ \E e \in OpenOn(t) :
       clearing' = [esc |-> e, snap |-> row[escalations[e].agent]]
  /\ UNCHANGED <<clock, settings, row, escalations, attempts, req, history>>

\* ... and ends it, with a fresh slate for the agent.
ClearCommit ==
  LET e == clearing.esc
      a == escalations[e].agent
      new == [clearing.snap EXCEPT !.hashes = <<>>, !.count = 0, !.passedAt = None]
  IN  /\ clearing # None
      /\ escalations' = [escalations EXCEPT ![e].open = FALSE]
      /\ row' = [row EXCEPT ![a] = Save(row[a], clearing.snap, new)]
      /\ clearing' = None
      /\ streak' = [streak EXCEPT ![a] = 0]
      /\ UNCHANGED <<clock, settings, attempts, req, lastPass>>

\* The super admin's danger zone: every open escalation ends, and nothing else.
ResetAll ==
  /\ \E e \in DOMAIN escalations : Open(e)
  /\ escalations' = [e \in DOMAIN escalations |-> [escalations[e] EXCEPT !.open = FALSE]]
  /\ UNCHANGED <<clock, settings, row, attempts, req, clearing, history>>

Toggle ==
  /\ gateOn' = ~gateOn
  /\ UNCHANGED <<clock, window, completedAt, row, escalations, attempts, req, clearing, history>>

SetWindow ==
  /\ window' \in Windows \ {window}
  /\ UNCHANGED <<clock, gateOn, completedAt, row, escalations, attempts, req, clearing, history>>

\* What the onboard endpoints do to the flag the gates read.
OnboardComplete ==
  /\ clock <= LastOnboard
  /\ completedAt' = clock
  /\ UNCHANGED <<clock, gateOn, window, row, escalations, attempts, req, clearing, history>>

OnboardReset ==
  /\ Onboarded
  /\ completedAt' = None
  /\ UNCHANGED <<clock, gateOn, window, row, escalations, attempts, req, clearing, history>>

Quiet == (\A r \in Requests : req[r].pc = "idle") /\ clearing = None

Tick ==
  /\ Quiet
  /\ clock < MaxClock
  /\ clock' = clock + 1
  /\ UNCHANGED <<settings, row, escalations, attempts, req, clearing, history>>

-----------------------------------------------------------------------------
Evaluate(r) ==
  \/ Prompt(r)
  \/ \E x \in Answers : Accept(r, x)
  \/ \E x \in Answers \cup {Short} : Pivot(r, x) \/ Escalate(r, x)

RequestStep(r) ==
  \/ \E a \in Agents, p \in Paths : Arrive(r, a, p)
  \/ Refresh(r)
  \/ RefuseFrozen(r) \/ PassFreezeCheck(r)
  \/ RefuseStale(r) \/ PassQuietly(r) \/ Evaluate(r)
  \/ RefuseOnboard(r) \/ Admit(r) \/ Write(r)

HumanStep ==
  \/ \E t \in Tasks : ClearLoad(t)
  \/ ClearCommit \/ ResetAll \/ Toggle \/ SetWindow
  \/ OnboardComplete \/ OnboardReset

Next == (\E r \in Requests : RequestStep(r)) \/ HumanStep \/ Tick

Spec == Init /\ [][Next]_vars

-----------------------------------------------------------------------------
(* Properties *)

\* The gate keeps the promise of AgentPause: an open escalation pauses its
\* agent, and a request is admitted at its second freeze check.
Pause == INSTANCE AgentPause WITH
           enforced <- gateOn,
           paused <- {a \in Agents : is_agent_frozen(a)},
           admitted <- [r \in Requests |->
                          IF req[r].pc = "admitted" THEN req[r].agent ELSE None]

\* A frozen agent starts no write while the gate is on, however its requests
\* and the humans' interleave (projects.py:_resolve_actor, the 403).
PauseSpec == Pause!Spec

\* A write that was subject to the question follows an accepted reply by at
\* most the grace of a pass plus the age a contract read may have: a refresh
\* keeps a recent pass only (contract.py:_refresh_agent_drift), and a request
\* needs a recent refresh.
WriteNeedsFreshPass ==
  \A r \in Requests : req[r].evaluated =>
    /\ lastPass[req[r].agent] # None
    /\ \E w \in Windows : clock <= lastPass[req[r].agent] + w + PassGrace

\* The remembered replies of an agent are at most HashCap and differ, even
\* when two of its requests append at once.
HashesDistinct ==
  \A a \in Agents : LET h == row[a].hashes
                    IN  /\ Len(h) <= HashCap
                        /\ \A i, j \in DOMAIN h : h[i] = h[j] => i = j

Escalated(a) ==
  /\ Len(escalations') > Len(escalations)
  /\ escalations'[Len(escalations')].agent = a

\* "4th consecutive fail = escalation" (drift_gate.py:17): an escalation
\* follows more than PivotLimit bad replies since the last accepted reply,
\* contract read or human clear.  (Refuted: README, Disagreements.)
EscalationNeedsStreak == [][\A a \in Agents : Escalated(a) => streak'[a] > PivotLimit]_vars

\* "The clear unfreezes the agent" (docs/drift-gate.md, lever 3).
\* (Refuted: README, Disagreements.)
ClearUnfreezes ==
  [][\A a \in Agents :
       clearing # None /\ clearing' = None /\ escalations[clearing.esc].agent = a
         => ~is_agent_frozen(a)']_vars
=============================================================================
