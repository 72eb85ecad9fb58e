# A verification project for VibeForge+

VibeForge+ is a project board shared by humans and coding agents: a FastAPI
application over PostgreSQL (`src/app`), a health collector (`src/health`) and
operator scripts.  Agents write through the same HTTP API as humans, and a
*drift gate* stands between an agent and the board: it makes the agent re-read
its contract, asks it a question now and then, and freezes it when it stops
answering sensibly.

This directory holds TLA+ models of the parts that carry the program's own
logic, the TLC configurations that check them, and proofs that TLAPS checks.

## How the program runs, and what that means for a model

* One `uvicorn` process.  Every `def` endpoint runs in a thread of a pool, so
  two requests interleave at every database statement; `async def` endpoints
  run on the event loop and interleave only at an `await`.
* A request has one SQLAlchemy session (`src/app/db/session.py:1-14`):
  autocommit and autoflush are off, the isolation level is PostgreSQL's
  READ COMMITTED, and no handler locks a row.  A handler therefore loads rows,
  decides, and at `commit()` writes the columns whose value *changed since it
  loaded them*.  Between the two, other requests commit.  Most hazards listed
  in `PROJECT.json` are a decision taken on a row that is stale when it is
  written back.
* A handler is modelled as a step that loads and decides and a step that
  commits whenever another request can change what it decided on; it is one
  step when nothing it reads can change under it.

## Inventory

| component | state | operations | what is hard | what makes it correct |
|---|---|---|---|---|
| Drift gate (`drift_gate.py`, `projects._resolve_actor`, `contract._refresh_agent_drift`) | drift columns of the agent row, `drift_escalations`, `drift_eval_attempts`, two settings | contract read, evaluation, escalation, clear, reset-all, toggle, window | stale copies of the agent row, two freeze checks per request, time windows | no frozen agent starts a write; a pass does not outlive its window; bounded, duplicate-free reply memory; clears unfreeze |
| Task board (`projects.py`) | tasks, blocked-by pairs, relationships, notes | create, patch, block, relate, note, supersede, revert | status read before authentication and written after, cascades over other tasks, cycle checks on a changing graph, task numbers by max+1 | only allowed transitions; done needs a completion note; the blocked-by graph stays acyclic; a ticket that closes blocks nothing; an edge that a closing takes leaves a link; unique numbers |
| Project lifecycle (`projects.py`) | project status and history, phases, milestones, pins | create, complete, archive, reopen, close and reopen a milestone, pin | counts read before a commit, history appended to a JSON column, columns written one by one | what the log says happened, in order; an archived project is dated; the pins are bounded; a phase keeps to its project |
| Onboarding (`onboard.py`) | `Project.onboard_state` | ack of a step, complete, reset, force-finish, the stamp of the first close | whole-dictionary read-modify-write by agent and human at once | the document stays whole; no agent's ticket before a completion; an agent that follows `next_step` gets there |
| Agent credentials (`ui.py`, `admin.py`, `members.py`) | agent status, token hash, expiry | create, issue, cycle, revoke, restore, list | cycle against revoke, three implementations of the same act, lists with filters of their own | a token that stopped working never works again; an active agent's creator has a place on the project; the lists agree |
| Membership and accounts (`members.py`, `admin.py`) | members and their roles, accounts, the owner | add, change role, remove with cascade, suspend, delete, demote, transfer | the last super user, the owner's row, cascades while agents are created | somebody can always administer; a viewer's rows say read |
| Sessions and elevation (`ui.py`, `admin.py`, `admin_portal.py`, `session_policy.py`) | session rows, policy settings, the status and role of the accounts | login, slide, sweep, revoke, elevate, unelevate, logout, the workspace's views; suspension, deletion, restore and role change | soft revocation that some lookups ignore, the concurrent cap, elevation bound to a base session, accounts that change under their sessions | a session ends by the cap; a lone login makes room; the views agree with the lookups |
| Certificate swap and proxy mode (`proxy.py`) | certificate files, Caddyfile, backups, what the proxy serves | swap, mode switch, reload, probe, roll back | partial failure at every step, a reload that does nothing when the file is unchanged, two operators | a refusal restores files and Caddyfile; certificate and key match; an accepted change is what Caddy runs |
| Install bootstrap (`bootstrap.py`, `forgejo_bootstrap.py`, `scripts/bootstrap_forgejo.py`) | first-IP lock, super admins, Forgejo's accounts and tokens, the park file | create-sa, bootstrap, verify, reset, token, park | check-then-insert by two requests, an end between any two steps, wizard beside shell | a bounded number of super admins; a readable park file holds credentials that work |
| Health collector (`health/app.py`) | the metrics table, the debounce, the outage marks, the prune counter | collect, repeat, detect and back-fill an outage, prune, downsample | two threads on one debounce, hanging calls, death inside a start | no gap behind a start; crossings are told; outages are visible; samples resume |
| Documentation index (`scripts/build_toc.py`, `onboard_scaffold/vf_toc.py`, `build_doc_library.py`) | documents, rendered siblings, TOC files, the library | collect, render, emit, bundle | an index that lists itself, renders that fail, builds that end early | an undisturbed build is fresh; repeated builds catch up |
| Server-sent events (`events.py`) | queues per project | subscribe, broadcast, disconnect | queue limits | (not modelled) |

What is left out, and why, is under "Not modelled" below.

The components meet in few places.  The writes to the board pass
`_resolve_actor`, where agent credentials, the onboard gate and the drift gate
stand in a row; each model has the part of that function it is about, and takes
the outcome of the others as a choice.  (Not all: `reorder_cards`,
`close_milestone` and `reopen_milestone`, projects.py:772, 1356 and 1384, do not
call it, and none of the gates stands before them.)  A membership cascade revokes agents
(`Access` has both).  Closing a ticket stamps the onboard document
(`Onboarding`) and unblocks other tickets (`TaskBoard`).  Completing or
archiving a project reads its tickets (`TaskBoard`) and milestones
(`Planning`).  Elevation hangs on a browser session (`Sessions` has both).

## Modules

| module | what it is |
|---|---|
| `AgentPause` | abstract specification: paused agents, enforcement, writes in progress |
| `DriftGate` | the drift gate, request by request and step by step; implements `AgentPause` |
| `MCDriftGate` | instances for TLC: a view without the log, symmetry |
| `DriftGateProofs` | theorems about `DriftGate` for every value of its constants |
| `TaskWorkflow` | abstract specification: the life of one ticket and its completion note |
| `TaskBoard` | the tickets of a project, their graph, links and notes, and the project's status; implements `TaskWorkflow` when requests do not overlap |
| `MCTaskBoard` | instances for TLC |
| `TaskBoardProofs` | theorems about `TaskBoard` and `BoardViews` for every value of their constants |
| `CertSwap` | certificate swaps and mode switches over the files, the Caddyfile, their backups and Caddy |
| `MCCertSwap` | instances for TLC: views without what no later step reads, symmetry |
| `CertSwapProofs` | theorems about `CertSwap` for every value of its constants |
| `BoardViews` | what a card and the drawer show of a ticket's edges and links; extends `TaskBoard` |
| `Access`, `AccessViews`, `AccessProofs` | accounts, members, ownership and agents with their tokens; the lists and pickers over them; theorems |
| `Sessions` | browser sessions, elevation, policy, sweep, the accounts they belong to, and the pages that show sessions |
| `Planning`, `PlanningProofs` | lifecycle and its log, milestones, phases, pins; theorems |
| `Onboarding` | the onboard document, its gate and the guided agent |
| `Install` | the first super admin, Forgejo's credentials and the park file |
| `AdminProofs` | theorems about `Install` and `Sessions` for every value of their constants |
| `Health`, `HealthProofs` | the health monitor's two threads, its table, deaths and starts; theorems |
| `DocIndex` | the two pipelines that build the documentation index |
| `OnboardingProofs` | theorems about `Onboarding` and `DocIndex` for every value of their constants |
| `MCAccess` ... `MCDocIndex` | instances of these for TLC |

### DriftGate

`row[a]` holds the drift columns of an agent (`drift_eval_count`,
`drift_eval_passed_at`, `drift_eval_hashes`, `last_contract_read_at`; the nonce
is the number of contract reads).  `req[r]` is a request thread with its program
counter, its path and `snap`, the copy of the row it loaded.

| program counter | where in the code | leaves by |
|---|---|---|
| `loaded` | `_resolve_actor` found the agent by its token | `RefuseFrozen`, `PassFreezeCheck`, `Refresh` (for the contract path) |
| `unfrozen` | past the 403 | `RefuseStale` (onboard gate, age, nonce), `PassQuietly`, `Prompt`, `Accept`, `Pivot`, `Escalate` |
| `gated` | past the first `_resolve_actor` | `RefuseFrozen`, `RefuseOnboard`, `Admit` (the second call, from `_require_write`) |
| `admitted` | in the handler's own code | `Write` |

`Save` is the unit of work: a column goes back only if its value changed since
it was loaded.  `clearing` is a human's clear between loading the escalation
and committing.  `lastPass` and `streak` are history variables that properties
refer to.  Time is counted in ticks of the size of the windows (tens of
minutes); a request is short in comparison, so the clock advances only while no
request runs (`Quiet`).  One clear runs at a time.

Left out: question texts and their rotation, note bodies, the telemetry
counter, a commit that fails (the code swallows it; see the hazards).

### TaskBoard

The state is that of the tables: `status`, `number` and `blockedBy` of each
ticket, `links` (related pairs), `notes` (completion notes only), `project`
(status and archived reason).  `req[w]` is what a request thread holds between
its first query and its commit, and `closers` is a history variable: the
terminal statuses a human has put each ticket in.

A PATCH is the longest request; its program counter is a place in `patch_task`:

| program counter | where in the code | leaves by |
|---|---|---|
| `loaded` | the ticket is read, its status copied (`old_status`); only for an agent, whose heartbeat commit then expires the row | `ResolveAgent` |
| `resolved` | before the gates | `PassGates`, `RefusePatch` |
| `walking` | the loop of the cycle check | `Hop`, `EndWalk`, `RefuseCycle` |
| `walked` | the fields are set in the session | `Cascade` (when the status changes, to done or cancelled), `CommitPatch` |
| `cascaded` | the tickets it blocks are read (VF-163) | `CommitPatch`, `RollBackPatch` |

`old` is what the gates compare with, `seen` what the unit of work compares
with when it writes: the two differ for an agent, because its row was read
again.  POST blocks shares the walk.  Creates, notes, complete and archive are
two steps, a decision and a commit; the related links, which a unique
constraint makes atomic, and reopen, which reads nothing that others change,
are one.

`TaskWorkflow` says what all this is for: a ticket moves along
`VALID_TRANSITIONS` only, becomes done only with a completion note of the
current cycle, keeps it while it is done and loses it on leaving done or
cancelled.  The refinement maps `noted` to "has an active completion note".

Left out: the fields a PATCH copies without looking at other state, the texts a
request must bring along (a request without them is refused and leaves nothing
behind), the activity log, milestones in `complete`, tickets whose owner is the
pseudo-owner `phase` (the counts skip them), tickets of other projects.

### CertSwap

`pem` and `caddyfile` are the files the app shares with Caddy, `pemBackup` and
`confBackup` the backups by the second that names them, `caddy` the
configuration and certificate of the running Caddy.  `req[t]` holds the locals
of a request.

| program counter | where in the code | leaves by |
|---|---|---|
| `render` | mode/switch before it renders (a swap renders in `StartSwap`) | `Render` |
| `write` | before `_write_caddyfile_with_backup` | `Write` |
| `backup`, `chain`, `key` | steps 1 and 2 of `safely_swap_cert` | `Backup`, `WriteChain`, `WriteKey`, each of which may fail |
| `load`, `probe` | steps 3 and 4; the reload and probe of mode/switch | `Load`, `Probe` |
| `restore`, `restoreKey`, `restoreLoad` | `_restore`: the certificate, the key, the reload; a write may fail, and ends it silently | `Restore`, `RestoreKey`, `RestoreLoad` |
| `undo`, `undoLoad` | `_restore_caddyfile` and the reload after it | `Undo`, `UndoLoad` |
| `rerender`, `reload` | the second render of a swap, with the new marker | `Rerender`, `Reload` |
| `done` | the answer is chosen | `Finish` |

`cert/swap` is `async` and awaits nothing after it has read the upload: while it
runs, the event loop dispatches nothing, so requests start only when no swap
runs (`LoopFree`).  `mode/switch`, `reload` and `renew` are `def` handlers: once
dispatched, their threads interleave with a swap.

Caddy is modelled from how the code uses it (`external` in the map): a load of
the configuration it runs changes nothing (the docstring of `_render_caddyfile`
relies on it), another one is refused or taken together with the files it
names, and a restarted Caddy starts from the files or not at all.  Every load
can also find it unreachable or time out before or after it took the file; a
timeout leaves the handlers' `except HTTPException` and ends the request with an
error.

`pemBefore`, `confBefore`, `alone` and `clean` are histories that the properties
refer to, and so is `spoiled`: `_restore` puts back only the files that the
backup has, in two writes under one `except Exception: pass`, so a refused swap
may leave a torn or a half restored pair, and answers as if it had not.
`spoiled` says that such a thing has happened since the last swap that was
answered ok: a write of a restore failed, or a swap began with one of the files
missing.  `PairMatches` and `RefusedSwapRestores` are about the time when it has
not.

The data are abstract.  A certificate with its key is a member of `Pairs`; a
marker is the certificate it hashes (no two share one); the modes `file` and
`self_signed` render the same directive and are one.  The backup and the write
of the Caddyfile are one step.  The second
probe of a swap only changes the wording of the refusal and is left out.

### BoardViews

No state of its own: what a card (`_render_card`) and the drawer's Related tab
(`task_relationships`) show of the edges and links in the tables of `TaskBoard`,
and what a closing must leave there.  `ClosingUnblocks` is about a ticket that
moves to done or cancelled: a PATCH that repeats the status it found runs no
cascade, clears no blocker and leaves no link.  `EdgesLeaveLinks` looks at the
commit of a PATCH that was overlapped, and asks both drawers.

### Access and AccessViews

`user`, `member`, `owner`, `open` and `agent` are the tables; `unit[w]` is what
request `w` will write.  A request loads and decides in one action (named as
the endpoint; endpoints of users, members and sysadmins that do the same thing
under different guards are separate disjuncts) and `Commit` writes the columns
that changed.  `issued` keeps tokens distinct, `dead` and `granted` are history
variables.  An agent's expiry is NULL, ahead or passed, and passes in a step of
its own.  The model begins behind `create_project` (a project without an agent) or
behind the wizard (one agent with its token).  A project that a viewer creates is
left out: the code refuses nobody, and the row of the new project says admin, so
that `ViewersOnlyRead` would fail at once.  `AccessViews` has the lists of members,
agents and reviewers, the pickers, `GET /me`, and the check that a page makes before
it shows a project (`_check_human_project_access`).

### Sessions

A row of `sess` counts the ticks it has left and those it has lived, so time
needs no bound.  A cookie is a pair of ids, of the board's session and of the
super admin's.  The lookups (`_cookie_user`, `_get_session_user`, `_get_sa_user`,
`_get_elevated_su`) are operators that differ as they do in the code in what
they ask of a row.  All of them ask whether the account is active, and the gates ask
for its role (`account`); `heartbeat` asks for neither, and no request that
suspends, deletes, restores or changes the role of an account (`Disable`,
`Enable`, `change_user_role`) touches a session.  So the workspace goes on
listing the sessions of a suspended user as active, and the elevation of a
demoted one as running (`_serialize_session` reads the row alone,
`admin_portal.py:881`), while the gates refuse both; `ViewsAreTrue` therefore
compares what is shown with what is accepted for active accounts, and elevations
for those that are super users.

`Swept` is the sweep that the workspace runs before it answers; it drops a row
only by revoking it.  An UPDATE of some columns is `Over(change, row)`.  What a
request will write is a set of such changes by id (`rows`), rows it makes
(`born`) and rows it deletes (`gone`).  `Threads`, `Null`, `SessionsInit` and the
like are names of its own, so that one module can hold the proofs about it and
those about `Install`.

### Planning

A lifecycle request loads the project row (`old`), changes its copy and appends
an entry to the log (`new`); `Written` is the UPDATE: only columns that differ
from the loaded ones, over the row as it is by then.  `feed` is the
`activity_events` table, in which rows are never overwritten.  An entry is told
by a number.  Milestones, phases and the tickets that hang on them are one step
each, closing a milestone and pinning are two.  The foreign keys let a phase hang
on any milestone there is: `update_phase` refuses one of another project,
`create_phase` does not.

### Onboarding

`state` is the JSON document.  A request copies it, changes the copy and puts
the whole of it into `unit`; `Commit` writes it.  `get_onboard_state` and the
answer to each of its own requests give the guided agent its `hint`, and
`Follow` does what the hint says.  The other callers do anything the endpoints
accept.  `opened` is a history variable.

### Install

A worker is a request of the board or a run of the shell script; `job[w].at` is
the step it takes next and `job[w].doc` the credentials it holds.  Each call to
Forgejo can act and lose its answer, and `Abandon` ends a job between any two
steps.  The park file is truncated and written in two steps, so it can be torn.

### Health

`rows` is the metrics table by second and kind.  `collector` and `ticker` are
the two threads with the sample each holds; `lastInsert` is the debounce they
share, `lastReal` what the ticker repeats.  `phase` walks through the start:
detect, back-fill, tag.  A call may hang (time passes while it is out), the
database may refuse (`MaxRefusals`), and the process may die (`MaxCrashes`) and
is started again by its container.  Intervals keep their order and not their
size.  `health_events` is what the pages read of the crossings, `_query_history`
what a graph gets of a window.  The downsampling cuts a window of n rows into p
slices at `int(i * step)` with a float `step = n / p`.  `Edge` is that number: the
floor of the exact quotient, but where i * n / p is a whole number the float may
come out just below it and the edge is one less.  For which n and i it does is the
constant `Falls`; that nothing else moves is because a product that is not whole is
at least 1/p away from one, far more than the error of a double.  Where the last
edge falls, the newest row is in no slice (`Lost`): of 1725 rows and 1500 points,
`int(1500 * 1.15)` is 1724.

### DocIndex

`flavor` says which of the two pipelines runs.  `build` is the build in
progress with what it collected (`entries`) and has still to render (`todo`).
Edits, deletions, failed renders, builds that end and builds with `--no-render`
are counted by `slips`.  A document that is not there is `Absent`; here too the
names (`IndexSpec`, `Bodies`) leave room for a second module beside it.

## Runs

Eleven runs that pass, and one that shows a disagreement (below), each one
question.

| run | bounds | shows |
|---|---|---|
| `drift` | one agent, task, reply; two threads, which overlap under one of the two windows; 2 ticks, pivot limit 1, one escalation | stale copies saved by two threads and a human: a checked write follows a fresh pass, and the gate implements `AgentPause` |
| `board_serial` | one worker; the life of one ticket through all statuses with two notes, and the graph of three tickets | refinement of `TaskWorkflow`, no cycle, nothing left open, closing unblocks |
| `board_race` | two workers; one ticket with a note, and two tickets with links | only a human closes, the cascade leaves links |
| `cert_serial` | one request, three certificates of which Caddy refuses one, two hostnames of which it refuses one, two seconds | every failure of every step, those of the restore too: files, Caddyfile and Caddy afterwards |
| `access` | two users, one agent, two rows, two tokens, one worker | tokens, standing, roles and ownership through every sequence of requests; the lists agree |
| `sessions` | one user of two roles and the SA, two ids, two workers, two policies | sessions end by the cap; a lone login makes room; what the views show, while accounts are suspended, demoted and restored |
| `planning` | two workers, one project with a log of four, two to pin, a milestone, a phase, two tickets, a pin limit of one | log within feed, archived is dated, pins bounded |
| `onboarding` | two workers, a guided agent, two other requests, four tickets | the document is whole, agents wait for the gate, the gate opens for good |
| `install` | two requests, one shell, two addresses, three e-mails, five secrets | bounded super admins, a park file that can be read is of use |
| `health` | 6 seconds, two deaths, one refusal, intervals 2 < 3 < 4, edges that fall for three and for four rows | no gap behind a start, crossings told, outages visible, samples resume |
| `docs` | one document of each folder, three texts, both pipelines, two slips | a quiet build is fresh, repeated builds catch up |
| `find_revoked` | as `sessions` | a finding |

The largest are `cert_serial` with 1.8 million distinct states and `drift` with 1.1;
`board_race`, `access`, `docs`, `health`, `sessions` and `board_serial` have between
0.2 and one million.

Why these bounds are enough:

* Agents share no state but the settings, so one suffices for the drift gate.
  Two threads give every pair of interleaved saves; they overlap under the
  longer window only (`OverlapWindow`), because a window of zero leaves no
  pass to go stale; one thread runs under both.
* On the board, two workers give every overlap of two requests, and each race
  found needs only two.  Three tickets give the cycles that take two edges and
  those that take three.  The hop limit is the code's 50.  `Parts` splits a run
  into a ticket's life and the graph, which share only the first states.
* Certificates need two that work, so that a swap changes something, and one
  that Caddy refuses; one second lets backups share a name and two give them
  different ones.  Requests that overlap are covered by the proofs.
* Two users are an owner or super user and another; one worker, because with
  two several of these properties fail (below).
* The largest cap of the two policies is one session, so the second login is the
  one that must make room.  The SA is always a second operator, so the only user
  may be demoted or suspended and come back.  `Parts` keeps the run in bounds: the
  account changes under the policy with the longer window only, and is not
  suspended and demoted at once; the proofs have neither limit.  The workspace
  keeps revoked rows as long as they exist, and its cut at 200 rows is not
  reached.
* `Scopes` splits `planning` into lifecycle, tickets, milestones and pins, each
  with the requests it meets.  Two projects with an empty log are there to be
  pinned and linked.
* Two other requests are enough to reset the onboard and to overlap a stale
  write with it; four tickets cover the absorption tickets of two completions.
* The health monitor refuses only while two seconds are left, and the collector
  does not hang in the last ones (`Quiet`): otherwise the bound on the clock,
  not the code, would keep samples from resuming.  `OutageShows` needs more rows
  than points, which `MAX_DISPLAY = 2` gives.  Doubles halve exactly, so `SomeFall`
  chooses edges that fall: the last one for three rows, an inner one for four,
  none for five; the proof is for any choice.

Deadlock is checked in the runs of the board, the certificates, access,
sessions and the install, which can always take another step.  The counters of
the other models (clock, reads, requests, slips) are bounds of the model, and at
the bound nothing may be left to do.

### Fairness

* `Onboarding`: the server finishes each request it took (`WF(Commit(w))`), and
  the guided agent asks and does as it is told.  The others need not do anything.
* `Health`: time passes, the container restarts the process (`restart:
  unless-stopped`), and the collector's calls return.  The ticker is not fair.
* `DocIndex`: builds are run again and run to their end, as the pipeline's
  header asks ("safe to run on every commit").

The other models have no liveness property and assume none.

### Disagreements

One is kept as a run with its trace, `find_revoked`: most lookups accept a session
that was revoked until it expires, while `models/session.py:30-31` says that the
check asks for both.

The modules keep these formulas, which TLC refutes and no run checks:

| formula | what happens |
|---|---|
| `DriftGate!EscalationNeedsStreak` | an escalation right after a clear, on a stale pivot count; `drift_gate.py:17` says the fourth consecutive fail |
| `DriftGate!ClearUnfreezes` | a cleared agent stays frozen by a second open escalation; `docs/drift-gate.md` says the clear unfreezes it |
| `CertSwap!SwapIsLive` | a swap is answered ok and the wizard says "New cert is live" while Caddy serves the old certificate; `OkIsLive` is what holds |
| `Access!ViewerRoleIsRead` | a viewer who is made the owner writes, although the docstring of `_human_project_role` forces viewers to read |
| `Planning!FullTrail` | two lifecycle requests that overlap leave one entry in the log; `projects.py:1222` calls it the full trail |
| `Onboarding!ContentIsOfHash` | a plan registered again without its content is answered with the content of the plan before |
| `TaskBoard!NothingBlockedByClosed` | a closed ticket is made the blocker of an open one, by POST blocks, by a PATCH or by reopening the blocked ticket, while `projects.py:2546` says that a closed task cannot block anything alive |
| `Planning!PhasesKeepToProject` | a phase is created under a milestone of another project, while `projects.py:973` refuses to move one there |
| `Sessions!SuspensionRevokes` | a suspension leaves the sessions live, while `admin_portal_users.html:932` says "Sessions revoked immediately"; they are refused, slide on under heartbeats, and are accepted again after Unsuspend, where line 944 says "Previous sessions still require re-auth" |
| `Install!RebootstrapCanRun` | with the park file deleted, the bootstrap finds its own accounts in the way, although `bootstrap_forgejo.py:170` says to delete it and re-run |

Others that TLC or reading shows, without a formula of their own:

* An agent's PATCH with an unchanged "done" undoes a human's reopening.
* A ticket with an open blocker moves to needs_review and done, although
  `src/docs/board-model.md:128` says that its status can't progress; and a
  closed ticket may be blocked.
* A chain of more blockers than the hop limit ends the walk early, and the edge
  that closes the cycle is accepted.
* With two workers: two PATCHes block two tickets on each other (`Acyclic`),
  two creates take one number, two PATCHes take a ticket along a transition
  that the table does not have (`WorkflowSpec`), two POST blocks replace one
  another's blocker; and complete counts the open tickets, another request creates
  one, and complete commits (`NothingLeftOpen`), while `projects.py:1113` says that
  all tasks must be resolved.
* With two workers in `Access`: a cycle that commits inside a revoke leaves a
  hash that a restore revives (`DeadTokensStayDead`); an agent is created behind
  the cascade of its creator's removal (`AgentsHaveStanding`); a demotion is
  overtaken by an upgrade of a row (`ViewersOnlyRead`); the last two super users
  demote each other, or ownership goes to a member who is removed meanwhile
  (`AuthorityRemains`).
* Two that create the super admin overlap and both insert one, although
  `bootstrap.py:246-253` refuses whoever finds one; `SuperAdminsOvershoot` bounds
  by how many.
* Pins that overlap pass the limit, although `projects.py:745-749` says "Maximum 5
  pinned projects per user"; `PinsOvershoot` bounds by how many.
* `_restore` of a swap may fail half-way, and puts back only files that were
  there (`proxy.py:371-385`); the refusal is worded as if it had succeeded.
* A graph of the health page may leave its newest row out of every point
  (`health/app.py:286-290`, `315-318`), so that a window that ends in an
  outage row need not show it.
* A restored user is active at once (`admin.py:1517`), although
  `admin_portal_users.html:972` says "Returns as suspended"; and a super user who is
  demoted and promoted again within the term of an elevation has it back.
* A viewer may create a project and its row there says admin, although the
  members' requests give a viewer read only.
* The wizard's reissue-token gives a revoked agent a token again
  (`ui.py:1998-2043`), where the owner's page says "Self-restore NOT allowed"
  (`ui.py:778-780`); `granted` counts such an agent as vouched for.
* `agent_me` answers for an agent whose token has passed `expires_at`;
  `_collect_sessions` counts revoked sessions as online; the search promises
  exact or prefix matches of a number first and takes substrings.
* supersede and revert append to a note's JSON history in place, which the unit
  of work does not see: only the first entry is stored.
* In the index, "re-running ... identical bytes" needs about three builds,
  because the index lists itself; and a failed render leaves the sibling of an
  earlier text in place, where the docstring would leave it missing.
* In the drift gate, an escalation of a path that names no ticket has no ticket
  to clear, an accepted attempt can be linked to a later escalation of the same
  contract read, and a reply is accepted twice with a clear in between.
* `OkIsLive` excludes a swap to the certificate it finds on disk: after a
  refused swap whose reloads were lost, Caddy runs the refused certificate under
  the marker of the one on disk, and uploading that one again loads nothing.

## Proofs

`DriftGateProofs` proves, from `LimitsAssumption` and `NamesAssumption` only:
`TypeCorrect`, `FreshPassHolds`, `HashesHold` and `GateImplementsPause`.

The inductive invariant `GateInv` has three parts.  `TypeInv` adds to the types
what the program counters say about a slot.  `HashInv` says that the memory is
well formed in the row *and in every copy*, because a stale copy may be saved.
`FreshInv` carries the argument for passes: in a row or copy, a contract read
after the pass came within the grace (`RowFresh`), and while a request holds a
copy the committed pass changes only to none or to one accepted in this tick.
Without the second half, a refresh that saves its read time over another
request's pass would break the first.  One lemma per action shows that each part is kept
(`SlotsKeep` and `FreshStep` do what the actions share), and the refinement
maps `Admit`, `Write`, `Escalate`, `ClearCommit`, `ResetAll` and `Toggle` to the
steps of `AgentPause` and everything else to stuttering.

`TaskBoardProofs` proves seven theorems from `BoardAssumption` and
`RowsAssumption`:

* `TypeCorrect`.  The one type that is not obvious is that of the number of a
  new ticket: `MaxExists` shows that a finite set of numbers has a largest one.
* `AgentsOnlyRestore`: `ClosedByHuman` for any number of workers.  The
  invariant `ClosedInv` adds what each request knows: the old status it holds,
  if terminal, is in the history (which only grows), and an agent past the
  gates asks for that status or for an open one.
* `SerialBoardIsAcyclic`: with one worker, and no more tickets than the hop
  limit, the graph stays acyclic.  `ChainInv` says that the visited tickets lead
  nowhere but to the cursor and do not contain the ticket; when the walk ends,
  they are closed under "blocked by", and an edge into such a set closes no
  cycle (`EdgeIntoClosedSet`).  `LimitNotReached` is where the assumption on the
  hop limit is used, and without it a cycle can be closed; with
  two workers TLC finds a cycle of two tickets.
* `SerialBoardImplementsWorkflow`: with one worker, the board implements
  `TaskWorkflow`.  `HeldInv` says that what the request decided on is still so
  when it commits; `PatchMoves` and `NoteSteps` map the commits.
  With two workers TLC finds a move the table does not have.

* `SerialProjectsEndClean`: with one worker, `NothingLeftOpen`.  `EndsInv` adds
  what the only request knows until it commits: a create or a PATCH still stands
  on an active project, and a complete or archive still finds the tickets it
  counted.
* `SerialClosingUnblocks`: with one worker, a ticket that moves to done or
  cancelled is the blocker of none.  It follows from `HeldInv`, which says that
  the downstream tickets the cascade read are all there are at the commit.
* `EdgesBecomeLinks`: with any number of workers, and as long as no link is
  removed, an edge that is taken away leaves a link.  `EdgeInv` says of each
  request that the tickets of its edges exist, that they differ, and that an
  edge it will not link anew has its link already; `Grows`, that tickets and
  links stay, keeps this across the commits of others.

`CertSwapProofs` proves five theorems from `CertAssumption`: `TypeCorrect`,
`DiskHoldsPair`, `SwapRollsBack`, `RefusalRollsBack` and `AcceptedIsLive`.  The
first invariant, `SwapsInv`, has four parts: at most one request is a swap
(`OneSwap`, from `LoopFree`); a backup holds no file that is missing on disk
(`Kept`); the files are sound while no swap is between its writes or on its way to
the restore (`DiskSound`); and at each program counter the files and the backup of
a swap relate as they should to what it found and to its upload (`ReqInv`).
`DiskHoldsPair` and `SwapRollsBack` are about disks that are not `spoiled`: what
the invariant says of the files and of a restore holds until a write of one fails
or a swap finds half a pair, and again from the next swap that is answered ok,
because that one has written both files.  Only a swap writes these files, so the
steps of the other requests keep it at once (`QuietStep`).  The second, `ConfInv`,
follows one request that runs alone: from its write to its undo, the backup of its
second holds the Caddyfile it found, because the second write of a swap comes only
when no refusal is possible any more.  The third, `LiveInv`, follows what Caddy
runs meanwhile.  Its point is the marker: a swap that runs alone first writes the
Caddyfile with the marker of the old certificate and has Caddy take it, so that
the one with the new marker, which it writes last, is one that Caddy can be
running only if it loaded it with the new files.  `CaddyMoves` is what a load or a
restart, whose outcome the code does not control, can make of Caddy.

`AdminProofs` proves seven theorems.

About `Install`, from `InstallAssumption`: `TypeCorrect`, `OvershootIsBounded`
and `ParkHolds`.  For the bound, the super admins and the
requests on their way to the insert together are never more than the requests
that there are.  For the park file, the invariant says of every job what of the
credentials it holds Forgejo already has, and that neither a password nor a
token is ever taken back from the service account.

About `Sessions`, from `SessionAssumption` and `NullAssumption`: `SessionTypes`,
`LoginsMakeRoom`, `ViewsTellTheTruth` and `SessionsEndByCap`, for any people, ids,
threads and policies.  All four rest on one invariant (`Ordered`), `Order`, which is about
the rows *and about what each request has yet to write over them*:

* `Types` gives the pending changes their types: a beat, a term or a revocation,
  never two in one, and no more time than the ceiling of the settings.
* `OwnIds`: an id that a request has taken for a new session is named by no other
  request before its commit.  Without it a commit could write over a row that
  came to be meanwhile.
* `Elevations`: only sessions of the board are elevated, or about to be.  The
  workspace shows an elevation from `elevated_until` alone, the gate also asks for
  the type of the session; they agree on the type because of it.  On the account
  and the role they do not agree: the theorem speaks of active accounts, and of
  elevations while the account is a super user's.
* `Logins`: a login that nobody overlaps revokes sessions that are there, and what
  it leaves is below the cap.  So its commit does not fail, and with the new
  session the cap is reached at most (`MakesRoom`).

The steps fall into three kinds, and the proof follows them: those that only wear
the rows, which leaves none more alive or newly elevated (`WearKeeps`: time, the
gate's touch, the sweep), a request that decides
(`OrderDecide`, `OrderBirth`), and a commit (`OrderCommit`).  `OrderStep` says
besides that nothing but a commit changes a row otherwise than by wear, and
`CommitLeaves` that no commit takes a revocation back, since the rows of a
request name only the columns it changes; that is the second half of
`ViewsTellTheTruth`.  `CapsHaveLargest` finds the largest cap by the
well-foundedness of the strict subsets of a finite set, where induction is out of
reach.

For `SessionsEndByCap`, `Ends` says that age and time left are together within the
ceiling of the cap, of each row, of each row about to be made, and of what each
waiting beat will write: the beat was computed from the age the row had then, and
no commit changes an age, while a tick moves age and time left by as much.

`OnboardingProofs` proves four theorems.  About `Onboarding`, from
`OnboardingAssumption` and `NoneAssumption`: `TypeCorrect`, `WholeDocument` and
`GateHolds`.  `StepShape` reduces every handler to what it asks for (`Asked`): a
document written from the committed one, tickets made, tickets closed.  The
documents pending in `unit` are whole too (`UnitIsWhole`), because a later commit
puts one of them back over whatever was committed since; and the ticket that such
a document names exists or comes with the same commit.  `UnitWaits` says that an
agent about to create a ticket was let through by a gate that was open, or
completes with that very commit.  Type correctness includes that the hint is a
step or none, which needs the least element of a set of positions
(`LeastPosition`).

About `DocIndex`, from `IndexAssumption` and `NamesAssumption`:
`QuietBuildsAreFresh`, for both pipelines, any documents and any bound on the
slips.  The invariant `Fresh` says what a build that nothing has disturbed has
reached (`Quiet`): until the pages are written, each listed document is there and,
if its link promises a page, still to be rendered or rendered from what it says
(`Sound`); once they are rendered nothing is left to do; and the page that was
verified is `Good`.  `NothingMissing` is the step from the one to the other: when
the links are verified, nothing they point to is missing.  A failed render or an
edit gives up `quiet`, and the library that is built meanwhile touches no page
(`FreshLibrary`).

`PlanningProofs` proves, from `PlanningAssumption` and `NoneAssumption`,
`TypeCorrect`, `ArchiveHasDate`, `LogRepeatsFeed` and `PinsAreBounded`.  For the
date, `Dated` says of each pending stamp that clearing the date comes with leaving
"archived" and that a new "archived" comes with a new date; since commits write
columns one by one, this has to hold of what a request *changes*, not of its copy.
That a new date differs from the one loaded needs a bound: all dates are at most
the entries used (`Used`), the events and the stamps in flight.  For the log,
`Repeating` says that what a pending stamp will write back is a log that repeats
the feed as it was, and its own entry (`Continues`): whoever commits in between
only adds to the feed (`RepeatsMore`), and the commit puts the same entry at the
end of both (`RepeatsBoth`).  So entries can be lost from the log, but never come
in another order or without an event; `Numbered` says that no two events, and no
two requests in flight, have the same entry.  For the pins, those of a user and
the requests about to add one stay below the limit plus the number of workers.

`AccessProofs` proves seven theorems from `AccessAssumption` and `NoneAssumption`.
For any number of workers: `TypeCorrect`, `TokensAreUnique` and `ListsAlwaysAgree`.
`BaseInv` says what a request may have pending (`Pending`) and where a token can
be: with one agent, or with one request on its way to one (`OneHolder`).
`ListsAlwaysAgree` rests on it, because an agent shown as active must hold a token
of its own.

For one worker: `SerialTokensStayDead`, `SerialAgentsHaveStanding`,
`SerialViewersOnlyRead` and `SerialAuthorityRemains`.  `Order` is what the tables
have to satisfy together; `OrderInv` says that they satisfy it now *and that they
will after the pending commit* (`OrderAfter`), which is where each handler's guard
is needed, one lemma per handler.  `DeadInv` says that a pending change gives a
dead token no new life.  None of the four holds for two workers (above): a second
commit changes what `OrderAfter` of the first was computed from.

`HealthProofs` proves, from `HealthAssumption`, `TypeCorrect`, `CrossingsAreTold`,
`StartsLeaveNoGap` and `OutagesShow`.

* `RowsInv` orders the table: two rows of one second are a real one and its
  repetition (`Apart`), the rows of a kind are no later than the last job of its
  thread (`Behind`), and a job about to insert is later than any backfill
  (`Later`).  It is what the two threads' common debounce, the backfill and the
  deaths of the process leave of the order of insertion.
* `ToldInv` is `BreachIsTold` together with the sample on its way to the table,
  during which a reader is one crossing behind.  A row with an event is never
  debounced, and the pruning takes the oldest rows first.
* `StartInv` says that the newest row that a start has found is still there and
  that its backfill is in the table before the tagging.  With the rounding of
  `Rounded`, each silence has a point of the backfill in it; that the
  synthetic interval is below the threshold is used here.
* For `OutagesShow`, the rows before a row number it: `Ranked` shows by counting
  that this is a bijection, so that a window lists exactly its rows.  `Edges` says
  that with more rows than points the edges of the slices rise, although any edge
  at a whole product may be one less than it, and that the last is the number of
  rows, or one less where it falls; `Slices`, that the slices therefore cover all
  rows but, in that case, the newest.

### What is only model-checked

Liveness (`GateOpens`, `Resumes`, `CatchesUp`): the prover has no rules for
fairness.  `RevokedIsOut` fails, as `find_revoked` shows.  Every other property of a run is a theorem, those of the serial runs with one
worker as their hypothesis.  The type invariants of
`TaskBoard`, `CertSwap`, `Install`, `Onboarding` and `Planning` are proved and
therefore in no run; of `DocIndex`, `Filed` has the types that its proof needs.

## Not modelled

* Templates, styles, the texts of the contract and of the onboarding documents,
  and the pages that only format other components' state: presentation.
* Migrations and the operator scripts other than the Forgejo bootstrap and the
  index builders: run once, by an operator, outside the running system.
* The user-token and password API: single statements over one row.  The flag
  `must_change_password`, which a reset and a change that overlap can lose, is
  part of it.
* Server-sent events: a list of queues that no handler reads back to decide
  anything.  A full queue drops an event (`events.py:57`), and `broadcast` is
  called from threads on queues of the event loop, so an event may wait for the
  five-second poll of its reader.
* Of the certificates: reading, validation and export, the list of what is
  installed, the audit row, the pruning of old backups, failing writes of the
  Caddyfile, a crash of the app between two writes.
* Of the agents: the one-time token file, and the agent's own member row.
* Of the board: the plain fields that a PATCH copies, the activity log, the text
  and the history of a note, the lists and the search of its pages.
* Of the project lifecycle: the counts that the dashboard and the archive dialog
  show, which are the filter that the requests apply, written once more.
* Of the health monitor: container, TLS and job events, the request rate.
* Of the install: the rate limit per address and the texts.

Next in reach: the composition of `Access` with `Sessions` into one
specification of who may act.
