------------------------------ MODULE Planning ------------------------------
(***************************************************************************)
(* The frame around the tickets: a project's lifecycle and its log, the    *)
(* milestones and the phases that tickets hang on, and the projects that a *)
(* user pins to the home page.                                             *)
(*                                                                         *)
(* A request reads, decides and commits.  What it commits is the set of    *)
(* columns that it changed from the row it had loaded: a column set to the *)
(* value it had is not written.  Another request may commit in between.    *)
(* Callers have the role that the endpoint asks for (module Access), and   *)
(* reasons and summaries are there.                                        *)
(***************************************************************************)
EXTENDS Naturals, FiniteSets, Sequences, SequencesExt

CONSTANTS
  Projects, Milestones, Phases, Tasks, Users,  \* the rows there can be
  Workers,   \* request threads
  MaxPins,   \* pins of one user: 5
  Scopes,    \* the sets of endpoints that the requests of one behaviour call
  MaxFeed,   \* bound on the lifecycle events of each project
  None       \* SQL NULL, or no row yet

Endpoints == {"rename", "complete", "archive", "reopen", "milestone", "phase", "task", "close", "pin"}

ASSUME PlanningAssumption ==
  /\ Scopes \subseteq SUBSET Endpoints
  /\ MaxPins \in Nat \ {0} /\ MaxFeed \in [Projects -> Nat]
  /\ IsFiniteSet(Workers) /\ Workers # {} /\ IsFiniteSet(Projects)
  /\ None \notin Projects \cup Milestones \cup Phases

VARIABLES
  project,   \* projects: status, archived_at (0 is NULL) and lifecycle_log
  feed,      \* activity_events of each project's lifecycle, oldest first
  milestone, phase, task,  \* the rows that exist, None for the others
  pins,      \* user_project_pins: the pinned projects of each user
  scope,     \* the endpoints called in this behaviour
  unit       \* what each request is about to commit

structure == <<milestone, phase, task>>
vars == <<project, feed, structure, pins, scope, unit>>

\* An entry is told by a number of its own, whatever act it names.
Entries == Nat \ {0}
Row == [status : {"active", "completed", "archived"}, at : Nat, log : Seq(Entries)]

MilestoneRow == [project : Projects, status : {"active", "done"}]
PhaseRow == [project : Projects, milestone : Milestones \cup {None}]
TaskRow == [project : Projects, phase : Phases \cup {None}, open : BOOLEAN, kind : {"work", "phase"}]

\* NULL is told from a row.
ASSUME NoneAssumption == None \notin MilestoneRow

Idle == [op |-> "idle"]
Stamps == [op : {"stamp"}, project : Projects, entry : Entries, old : Row, new : Row]
PinJobs == [op : {"pin", "unpin"}, user : Users, project : Projects]
CloseJobs == [op : {"close"}, milestone : Milestones]

-----------------------------------------------------------------------------
Free(w) == unit[w] = Idle
Plan(w, u) == unit' = [unit EXCEPT ![w] = u]

\* The identifiers that a foreign key to these rows accepts.
Keys(rows) == {None} \cup {k \in DOMAIN rows : rows[k] # None}

\* Tickets that hold a project open: the phase tickets of the old import do not.
OpenTasks(p) == {t \in Tasks : task[t] # None /\ task[t].project = p /\ task[t].open
                                 /\ task[t].kind # "phase"}
OpenMilestones(p) == {m \in Milestones :
  milestone[m] # None /\ milestone[m].project = p /\ milestone[m].status # "done"}

\* The tickets, phase tickets too, that hold a milestone open.
OpenWork(m) == {t \in Tasks : /\ task[t] # None /\ task[t].open /\ task[t].phase # None
                              /\ phase[task[t].phase].milestone = m}

Init ==
  /\ project = [p \in Projects |-> [status |-> "active", at |-> 0, log |-> <<>>]]
  /\ feed = [p \in Projects |-> <<>>]
  /\ milestone = [m \in Milestones |-> None] /\ phase = [f \in Phases |-> None]
  /\ task = [t \in Tasks |-> None]
  /\ pins = [u \in Users |-> {}] /\ scope \in Scopes
  /\ unit = [w \in Workers |-> Idle]

-----------------------------------------------------------------------------
(* The lifecycle *)

\* Mutant: the entry is put before the others.
LogBackwards(r, entry) == [r EXCEPT !.log = <<entry>> \o r.log]

_append_lifecycle(r, entry) == [r EXCEPT !.log = Append(r.log, entry)]

\* The requests about to append to a project's log.
Stamping(p) == {w \in Workers : unit[w].op = "stamp" /\ unit[w].project = p}

\* The next number: the events have those before it, or the requests about to append.
Fresh(p) == Len(feed[p]) + Cardinality(Stamping(p)) + 1

\* The request has loaded the row, and will commit it with one more entry.
Stamp(w, op, p, new) ==
  /\ op \in scope /\ Free(w) /\ Len(feed[p]) < MaxFeed[p]
  /\ Plan(w, [op |-> "stamp", project |-> p, entry |-> Fresh(p), old |-> project[p],
              new |-> _append_lifecycle(new, Fresh(p))])
  /\ UNCHANGED <<project, feed, structure, pins, scope>>

update_project(w, p) == Stamp(w, "rename", p, project[p])

complete_project(w, p, force) ==
  /\ project[p].status = "active"
  /\ OpenTasks(p) = {} /\ (OpenMilestones(p) = {} \/ force)
  /\ Stamp(w, "complete", p, [project[p] EXCEPT !.status = "completed"])

archive_project(w, p, force) ==
  /\ OpenTasks(p) = {} \/ force
  /\ Stamp(w, "archive", p, [project[p] EXCEPT !.status = "archived", !.at = Fresh(p)])

\* Mutant: any project reopens.
ReopenAny(w, p) == Stamp(w, "reopen", p, [project[p] EXCEPT !.status = "active", !.at = 0])

reopen_project(w, p) ==
  /\ project[p].status \in {"archived", "completed"}
  /\ Stamp(w, "reopen", p, [project[p] EXCEPT !.status = "active", !.at = 0])

\* The UPDATE: the columns that changed, over the row as it is by now.
Written(u) ==
  LET now == project[u.project] IN
  [status |-> IF u.new.status # u.old.status THEN u.new.status ELSE now.status,
   at     |-> IF u.new.at # u.old.at THEN u.new.at ELSE now.at,
   log    |-> u.new.log]

CommitStamp(w) ==
  /\ unit[w].op = "stamp"
  /\ LET u == unit[w] IN
       /\ project' = [project EXCEPT ![u.project] = Written(u)]
       /\ feed' = [feed EXCEPT ![u.project] = Append(@, u.entry)]
  /\ Plan(w, Idle)
  /\ UNCHANGED <<structure, pins, scope>>

-----------------------------------------------------------------------------
(* Milestones, phases and the tickets under them *)

create_milestone(m, p, status) ==
  /\ "milestone" \in scope /\ milestone[m] = None
  /\ milestone' = [milestone EXCEPT ![m] = [project |-> p, status |-> status]]
  /\ UNCHANGED <<project, feed, phase, task, pins, scope, unit>>

\* Any milestone that exists will do, of this project or of another.
create_phase(f, p, m) ==
  /\ "phase" \in scope /\ phase[f] = None /\ m \in Keys(milestone)
  /\ phase' = [phase EXCEPT ![f] = [project |-> p, milestone |-> m]]
  /\ UNCHANGED <<project, feed, milestone, task, pins, scope, unit>>

update_phase(f, m) ==
  /\ "phase" \in scope /\ phase[f] # None /\ phase[f].milestone # m
  /\ m \in Keys(milestone) /\ (m # None => milestone[m].project = phase[f].project)
  /\ phase' = [phase EXCEPT ![f].milestone = m]
  /\ UNCHANGED <<project, feed, milestone, task, pins, scope, unit>>

\* POST tasks puts the ticket in a phase of its own project, or in none.
create_task(t, p, f, kind) ==
  /\ "task" \in scope /\ task[t] = None /\ project[p].status = "active"
  /\ f \in Keys(phase) /\ (f # None => phase[f].project = p)
  /\ task' = [task EXCEPT ![t] = [project |-> p, phase |-> f, open |-> TRUE, kind |-> kind]]
  /\ UNCHANGED <<project, feed, milestone, phase, pins, scope, unit>>

\* PATCH tasks moves the ticket to any phase, closes it or opens it again.
patch_task(t, f, open) ==
  /\ "task" \in scope /\ task[t] # None /\ project[task[t].project].status = "active"
  /\ f \in Keys(phase)
  /\ task' = [task EXCEPT ![t].phase = f, ![t].open = open]
  /\ UNCHANGED <<project, feed, milestone, phase, pins, scope, unit>>

close_milestone(w, m) ==
  /\ "close" \in scope /\ Free(w) /\ milestone[m] # None /\ OpenWork(m) = {}
  /\ Plan(w, [op |-> "close", milestone |-> m])
  /\ UNCHANGED <<project, feed, structure, pins, scope>>

CommitClose(w) ==
  /\ unit[w].op = "close"
  /\ milestone' = [milestone EXCEPT ![unit[w].milestone].status = "done"]
  /\ Plan(w, Idle)
  /\ UNCHANGED <<project, feed, phase, task, pins, scope>>

reopen_milestone(m) ==
  /\ "close" \in scope /\ milestone[m] # None
  /\ milestone' = [milestone EXCEPT ![m].status = "active"]
  /\ UNCHANGED <<project, feed, phase, task, pins, scope, unit>>

-----------------------------------------------------------------------------
(* Pins *)

\* Mutant: the limit counts one pin less.
RoomForMore(u) == Cardinality(pins[u]) <= MaxPins

RoomToPin(u) == Cardinality(pins[u]) < MaxPins

pin_project(w, u, p, pinned) ==
  /\ "pin" \in scope /\ Free(w)
  /\ IF pinned THEN p \notin pins[u] /\ RoomToPin(u) ELSE p \in pins[u]
  /\ Plan(w, [op |-> IF pinned THEN "pin" ELSE "unpin", user |-> u, project |-> p])
  /\ UNCHANGED <<project, feed, structure, pins, scope>>

\* A second row of the same pin breaks the unique constraint, and deleting a
\* row that is gone deletes nothing: either way the pins stay as they are.
CommitPin(w) ==
  /\ unit[w].op \in {"pin", "unpin"}
  /\ LET u == unit[w] IN
       pins' = [pins EXCEPT ![u.user] =
                  IF u.op = "pin" THEN @ \cup {u.project} ELSE @ \ {u.project}]
  /\ Plan(w, Idle)
  /\ UNCHANGED <<project, feed, structure, scope>>

-----------------------------------------------------------------------------
Lifecycle ==
  \E w \in Workers, p \in Projects :
    \/ update_project(w, p)
    \/ reopen_project(w, p)
    \/ \E force \in BOOLEAN : complete_project(w, p, force) \/ archive_project(w, p, force)

Structure ==
  \/ \E m \in Milestones, p \in Projects, s \in {"active", "done"} : create_milestone(m, p, s)
  \/ \E f \in Phases, p \in Projects, m \in Milestones \cup {None} : create_phase(f, p, m)
  \/ \E f \in Phases, m \in Milestones \cup {None} : update_phase(f, m)
  \/ \E t \in Tasks, p \in Projects, f \in Phases \cup {None}, k \in {"work", "phase"} :
       create_task(t, p, f, k)
  \/ \E t \in Tasks, f \in Phases \cup {None}, open \in BOOLEAN : patch_task(t, f, open)
  \/ \E w \in Workers, m \in Milestones : close_milestone(w, m)
  \/ \E m \in Milestones : reopen_milestone(m)

Next ==
  \/ Lifecycle
  \/ Structure
  \/ \E w \in Workers, u \in Users, p \in Projects, pinned \in BOOLEAN : pin_project(w, u, p, pinned)
  \/ \E w \in Workers : CommitStamp(w) \/ CommitClose(w) \/ CommitPin(w)

Spec == Init /\ [][Next]_vars

-----------------------------------------------------------------------------
(* Properties *)

\* The rows and the requests are well formed.
TypeOK ==
  /\ project \in [Projects -> Row]
  /\ feed \in [Projects -> Seq(Entries)]
  /\ milestone \in [Milestones -> {None} \cup MilestoneRow]
  /\ phase \in [Phases -> {None} \cup PhaseRow] /\ task \in [Tasks -> {None} \cup TaskRow]
  /\ pins \in [Users -> SUBSET Projects] /\ scope \in Scopes
  /\ unit \in [Workers -> {Idle} \cup Stamps \cup PinJobs \cup CloseJobs]

\* The places of the log's entries among the events, in the same order.
Repeats(log, events) == \E at \in [DOMAIN log -> DOMAIN events] :
  /\ \A i \in DOMAIN log : log[i] = events[at[i]]
  /\ \A i, j \in DOMAIN log : i < j => at[i] < at[j]

\* The feed tells a project's history, each event once, and the log repeats it: the
\* entries of the log are events, in their order, and the last of both is the same,
\* whatever requests overlapped (_append_lifecycle beside the ActivityEvent of the commit).
LogWithinFeed == \A p \in Projects :
  LET log == project[p].log IN
  /\ IsInjective(feed[p]) /\ Repeats(log, feed[p])
  /\ feed[p] # <<>> => log # <<>> /\ Last(log) = Last(feed[p])

\* An archived project has the date of its archiving: the two columns come and go
\* together, although a commit writes only those that it changed.
ArchivedIsDated == \A p \in Projects : project[p].status = "archived" => project[p].at # 0

\* Requests of one user that overlap pass the limit of pins by one each, and
\* no more, however long they go on.
PinsOvershoot == \A u \in Users : Cardinality(pins[u]) < MaxPins + Cardinality(Workers)

\* "Phases can only link to milestones within the same project": PATCH phases asks
\* for it, POST phases does not.  (Refuted: README, Disagreements.)
PhasesKeepToProject == \A f \in Phases :
  phase[f] # None /\ phase[f].milestone # None =>
    milestone[phase[f].milestone].project = phase[f].project

\* Of the lifecycle: "lifecycle_log has the full trail".
\* (Refuted: README, Disagreements.)
FullTrail == \A p \in Projects : project[p].log = feed[p]
=============================================================================
