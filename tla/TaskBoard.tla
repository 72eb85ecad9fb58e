------------------------------ MODULE TaskBoard ------------------------------
(***************************************************************************)
(* The tickets of one project: their statuses, the blocked-by graph, the   *)
(* related links, the completion notes and the status of the project that  *)
(* closes them all.                                                        *)
(*                                                                         *)
(* A worker is one request thread.  A PATCH reads the ticket, resolves its *)
(* caller, passes the gates, walks the chain of blockers one query a hop,  *)
(* reads the tickets that it unblocks and commits; the steps of other      *)
(* requests come in between, because nothing locks a row.  Well-formed     *)
(* requests only: reasons, notes and owner labels of the required length   *)
(* are there, and what a refusal leaves behind is nothing.                 *)
(***************************************************************************)
EXTENDS Naturals, FiniteSets, FiniteSetsExt

CONSTANTS
  Tasks, Notes,  \* rows of tasks; rows of task_notes that are completion notes
  Workers,       \* request threads
  Operations,    \* the endpoints called in this instance
  Actors,        \* who calls them: "agent" and "human", or one of the two
  Goals,         \* the statuses a caller asks for
  MaxHops,       \* how far a cycle check walks: 50
  None,          \* SQL NULL, or no row yet
  Keep           \* a field that a PATCH leaves out

VALID_TRANSITIONS == [
  backlog      |-> {"ready", "in_progress", "needs_review", "cancelled"},
  ready        |-> {"in_progress", "needs_review", "backlog", "cancelled"},
  in_progress  |-> {"needs_review", "blocked", "done", "ready", "cancelled"},
  needs_review |-> {"in_progress", "done", "ready", "blocked", "cancelled"},
  blocked      |-> {"in_progress", "ready", "backlog", "cancelled"},
  done         |-> {"in_progress", "ready"},
  cancelled    |-> {"backlog", "ready", "in_progress"}]
Statuses == DOMAIN VALID_TRANSITIONS
Terminal == {"done", "cancelled"}
Endpoints == {"patch", "block", "create", "relate", "unrelate", "note", "supersede",
              "revert", "complete", "archive", "reopen"}

ASSUME BoardAssumption ==
  /\ Operations \subseteq Endpoints /\ Actors \subseteq {"agent", "human"}
  /\ Goals \subseteq Statuses /\ MaxHops \in Nat \ {0}
ASSUME RowsAssumption ==
  /\ IsFiniteSet(Tasks) /\ None \notin Tasks \cup Notes \cup Statuses
  /\ Keep \notin Tasks \cup Statuses \cup {None}

VARIABLES
  status,     \* Task.status, None before the row is inserted
  number,     \* Task.task_number
  blockedBy,  \* Task.blocked_by_task_id
  links,      \* task_relationships, as unordered pairs
  notes,      \* the completion notes
  project,    \* Project.status and Project.archived_reason
  req,        \* what each worker holds
  closers     \* history: the terminal statuses a human put each ticket in

rows == <<status, number, blockedBy, links, notes, project>>
vars == <<rows, req, closers>>

MaybeTask == Tasks \cup {None}
TaskRows == [status : Statuses \cup {None}, bb : MaybeTask]
NoteStates == {"unborn", "active", "stale", "superseded", "plain"}
NoteRows == [task : MaybeTask, state : NoteStates]
ProjectRows == [status : {"active", "completed", "archived"},
                reason : {None, "completed", "abandoned"}]
Idle == [op |-> "idle"]
EditShapes ==
         [op : {"patch", "block"}, pc : {"loaded", "resolved", "walking", "walked", "cascaded"},
          actor : Actors, task : Tasks, to : Goals \cup {Keep}, bb : MaybeTask \cup {Keep},
          old : TaskRows, seen : TaskRows,
          visited : SUBSET Tasks, cursor : MaybeTask,
          downs : SUBSET Tasks, fresh : SUBSET Tasks, drops : SUBSET Notes]
Edits == {e \in EditShapes : e.op = "block" => e.bb \in Tasks}
Creates == [op : {"create"}, actor : Actors, task : Tasks, to : Goals, num : Nat]
NoteJobs == [op : {"note", "supersede", "revert"}, task : Tasks, note : Notes]
ProjectJobs == [op : {"complete", "archive"}, was : ProjectRows, new : ProjectRows]

TypeOK ==
  /\ status \in [Tasks -> Statuses \cup {None}]
  /\ number \in [Tasks -> Nat]
  /\ blockedBy \in [Tasks -> MaybeTask]
  /\ links \subseteq SUBSET Tasks
  /\ notes \in [Notes -> NoteRows]
  /\ project \in ProjectRows
  /\ req \in [Workers -> {Idle} \cup Edits \cup Creates \cup NoteJobs \cup ProjectJobs]
  /\ closers \in [Tasks -> SUBSET Terminal]

-----------------------------------------------------------------------------
(* Rows and requests *)

Exists(t) == status[t] # None
Row(t) == [status |-> status[t], bb |-> blockedBy[t]]
Free(w) == req[w].op = "idle"
Holds(w, op) == req[w].op = op
Set(w, q) == req' = [req EXCEPT ![w] = q]
Done(w) == Set(w, Idle)

\* The completion notes of the current cycle, and all that are not superseded.
CycleNotes(t) == {n \in Notes : notes[n] = [task |-> t, state |-> "active"]}
LiveNotes(t) == {n \in Notes : notes[n].task = t /\ notes[n].state \in {"active", "stale"}}

\* Tickets that count as open.
OpenTasks == {t \in Tasks : Exists(t) /\ status[t] \notin Terminal}

\* Mutant: closed tickets keep their stale blocker.
OpenDownstream(t) == {d \in OpenTasks : blockedBy[d] = t}

Downstream(t) == {d \in Tasks : blockedBy[d] = t}

Moves(q) == q.to # Keep /\ q.to # q.old.status
MovesBlocker(q) == q.bb # Keep /\ q.bb # q.old.bb
Closes(q) == Moves(q) /\ q.to \in Terminal

Init ==
  /\ status = [t \in Tasks |-> None] /\ number = [t \in Tasks |-> 0]
  /\ blockedBy = [t \in Tasks |-> None] /\ links = {}
  /\ notes = [n \in Notes |-> [task |-> None, state |-> "unborn"]]
  /\ project = [status |-> "active", reason |-> None]
  /\ req = [w \in Workers |-> Idle] /\ closers = [t \in Tasks |-> {}]

-----------------------------------------------------------------------------
(* POST /projects/{slug}/tasks *)

NextNumber == Max({number[u] : u \in Tasks}) + 1

DecideCreate(w) ==
  /\ Free(w) /\ "create" \in Operations /\ project.status = "active"
  /\ \E a \in Actors, to \in Goals, t \in Tasks :
       /\ a = "agent" => to \notin Terminal
       /\ ~Exists(t) /\ \A v \in Workers : Holds(v, "create") => req[v].task # t
       /\ Set(w, [op |-> "create", actor |-> a, task |-> t, to |-> to,
                  num |-> NextNumber])
  /\ UNCHANGED <<rows, closers>>

CommitCreate(w) ==
  LET q == req[w] IN
  /\ Holds(w, "create")
  /\ status' = [status EXCEPT ![q.task] = q.to]
  /\ number' = [number EXCEPT ![q.task] = q.num]
  /\ closers' = [closers EXCEPT ![q.task] =
       IF q.actor = "human" THEN @ \cup ({q.to} \cap Terminal) ELSE @]
  /\ Done(w)
  /\ UNCHANGED <<blockedBy, links, notes, project>>

-----------------------------------------------------------------------------
(* PATCH /tasks/{id} *)

LoadPatch(w) ==
  /\ Free(w) /\ "patch" \in Operations /\ project.status = "active"
  /\ \E a \in Actors, t \in Tasks, to \in Goals \cup {Keep}, bb \in MaybeTask \cup {Keep} :
       /\ Exists(t) /\ (bb \in Tasks => Exists(bb))
       /\ to # Keep \/ bb # Keep
       /\ Set(w, [op |-> "patch", pc |-> IF a = "agent" THEN "loaded" ELSE "resolved",
                  actor |-> a, task |-> t, to |-> to, bb |-> bb,
                  old |-> Row(t), seen |-> Row(t), visited |-> {}, cursor |-> None,
                  downs |-> {}, fresh |-> {}, drops |-> {}])
  /\ UNCHANGED <<rows, closers>>

\* Resolving an agent commits its heartbeat, which expires the ticket that
\* was loaded: the next use of it reads the row again.  The status compared
\* by the gates was copied before.
ResolveAgent(w) ==
  /\ Holds(w, "patch") /\ req[w].pc = "loaded"
  /\ Set(w, [req[w] EXCEPT !.pc = "resolved", !.seen = Row(req[w].task)])
  /\ UNCHANGED <<rows, closers>>

\* Mutant: closing does not ask for a completion note.
CloseWithoutNote(q) ==
  /\ ~(MovesBlocker(q) /\ q.bb = q.task)
  /\ Moves(q) =>
       /\ q.to \in VALID_TRANSITIONS[q.old.status]
       /\ q.actor = "agent" => q.to \notin Terminal

\* Mutant: an agent may close what it owns.
AgentsMayClose(q) ==
  /\ ~(MovesBlocker(q) /\ q.bb = q.task)
  /\ Moves(q) =>
       /\ q.to \in VALID_TRANSITIONS[q.old.status]
       /\ q.to = "done" => CycleNotes(q.task) # {}

GatesOpen(q) ==
  /\ ~(MovesBlocker(q) /\ q.bb = q.task)
  /\ Moves(q) =>
       /\ q.to \in VALID_TRANSITIONS[q.old.status]
       /\ q.actor = "agent" => /\ q.to \notin Terminal
                               /\ ~(q.old.status = "needs_review" /\ q.to = "blocked")
       /\ q.actor = "human" /\ q.to = "done" => CycleNotes(q.task) # {}

\* The notes that a reopening from done supersedes.
Reopened(q) == IF Moves(q) /\ q.old.status = "done" THEN LiveNotes(q.task) ELSE {}

PassGates(w) ==
  LET q == req[w]
      walks == MovesBlocker(q) /\ q.bb # None
  IN
  /\ Holds(w, "patch") /\ q.pc = "resolved" /\ GatesOpen(q)
  /\ Set(w, [q EXCEPT !.pc = IF walks THEN "walking" ELSE "walked",
                      !.cursor = IF walks THEN q.bb ELSE None,
                      !.drops = Reopened(q)])
  /\ UNCHANGED <<rows, closers>>

RefusePatch(w) ==
  /\ Holds(w, "patch") /\ req[w].pc = "resolved" /\ ~GatesOpen(req[w])
  /\ Done(w)
  /\ UNCHANGED <<rows, closers>>

\* Mutant: only the blocker and its own blocker are looked at.
LooksOnce(q) == q.cursor = None \/ q.visited # {}

\* The loop of the cycle check: one query a hop.
WalkEnds(q) == \/ q.cursor \in q.visited \cup {None}
               \/ Cardinality(q.visited) >= MaxHops

Walking(w) == (Holds(w, "patch") \/ Holds(w, "block")) /\ req[w].pc = "walking"

Hop(w) ==
  LET q == req[w] IN
  /\ Walking(w) /\ ~WalkEnds(q) /\ q.cursor # q.task
  /\ Set(w, [q EXCEPT !.visited = @ \cup {q.cursor}, !.cursor = blockedBy[q.cursor]])
  /\ UNCHANGED <<rows, closers>>

EndWalk(w) ==
  /\ Walking(w) /\ WalkEnds(req[w])
  /\ Set(w, [req[w] EXCEPT !.pc = "walked"])
  /\ UNCHANGED <<rows, closers>>

RefuseCycle(w) ==
  /\ Walking(w) /\ ~WalkEnds(req[w]) /\ req[w].cursor = req[w].task
  /\ Done(w)
  /\ UNCHANGED <<rows, closers>>

\* A PATCH that moves the ticket to done or cancelled unblocks whatever the
\* ticket blocks: the edges become related links.
Cascade(w) ==
  LET q == req[w]
      downs == Downstream(q.task)
  IN
  /\ Holds(w, "patch") /\ q.pc = "walked" /\ Closes(q)
  /\ Set(w, [q EXCEPT !.pc = "cascaded", !.downs = downs,
                      !.fresh = {d \in downs : {d, q.task} \notin links}])
  /\ UNCHANGED <<rows, closers>>

\* Mutant: a ticket that was closed meanwhile gets no link.
LinksOfOpen(q) == {{d, q.task} : d \in q.fresh \cap OpenTasks}

NewLinks(q) == {{d, q.task} : d \in q.fresh}

\* The ticket's row as the request leaves it.
Final(q) ==
  [status |-> IF q.to = Keep THEN q.seen.status ELSE q.to,
   bb |-> IF MovesBlocker(q) THEN q.bb ELSE IF q.to \in Terminal THEN None ELSE q.seen.bb]

ReadyToCommit(w) ==
  Holds(w, "patch") /\ req[w].pc = IF Closes(req[w]) THEN "cascaded" ELSE "walked"

\* The unit of work writes the columns that differ from what it loaded.
CommitPatch(w) ==
  LET q == req[w]
      t == q.task
      new == Final(q)
  IN
  /\ ReadyToCommit(w) /\ NewLinks(q) \cap links = {}
  /\ status' = [status EXCEPT ![t] = IF new.status = q.seen.status THEN @ ELSE new.status]
  /\ blockedBy' = [d \in Tasks |->
       IF d = t /\ new.bb # q.seen.bb THEN new.bb
       ELSE IF d \in q.downs THEN None ELSE blockedBy[d]]
  /\ links' = links \cup NewLinks(q)
  /\ notes' = [n \in Notes |->
       IF n \in q.drops THEN [notes[n] EXCEPT !.state = "superseded"]
       ELSE IF n \in CycleNotes(t) /\ Moves(q) /\ q.old.status \in Terminal
       THEN [notes[n] EXCEPT !.state = "stale"]
       ELSE notes[n]]
  /\ closers' = [closers EXCEPT ![t] =
       IF Closes(q) /\ q.actor = "human" THEN @ \cup {q.to} ELSE @]
  /\ Done(w)
  /\ UNCHANGED <<number, project>>

\* A link inserted meanwhile: the unique constraint fails the whole PATCH.
RollBackPatch(w) ==
  /\ ReadyToCommit(w) /\ NewLinks(req[w]) \cap links # {}
  /\ Done(w)
  /\ UNCHANGED <<rows, closers>>

-----------------------------------------------------------------------------
(* POST /tasks/{id}/blocks: the ticket s becomes the blocker of t *)

LoadBlock(w) ==
  /\ Free(w) /\ "block" \in Operations
  /\ \E a \in Actors, s, t \in Tasks :
       /\ Exists(s) /\ Exists(t) /\ s # t /\ blockedBy[t] = None
       /\ Set(w, [op |-> "block", pc |-> "walking", actor |-> a, task |-> t, to |-> Keep,
                  bb |-> s, old |-> Row(t), seen |-> Row(t), visited |-> {},
                  cursor |-> blockedBy[s], downs |-> {}, fresh |-> {}, drops |-> {}])
  /\ UNCHANGED <<rows, closers>>

CommitBlock(w) ==
  /\ Holds(w, "block") /\ req[w].pc = "walked"
  /\ blockedBy' = [blockedBy EXCEPT ![req[w].task] = req[w].bb]
  /\ Done(w)
  /\ UNCHANGED <<status, number, links, notes, project, closers>>

-----------------------------------------------------------------------------
(* Related links: the unique pair makes each request one step *)

AddRelated(w) ==
  /\ Free(w) /\ "relate" \in Operations
  /\ \E s, t \in Tasks :
       /\ Exists(s) /\ Exists(t) /\ s # t /\ {s, t} \notin links
       /\ links' = links \cup {{s, t}}
  /\ UNCHANGED <<status, number, blockedBy, notes, project, req, closers>>

RemoveRelated(w) ==
  /\ Free(w) /\ "unrelate" \in Operations
  /\ \E l \in links : links' = links \ {l}
  /\ UNCHANGED <<status, number, blockedBy, notes, project, req, closers>>

-----------------------------------------------------------------------------
(* Completion notes; only a human posts one or touches one *)

DecideNote(w) ==
  /\ Free(w) /\ "human" \in Actors
  /\ \E t \in Tasks, n \in Notes :
       /\ Exists(t)
       /\ \/ /\ "note" \in Operations /\ project.status = "active"
             /\ notes[n].state = "unborn"
             /\ \A v \in Workers : Holds(v, "note") => req[v].note # n
             /\ Set(w, [op |-> "note", task |-> t, note |-> n])
          \/ /\ "supersede" \in Operations /\ n \in LiveNotes(t) /\ status[t] # "done"
             /\ Set(w, [op |-> "supersede", task |-> t, note |-> n])
          \/ /\ "revert" \in Operations /\ status[t] # "done"
             /\ notes[n] = [task |-> t, state |-> "superseded"]
             /\ Set(w, [op |-> "revert", task |-> t, note |-> n])
  /\ UNCHANGED <<rows, closers>>

WriteNote(w, op, state) ==
  /\ Holds(w, op)
  /\ notes' = [notes EXCEPT ![req[w].note] = [task |-> req[w].task, state |-> state]]
  /\ Done(w)
  /\ UNCHANGED <<status, number, blockedBy, links, project, closers>>

CreateNote(w) == WriteNote(w, "note", "active")
SupersedeNote(w) == WriteNote(w, "supersede", "superseded")
\* A reverted note is no completion note any more.
RevertSupersede(w) == WriteNote(w, "revert", "plain")

-----------------------------------------------------------------------------
(* Closing and reopening the project *)

\* Mutant: the open tickets are not counted.
CompleteUncounted(w) ==
  /\ Free(w) /\ "complete" \in Operations /\ project.status = "active"
  /\ Set(w, [op |-> "complete", was |-> project,
             new |-> [project EXCEPT !.status = "completed"]])
  /\ UNCHANGED <<rows, closers>>

DecideComplete(w) ==
  /\ Free(w) /\ "complete" \in Operations
  /\ project.status = "active" /\ OpenTasks = {}
  /\ Set(w, [op |-> "complete", was |-> project,
             new |-> [project EXCEPT !.status = "completed"]])
  /\ UNCHANGED <<rows, closers>>

\* Forced or not, and from any status: open tickets make it "abandoned".
DecideArchive(w) ==
  /\ Free(w) /\ "archive" \in Operations
  /\ Set(w, [op |-> "archive", was |-> project,
             new |-> [status |-> "archived",
                      reason |-> IF OpenTasks = {} THEN "completed" ELSE "abandoned"]])
  /\ UNCHANGED <<rows, closers>>

CommitProject(w) ==
  LET q == req[w] IN
  /\ Holds(w, "complete") \/ Holds(w, "archive")
  /\ project' = [c \in DOMAIN project |-> IF q.new[c] = q.was[c] THEN project[c] ELSE q.new[c]]
  /\ Done(w)
  /\ UNCHANGED <<status, number, blockedBy, links, notes, closers>>

ReopenProject(w) ==
  /\ Free(w) /\ "reopen" \in Operations /\ project.status # "active"
  /\ project' = [project EXCEPT !.status = "active"]
  /\ UNCHANGED <<status, number, blockedBy, links, notes, req, closers>>

-----------------------------------------------------------------------------
Next == \E w \in Workers :
  \/ DecideCreate(w) \/ CommitCreate(w)
  \/ LoadPatch(w) \/ ResolveAgent(w) \/ PassGates(w) \/ RefusePatch(w)
  \/ Hop(w) \/ EndWalk(w) \/ RefuseCycle(w) \/ Cascade(w)
  \/ CommitPatch(w) \/ RollBackPatch(w)
  \/ LoadBlock(w) \/ CommitBlock(w)
  \/ AddRelated(w) \/ RemoveRelated(w)
  \/ DecideNote(w) \/ CreateNote(w) \/ SupersedeNote(w) \/ RevertSupersede(w)
  \/ DecideComplete(w) \/ DecideArchive(w) \/ CommitProject(w) \/ ReopenProject(w)

Spec == Init /\ [][Next]_vars

-----------------------------------------------------------------------------
(* What is right, whatever the interleaving *)

\* A ticket that is done or cancelled was put there by a human at some time:
\* an agent can at most bring back a closure that a human once decided.
ClosedByHuman == \A t \in Tasks : status[t] \in Terminal => status[t] \in closers[t]

(* What is right when requests do not overlap *)

\* No ticket waits for itself, directly or through others: no set of tickets
\* has all its blockers inside (the cycle checks of PATCH and POST blocks).
IsAcyclic(f) == \A S \in SUBSET Tasks : S # {} => \E t \in S : f[t] \notin S
Acyclic == IsAcyclic(blockedBy)

\* Each ticket goes through the life TaskWorkflow allows.
Workflow == INSTANCE TaskWorkflow WITH noted <- [t \in Tasks |-> CycleNotes(t) # {}]
WorkflowSpec == Workflow!Spec

\* A completed project has no open ticket, nor one archived as completed.
NothingLeftOpen ==
  project.status = "completed" \/ (project.status = "archived" /\ project.reason = "completed")
    => OpenTasks = {}

(* What the code says of itself, and is not so *)

\* "A done/cancelled task cannot "block" anything alive" (VF-163): no open
\* ticket has a closed one for its blocker.  (Refuted: README, Disagreements.)
NothingBlockedByClosed ==
  \A d \in OpenTasks : blockedBy[d] # None => status[blockedBy[d]] \notin Terminal
=============================================================================
