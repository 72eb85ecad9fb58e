--------------------------- MODULE TaskBoardProofs ---------------------------
(***************************************************************************)
(* Theorems about TaskBoard and its views, for every value of their        *)
(* constants.                                                              *)
(***************************************************************************)
EXTENDS BoardViews, FiniteSetTheorems, WellFoundedInduction, TLAPS

-----------------------------------------------------------------------------
(* The next ticket number *)

\* A finite set of numbers that is not empty has a largest element: the one
\* with the fewest numbers above it.
LEMMA MaxExists ==
  ASSUME NEW S, IsFiniteSet(S), S \subseteq Nat, S # {}
  PROVE  Max(S) \in S /\ \A y \in S : Max(S) >= y
<1> DEFINE Up(x) == {y \in S : y >= x}
           C == {Up(x) : x \in S}
           R == StrictSubsetOrdering(S)
<1>1. C # {} /\ C \subseteq FiniteSubsetsOf(S)
  <2>1. FiniteSubsetsOf(S) = SUBSET S BY FS_FiniteSubsetsOfFinite
  <2>2. \A x \in S : Up(x) \in SUBSET S OBVIOUS
  <2>3. C \subseteq SUBSET S
    <3> HIDE DEF Up
    <3>1. QED BY <2>2
  <2>4. PICK x \in S : TRUE OBVIOUS
  <2>5. Up(x) \in C OBVIOUS
  <2>6. QED
    <3> HIDE DEF C
    <3>1. QED BY <2>1, <2>3, <2>5
<1>2. PICK c \in C : \A d \in C : <<d, c>> \notin R
  <2>1. IsWellFoundedOn(R, FiniteSubsetsOf(S)) BY FS_StrictSubsetOrderingWellFounded
  <2> HIDE DEF C, R
  <2>2. QED BY <1>1, <2>1, WFMin
<1>3. PICK x \in S : c = Up(x)
  <2> HIDE DEF Up
  <2>1. QED OBVIOUS
<1>4. \A y \in S : x >= y
  <2> SUFFICES ASSUME NEW y \in S, ~(x >= y) PROVE FALSE OBVIOUS
  <2>1. x \in Nat /\ y \in Nat OBVIOUS
  <2>2. x \in Up(x) /\ x \notin Up(y) BY <2>1
  <2>6. Up(y) \subseteq Up(x)
    <3>1. \A z \in S : z \in Nat /\ (z >= y => z >= x) BY <2>1
    <3>2. QED BY <3>1
  <2>3. Up(x) \in SUBSET S /\ Up(y) \in SUBSET S /\ Up(y) \in C OBVIOUS
  <2>4. <<Up(y), c>> \in R
    <3> HIDE DEF Up
    <3>1. QED BY <2>2, <2>6, <2>3, <1>3 DEF StrictSubsetOrdering
  <2>5. QED BY <2>3, <2>4, <1>2
<1>5. QED BY <1>4 DEF Max

LEMMA NextNumberIsNat ==
  ASSUME TypeOK, Tasks # {}
  PROVE  NextNumber \in Nat /\ \A t \in Tasks : number[t] < NextNumber
<1> DEFINE S == {number[u] : u \in Tasks}
<1>1. number \in [Tasks -> Nat] BY DEF TypeOK
<1>2. number \in Surjection(Tasks, S) BY <1>1 DEF Surjection
<1>3. IsFiniteSet(S)
  <2> HIDE DEF S
  <2>1. QED BY <1>2, RowsAssumption, FS_Surjection
<1>4. S \subseteq Nat /\ S # {} BY <1>1
<1>5. Max(S) \in Nat /\ \A y \in S : Max(S) >= y
  <2> HIDE DEF S
  <2>1. QED BY <1>3, <1>4, MaxExists
<1>6. NextNumber = Max(S) + 1 BY DEF NextNumber
<1>7. \A t \in Tasks : number[t] \in S OBVIOUS
<1> HIDE DEF S
<1>8. QED BY <1>1, <1>5, <1>6, <1>7

-----------------------------------------------------------------------------
(* Types *)

\* What a worker holds has the shape of its operation.
LEMMA Shapes ==
  ASSUME TypeOK, NEW w \in Workers
  PROVE  /\ Holds(w, "patch") \/ Holds(w, "block") => req[w] \in Edits
         /\ Holds(w, "create") => req[w] \in Creates
         /\ Holds(w, "note") \/ Holds(w, "supersede") \/ Holds(w, "revert") => req[w] \in NoteJobs
         /\ Holds(w, "complete") \/ Holds(w, "archive") => req[w] \in ProjectJobs
<1>1. req[w] \in {Idle} \cup Edits \cup Creates \cup NoteJobs \cup ProjectJobs BY DEF TypeOK
<1>2. QED BY <1>1 DEF Holds, Idle, EditShapes, Edits, Creates, NoteJobs, ProjectJobs

LEMMA RowIsRow == ASSUME TypeOK, NEW t \in Tasks PROVE Row(t) \in TaskRows
BY DEF TypeOK, Row, TaskRows

\* A step that only sets what a worker holds.
LEMMA SetTypes ==
  ASSUME TypeOK, NEW w \in Workers, NEW q \in {Idle} \cup Edits \cup Creates \cup NoteJobs \cup ProjectJobs,
         Set(w, q), UNCHANGED <<rows, closers>>
  PROVE  TypeOK'
BY DEF TypeOK, Set, rows

LEMMA IdleReq ==
  ASSUME TypeOK, NEW w \in Workers, Done(w)
  PROVE  req' \in [Workers -> {Idle} \cup Edits \cup Creates \cup NoteJobs \cup ProjectJobs]
BY DEF TypeOK, Done, Set

LEMMA PatchTypes ==
  ASSUME TypeOK, NEW w \in Workers,
         \/ LoadPatch(w) \/ ResolveAgent(w) \/ PassGates(w) \/ RefusePatch(w)
         \/ Hop(w) \/ EndWalk(w) \/ RefuseCycle(w) \/ Cascade(w) \/ RollBackPatch(w) \/ LoadBlock(w)
  PROVE  TypeOK'
<1> USE SetTypes, Shapes
<1>1. CASE LoadPatch(w)
  <2>1. PICK a \in Actors, t \in Tasks, to \in Goals \cup {Keep}, bb \in MaybeTask \cup {Keep} :
          Set(w, [op |-> "patch", pc |-> IF a = "agent" THEN "loaded" ELSE "resolved",
                  actor |-> a, task |-> t, to |-> to, bb |-> bb,
                  old |-> Row(t), seen |-> Row(t), visited |-> {}, cursor |-> None,
                  downs |-> {}, fresh |-> {}, drops |-> {}])
    BY <1>1 DEF LoadPatch
  <2>2. Row(t) \in TaskRows BY RowIsRow
  <2>3. [op |-> "patch", pc |-> IF a = "agent" THEN "loaded" ELSE "resolved",
                  actor |-> a, task |-> t, to |-> to, bb |-> bb,
                  old |-> Row(t), seen |-> Row(t), visited |-> {}, cursor |-> None,
                  downs |-> {}, fresh |-> {}, drops |-> {}] \in Edits
    BY <2>2 DEF EditShapes, Edits, MaybeTask
  <2>4. QED BY <1>1, <2>1, <2>3 DEF LoadPatch
<1>2. CASE ResolveAgent(w)
  <2>1. req[w] \in Edits /\ req[w].task \in Tasks BY <1>2 DEF ResolveAgent, EditShapes, Edits
  <2>2. Row(req[w].task) \in TaskRows BY <2>1, RowIsRow
  <2>3. [req[w] EXCEPT !.pc = "resolved", !.seen = Row(req[w].task)] \in Edits
    BY <2>1, <2>2 DEF EditShapes, Edits
  <2>4. QED BY <1>2, <2>3 DEF ResolveAgent
<1>3. CASE PassGates(w)
  <2> DEFINE q == req[w]
             walks == MovesBlocker(q) /\ q.bb # None
             new == [q EXCEPT !.pc = IF walks THEN "walking" ELSE "walked",
                              !.cursor = IF walks THEN q.bb ELSE None, !.drops = Reopened(q)]
  <2>1. q \in Edits BY <1>3 DEF PassGates
  <2>2. Reopened(q) \in SUBSET Notes BY DEF Reopened, LiveNotes
  <2>3. (IF walks THEN q.bb ELSE None) \in MaybeTask
    BY <2>1 DEF EditShapes, Edits, MaybeTask, MovesBlocker
  <2>4. (IF walks THEN "walking" ELSE "walked") \in {"walking", "walked"} OBVIOUS
  <2>5. new \in Edits
    <3>1. q \in EditShapes /\ q.op = "patch" BY <1>3, <2>1 DEF Edits, PassGates, Holds
    <3> HIDE DEF walks, q
    <3>2. new \in EditShapes BY <3>1, <2>2, <2>3, <2>4 DEF EditShapes
    <3>3. new.op = q.op BY <3>1 DEF EditShapes
    <3>4. QED BY <3>1, <3>2, <3>3 DEF Edits
  <2>6. Set(w, new) /\ UNCHANGED <<rows, closers>> BY <1>3 DEF PassGates
  <2> HIDE DEF new
  <2>7. QED BY <2>5, <2>6
<1>4. CASE RefusePatch(w) \/ RefuseCycle(w) \/ RollBackPatch(w)
  BY <1>4 DEF RefusePatch, RefuseCycle, RollBackPatch, Done
<1>5. CASE Hop(w)
  <2>1. req[w] \in Edits /\ req[w].cursor \in Tasks
    BY <1>5 DEF Hop, Walking, WalkEnds, EditShapes, Edits, MaybeTask
  <2>2. blockedBy[req[w].cursor] \in MaybeTask BY <2>1 DEF TypeOK
  <2>3. [req[w] EXCEPT !.visited = @ \cup {req[w].cursor}, !.cursor = blockedBy[req[w].cursor]] \in Edits
    BY <2>1, <2>2 DEF EditShapes, Edits
  <2>4. QED BY <1>5, <2>3 DEF Hop
<1>6. CASE EndWalk(w)
  <2>1. req[w] \in Edits BY <1>6 DEF EndWalk, Walking
  <2>2. [req[w] EXCEPT !.pc = "walked"] \in Edits BY <2>1 DEF EditShapes, Edits
  <2>3. QED BY <1>6, <2>2 DEF EndWalk
<1>7. CASE Cascade(w)
  <2> DEFINE q == req[w]
             new == [q EXCEPT !.pc = "cascaded", !.downs = Downstream(q.task),
                     !.fresh = {d \in Downstream(q.task) : {d, q.task} \notin links}]
  <2>1. q \in Edits BY <1>7 DEF Cascade
  <2>2. Downstream(q.task) \subseteq Tasks BY DEF Downstream
  <2>3. new \in Edits BY <2>1, <2>2 DEF EditShapes, Edits
  <2>4. Set(w, new) /\ UNCHANGED <<rows, closers>> BY <1>7 DEF Cascade
  <2> HIDE DEF new
  <2>5. QED BY <2>3, <2>4
<1>8. CASE LoadBlock(w)
  <2>1. PICK a \in Actors, s, t \in Tasks :
          Set(w, [op |-> "block", pc |-> "walking", actor |-> a, task |-> t, to |-> Keep,
                  bb |-> s, old |-> Row(t), seen |-> Row(t), visited |-> {},
                  cursor |-> blockedBy[s], downs |-> {}, fresh |-> {}, drops |-> {}])
    BY <1>8 DEF LoadBlock
  <2>2. Row(t) \in TaskRows BY RowIsRow
  <2>3. blockedBy[s] \in MaybeTask BY DEF TypeOK
  <2>4. [op |-> "block", pc |-> "walking", actor |-> a, task |-> t, to |-> Keep,
                  bb |-> s, old |-> Row(t), seen |-> Row(t), visited |-> {},
                  cursor |-> blockedBy[s], downs |-> {}, fresh |-> {}, drops |-> {}] \in Edits
    BY <2>2, <2>3 DEF EditShapes, Edits, MaybeTask
  <2>5. QED BY <1>8, <2>1, <2>4 DEF LoadBlock
<1>9. QED BY <1>1, <1>2, <1>3, <1>4, <1>5, <1>6, <1>7, <1>8

\* What a PATCH leaves in the row of its ticket is a status and a blocker.
LEMMA FinalType ==
  ASSUME NEW q \in Edits
  PROVE  /\ Final(q).bb \in MaybeTask
         /\ Final(q).status # q.seen.status => Final(q).status \in Statuses
BY BoardAssumption, RowsAssumption DEF EditShapes, Edits, TaskRows, Final, MovesBlocker, MaybeTask

LEMMA CommitPatchTypes == ASSUME TypeOK, NEW w \in Workers, CommitPatch(w) PROVE TypeOK'
<1> DEFINE q == req[w]
           t == q.task
           new == Final(q)
<1>1. q \in Edits /\ t \in Tasks BY Shapes DEF CommitPatch, ReadyToCommit, EditShapes, Edits
<1>2. new.bb \in MaybeTask /\ (new.status # q.seen.status => new.status \in Statuses)
  BY <1>1, FinalType
<1>3. status' \in [Tasks -> Statuses \cup {None}]
  <2>1. status' = [status EXCEPT ![t] = IF new.status = q.seen.status THEN @ ELSE new.status]
    BY DEF CommitPatch
  <2> HIDE DEF new, t
  <2>2. QED BY <1>1, <1>2, <2>1 DEF TypeOK
<1>4. blockedBy' \in [Tasks -> MaybeTask]
  <2>1. blockedBy' = [d \in Tasks |->
           IF d = t /\ new.bb # q.seen.bb THEN new.bb
           ELSE IF d \in q.downs THEN None ELSE blockedBy[d]]
    BY DEF CommitPatch
  <2> HIDE DEF new, t
  <2>2. QED BY <1>1, <1>2, <2>1 DEF TypeOK, MaybeTask
<1>5. links' \subseteq SUBSET Tasks
  <2>1. NewLinks(q) \subseteq SUBSET Tasks BY <1>1 DEF NewLinks, EditShapes, Edits
  <2>2. QED BY <2>1 DEF CommitPatch, TypeOK
<1>6. notes' \in [Notes -> NoteRows]
  <2>1. \A n \in Notes : /\ [notes[n] EXCEPT !.state = "superseded"] \in NoteRows
                         /\ [notes[n] EXCEPT !.state = "stale"] \in NoteRows
                         /\ notes[n] \in NoteRows
    BY DEF TypeOK, NoteRows, NoteStates
  <2>2. QED BY <2>1 DEF CommitPatch
<1>7. closers' \in [Tasks -> SUBSET Terminal]
  <2>1. Closes(q) => q.to \in Terminal BY DEF Closes
  <2>2. QED BY <1>1, <2>1 DEF CommitPatch, TypeOK
<1>8. req' \in [Workers -> {Idle} \cup Edits \cup Creates \cup NoteJobs \cup ProjectJobs]
  BY IdleReq DEF CommitPatch
<1>9. number' = number /\ project' = project BY DEF CommitPatch
<1>10. QED BY <1>3, <1>4, <1>5, <1>6, <1>7, <1>8, <1>9 DEF TypeOK

LEMMA CreateTypes ==
  ASSUME TypeOK, NEW w \in Workers, DecideCreate(w) \/ CommitCreate(w)
  PROVE  TypeOK'
<1>1. CASE DecideCreate(w)
  <2>1. PICK a \in Actors, to \in Goals, t \in Tasks :
          Set(w, [op |-> "create", actor |-> a, task |-> t, to |-> to, num |-> NextNumber])
    BY <1>1 DEF DecideCreate
  <2>2. NextNumber \in Nat BY NextNumberIsNat
  <2>3. [op |-> "create", actor |-> a, task |-> t, to |-> to, num |-> NextNumber] \in Creates
    BY <2>2 DEF Creates
  <2>4. QED BY <1>1, <2>1, <2>3, SetTypes DEF DecideCreate
<1>2. CASE CommitCreate(w)
  <2>1. req[w] \in Creates BY <1>2, Shapes DEF CommitCreate
  <2>2. /\ status' \in [Tasks -> Statuses \cup {None}] /\ number' \in [Tasks -> Nat]
        /\ closers' \in [Tasks -> SUBSET Terminal]
    BY <1>2, <2>1, BoardAssumption DEF CommitCreate, Creates, TypeOK
  <2>3. req' \in [Workers -> {Idle} \cup Edits \cup Creates \cup NoteJobs \cup ProjectJobs]
    BY <1>2, IdleReq DEF CommitCreate
  <2>4. QED BY <1>2, <2>2, <2>3 DEF CommitCreate, TypeOK
<1>3. QED BY <1>1, <1>2

LEMMA LinkTypes ==
  ASSUME TypeOK, NEW w \in Workers, CommitBlock(w) \/ AddRelated(w) \/ RemoveRelated(w)
  PROVE  TypeOK'
<1>1. CASE CommitBlock(w)
  <2>1. req[w] \in Edits BY <1>1, Shapes DEF CommitBlock
  <2>2. req[w].bb \in Tasks BY <1>1, <2>1 DEF CommitBlock, Holds, Edits
  <2>3. blockedBy' \in [Tasks -> MaybeTask] BY <1>1, <2>1, <2>2 DEF CommitBlock, TypeOK, MaybeTask
  <2>4. req' \in [Workers -> {Idle} \cup Edits \cup Creates \cup NoteJobs \cup ProjectJobs]
    BY <1>1, IdleReq DEF CommitBlock
  <2>5. QED BY <1>1, <2>3, <2>4 DEF CommitBlock, TypeOK
<1>2. CASE AddRelated(w) BY <1>2 DEF AddRelated, TypeOK
<1>3. CASE RemoveRelated(w) BY <1>3 DEF RemoveRelated, TypeOK
<1>4. QED BY <1>1, <1>2, <1>3

LEMMA NoteTypes ==
  ASSUME TypeOK, NEW w \in Workers,
         DecideNote(w) \/ CreateNote(w) \/ SupersedeNote(w) \/ RevertSupersede(w)
  PROVE  TypeOK'
<1>1. CASE DecideNote(w)
  <2>1. PICK t \in Tasks, n \in Notes, op \in {"note", "supersede", "revert"} :
          Set(w, [op |-> op, task |-> t, note |-> n])
    BY <1>1 DEF DecideNote
  <2>2. [op |-> op, task |-> t, note |-> n] \in NoteJobs BY DEF NoteJobs
  <2>3. QED BY <1>1, <2>1, <2>2, SetTypes DEF DecideNote
<1>2. ASSUME NEW op \in {"note", "supersede", "revert"}, NEW state \in NoteStates,
             WriteNote(w, op, state)
      PROVE  TypeOK'
  <2>1. req[w] \in NoteJobs BY <1>2, Shapes DEF WriteNote, Holds
  <2>2. [task |-> req[w].task, state |-> state] \in NoteRows
    BY <2>1 DEF NoteJobs, NoteRows, MaybeTask
  <2>3. notes' \in [Notes -> NoteRows] BY <1>2, <2>1, <2>2 DEF WriteNote, TypeOK
  <2>4. req' \in [Workers -> {Idle} \cup Edits \cup Creates \cup NoteJobs \cup ProjectJobs]
    BY <1>2, IdleReq DEF WriteNote
  <2>5. QED BY <1>2, <2>3, <2>4 DEF WriteNote, TypeOK
<1>3. "active" \in NoteStates /\ "superseded" \in NoteStates /\ "plain" \in NoteStates
  BY DEF NoteStates
<1>4. QED BY <1>1, <1>2, <1>3 DEF CreateNote, SupersedeNote, RevertSupersede

LEMMA ProjectTypes ==
  ASSUME TypeOK, NEW w \in Workers,
         DecideComplete(w) \/ DecideArchive(w) \/ CommitProject(w) \/ ReopenProject(w)
  PROVE  TypeOK'
<1>1. project \in ProjectRows BY DEF TypeOK
<1>2. CASE DecideComplete(w)
  <2>1. [op |-> "complete", was |-> project, new |-> [project EXCEPT !.status = "completed"]]
          \in ProjectJobs
    BY <1>1 DEF ProjectJobs, ProjectRows
  <2>2. QED BY <1>2, <2>1, SetTypes DEF DecideComplete
<1>3. CASE DecideArchive(w)
  <2>1. [op |-> "archive", was |-> project,
             new |-> [status |-> "archived",
                      reason |-> IF OpenTasks = {} THEN "completed" ELSE "abandoned"]]
          \in ProjectJobs
    BY <1>1 DEF ProjectJobs, ProjectRows
  <2>2. QED BY <1>3, <2>1, SetTypes DEF DecideArchive
<1>4. CASE CommitProject(w)
  <2>1. req[w] \in ProjectJobs BY <1>4, Shapes DEF CommitProject
  <2>2. DOMAIN project = {"status", "reason"} BY <1>1 DEF ProjectRows
  <2>3. project' = [status |-> IF req[w].new.status = req[w].was.status
                               THEN project.status ELSE req[w].new.status,
                    reason |-> IF req[w].new.reason = req[w].was.reason
                               THEN project.reason ELSE req[w].new.reason]
    BY <1>4, <2>2 DEF CommitProject
  <2>4. project' \in ProjectRows BY <1>1, <2>1, <2>3 DEF ProjectJobs, ProjectRows
  <2>5. req' \in [Workers -> {Idle} \cup Edits \cup Creates \cup NoteJobs \cup ProjectJobs]
    BY <1>4, IdleReq DEF CommitProject
  <2>6. QED BY <1>4, <2>4, <2>5 DEF CommitProject, TypeOK
<1>5. CASE ReopenProject(w) BY <1>1, <1>5 DEF ReopenProject, TypeOK, ProjectRows
<1>6. QED BY <1>2, <1>3, <1>4, <1>5

\* The rows of the board and what the workers hold keep their types: above
\* all, no PATCH writes the "field left out" marker, and the number of a new
\* ticket always exists.
THEOREM TypeCorrect == Spec => []TypeOK
<1>1. Init => TypeOK
  BY DEF Init, TypeOK, NoteRows, NoteStates, MaybeTask, ProjectRows
<1>2. TypeOK /\ [Next]_vars => TypeOK'
  <2> SUFFICES ASSUME TypeOK, [Next]_vars PROVE TypeOK' OBVIOUS
  <2>1. CASE UNCHANGED vars BY <2>1 DEF vars, rows, TypeOK
  <2>2. CASE Next
    BY <2>2, PatchTypes, CommitPatchTypes, CreateTypes, LinkTypes, NoteTypes, ProjectTypes DEF Next
  <2>3. QED BY <2>1, <2>2
<1>3. QED BY <1>1, <1>2, PTL DEF Spec

-----------------------------------------------------------------------------
(* Who closes *)

\* What a request knows that may close a ticket: the status it compared with
\* was a human's closing if it was a closing, and an agent that passed the
\* gates asks for the status it saw or for an open one.
Knows(q) ==
  /\ q.op = "patch" =>
       /\ q.old.status \in Terminal => q.old.status \in closers[q.task]
       /\ q.actor = "agent" /\ q.pc \notin {"loaded", "resolved"} /\ q.to \in Terminal
            => q.to = q.old.status
  /\ q.op = "create" /\ q.actor = "agent" => q.to \notin Terminal

ClosedInv == ClosedByHuman /\ \A w \in Workers : Knows(req[w])

\* A step that leaves the statuses alone.
LEMMA KnowingStep ==
  ASSUME TypeOK, ClosedInv, NEW w \in Workers, NEW q, Set(w, q), Knows(q),
         status' = status, closers' = closers
  PROVE  ClosedInv'
<1>1. ClosedByHuman' BY DEF ClosedInv, ClosedByHuman
<1>2. ASSUME NEW v \in Workers PROVE Knows(req[v])'
  <2>1. req'[v] = IF v = w THEN q ELSE req[v] BY DEF TypeOK, Set
  <2>2. Knows(req'[v]) BY <2>1 DEF ClosedInv
  <2>3. QED BY <2>2 DEF Knows
<1>3. QED BY <1>1, <1>2 DEF ClosedInv

\* What is known stays known while the history grows.
LEMMA KnowledgeStays ==
  ASSUME TypeOK, ClosedInv, NEW w \in Workers, Done(w),
         \A t \in Tasks : closers[t] \subseteq closers'[t]
  PROVE  \A v \in Workers : Knows(req[v])'
<1> SUFFICES ASSUME NEW v \in Workers PROVE Knows(req[v])' OBVIOUS
<1>1. req'[v] = IF v = w THEN Idle ELSE req[v] BY DEF TypeOK, Done, Set
<1>2. Knows(req[v]) BY DEF ClosedInv
<1>3. CASE v = w BY <1>1, <1>3 DEF Idle, Knows
<1>4. CASE v # w
  <2>1. req[v].op = "patch" => req[v].task \in Tasks BY Shapes DEF Holds, Edits, EditShapes
  <2>2. QED BY <1>1, <1>2, <1>4, <2>1 DEF Knows
<1>5. QED BY <1>3, <1>4

LEMMA CommitPatchCloses ==
  ASSUME TypeOK, ClosedInv, NEW w \in Workers, CommitPatch(w)
  PROVE  ClosedInv'
<1> DEFINE q == req[w]
           t == q.task
<1>1. q \in EditShapes /\ q.op = "patch" /\ t \in Tasks /\ q.pc \notin {"loaded", "resolved"}
  BY Shapes DEF CommitPatch, ReadyToCommit, Holds, Edits, EditShapes
<1>2. closers' = [closers EXCEPT ![t] =
         IF Closes(q) /\ q.actor = "human" THEN @ \cup {q.to} ELSE @]
  BY DEF CommitPatch
<1>3. \A u \in Tasks : closers[u] \subseteq closers'[u]
  <2> HIDE DEF q, t
  <2>1. QED BY <1>1, <1>2 DEF TypeOK
<1>4. \A v \in Workers : Knows(req[v])' BY <1>3, KnowledgeStays DEF CommitPatch
<1>5. ASSUME NEW u \in Tasks, status'[u] \in Terminal PROVE status'[u] \in closers'[u]
  <2>1. status[u] \in Terminal => status[u] \in closers'[u]
    BY <1>3 DEF ClosedInv, ClosedByHuman
  <2>2. status'[u] = IF u = t /\ Final(q).status # q.seen.status THEN Final(q).status ELSE status[u]
    BY <1>1 DEF CommitPatch, TypeOK
  <2>3. CASE u = t /\ Final(q).status # q.seen.status
    <3>1. q.to # Keep /\ status'[u] = q.to BY <2>2, <2>3 DEF Final
    <3>2. CASE q.to = q.old.status
      BY <1>1, <1>3, <1>5, <2>3, <3>1, <3>2 DEF ClosedInv, Knows
    <3>3. CASE q.to # q.old.status
      <4>1. Closes(q) BY <1>5, <3>1, <3>3 DEF Closes, Moves
      <4>2. q.actor = "human"
        BY <1>1, <1>5, <3>1, <3>3, BoardAssumption DEF ClosedInv, Knows, EditShapes
      <4>3. QED BY <1>1, <1>2, <2>3, <3>1, <4>1, <4>2 DEF TypeOK
    <3>4. QED BY <3>2, <3>3
  <2>4. QED BY <1>5, <2>1, <2>2, <2>3
<1>6. QED BY <1>4, <1>5 DEF ClosedInv, ClosedByHuman

\* Whatever requests overlap: a ticket is done or cancelled only if a human
\* put it in that status at some time.  An agent that writes a stale "done"
\* over a human's reopening restores a human's decision.
THEOREM AgentsOnlyRestore == Spec => []ClosedByHuman
<1>1. Init => ClosedInv
  BY RowsAssumption DEF Init, ClosedInv, ClosedByHuman, Knows, Idle, Terminal, Statuses, VALID_TRANSITIONS
<1>2. TypeOK /\ ClosedInv /\ [Next]_vars => ClosedInv'
  <2> SUFFICES ASSUME TypeOK, ClosedInv, [Next]_vars PROVE ClosedInv' OBVIOUS
  <2>1. CASE UNCHANGED vars
    BY <2>1 DEF vars, rows, ClosedInv, ClosedByHuman, Knows
  <2>2. ASSUME NEW w \in Workers, Done(w), status' = status, closers' = closers PROVE ClosedInv'
    <3>1. Knows(Idle) BY DEF Knows, Idle
    <3>2. QED BY <2>2, <3>1, KnowingStep DEF Done
  <2>3. ASSUME NEW w \in Workers, DecideCreate(w) PROVE ClosedInv'
    <3>1. PICK a \in Actors, to \in Goals, t \in Tasks :
            /\ a = "agent" => to \notin Terminal
            /\ Set(w, [op |-> "create", actor |-> a, task |-> t, to |-> to, num |-> NextNumber])
      BY <2>3 DEF DecideCreate
    <3>2. Knows([op |-> "create", actor |-> a, task |-> t, to |-> to, num |-> NextNumber])
      BY <3>1 DEF Knows
    <3>3. QED BY <2>3, <3>1, <3>2, KnowingStep DEF DecideCreate, rows
  <2>4. ASSUME NEW w \in Workers, CommitCreate(w) PROVE ClosedInv'
    <3>1. req[w] \in Creates /\ Knows(req[w]) /\ req[w].op = "create"
      BY <2>4, Shapes DEF CommitCreate, Holds, ClosedInv
    <3>2. \A t \in Tasks : closers[t] \subseteq closers'[t]
      BY <2>4, <3>1 DEF CommitCreate, TypeOK, Creates
    <3>3. \A v \in Workers : Knows(req[v])' BY <2>4, <3>2, KnowledgeStays DEF CommitCreate
    <3>4. ClosedByHuman'
      BY <2>4, <3>1, <3>2, BoardAssumption
      DEF CommitCreate, TypeOK, Creates, Knows, ClosedInv, ClosedByHuman
    <3>5. QED BY <3>3, <3>4 DEF ClosedInv
  <2>5. ASSUME NEW w \in Workers, LoadPatch(w) PROVE ClosedInv'
    <3>1. PICK a \in Actors, t \in Tasks, to \in Goals \cup {Keep}, bb \in MaybeTask \cup {Keep} :
            Set(w, [op |-> "patch", pc |-> IF a = "agent" THEN "loaded" ELSE "resolved",
                  actor |-> a, task |-> t, to |-> to, bb |-> bb,
                  old |-> Row(t), seen |-> Row(t), visited |-> {}, cursor |-> None,
                  downs |-> {}, fresh |-> {}, drops |-> {}])
      BY <2>5 DEF LoadPatch
    <3>2. Knows([op |-> "patch", pc |-> IF a = "agent" THEN "loaded" ELSE "resolved",
                  actor |-> a, task |-> t, to |-> to, bb |-> bb,
                  old |-> Row(t), seen |-> Row(t), visited |-> {}, cursor |-> None,
                  downs |-> {}, fresh |-> {}, drops |-> {}])
      BY DEF Knows, Row, ClosedInv, ClosedByHuman
    <3>3. QED BY <2>5, <3>1, <3>2, KnowingStep DEF LoadPatch, rows
  <2>6. ASSUME NEW w \in Workers, ResolveAgent(w) PROVE ClosedInv'
    <3>1. req[w] \in EditShapes /\ Knows(req[w])
      BY <2>6, Shapes DEF ResolveAgent, ClosedInv, Edits
    <3>2. Knows([req[w] EXCEPT !.pc = "resolved", !.seen = Row(req[w].task)])
      BY <3>1 DEF Knows, EditShapes
    <3>3. QED BY <2>6, <3>2, KnowingStep DEF ResolveAgent, rows
  <2>7. ASSUME NEW w \in Workers, PassGates(w) PROVE ClosedInv'
    <3> DEFINE q == req[w]
               walks == MovesBlocker(q) /\ q.bb # None
               pc == IF walks THEN "walking" ELSE "walked"
               cursor == IF walks THEN q.bb ELSE None
               new == [q EXCEPT !.pc = pc, !.cursor = cursor, !.drops = Reopened(q)]
    <3>1. q \in EditShapes /\ Knows(q) BY <2>7, Shapes DEF PassGates, ClosedInv, Edits
    <3>2. GatesOpen(q) /\ Set(w, new) /\ status' = status /\ closers' = closers
      BY <2>7 DEF PassGates, rows
    <3>3. q.actor = "agent" /\ q.to \in Terminal => q.to = q.old.status
      BY <3>2, RowsAssumption DEF GatesOpen, Moves, Terminal, Statuses, VALID_TRANSITIONS
    <3>4. new.op = q.op /\ new.actor = q.actor /\ new.to = q.to /\ new.old = q.old /\ new.task = q.task
      <4> HIDE DEF q, pc, cursor
      <4>1. QED BY <3>1 DEF EditShapes
    <3>5. Knows(new)
      <4>1. q.op # "create" BY <3>1 DEF EditShapes
      <4> HIDE DEF q, new
      <4>2. QED BY <3>1, <3>3, <3>4, <4>1 DEF Knows
    <3> HIDE DEF new
    <3>6. QED BY <3>2, <3>5, KnowingStep
  <2>8. ASSUME NEW w \in Workers, Hop(w) \/ EndWalk(w) PROVE ClosedInv'
    <3>1. req[w] \in EditShapes /\ Knows(req[w]) /\ req[w].pc = "walking"
      BY <2>8, Shapes DEF Hop, EndWalk, Walking, ClosedInv, Edits
    <3>2. /\ Knows([req[w] EXCEPT !.visited = @ \cup {req[w].cursor}, !.cursor = blockedBy[req[w].cursor]])
          /\ Knows([req[w] EXCEPT !.pc = "walked"])
      BY <3>1 DEF Knows, EditShapes
    <3>3. QED BY <2>8, <3>2, KnowingStep DEF Hop, EndWalk, rows
  <2>9. ASSUME NEW w \in Workers, Cascade(w) PROVE ClosedInv'
    <3> DEFINE q == req[w]
               fresh == {d \in Downstream(q.task) : {d, q.task} \notin links}
               new == [q EXCEPT !.pc = "cascaded", !.downs = Downstream(q.task), !.fresh = fresh]
    <3>1. q \in EditShapes /\ Knows(q) /\ q.pc = "walked"
      BY <2>9, Shapes DEF Cascade, ClosedInv, Edits
    <3>2. Knows(new)
      <4> HIDE DEF q, fresh
      <4>1. QED BY <3>1 DEF Knows, EditShapes
    <3>3. Set(w, new) /\ status' = status /\ closers' = closers BY <2>9 DEF Cascade, rows
    <3> HIDE DEF new
    <3>4. QED BY <3>2, <3>3, KnowingStep
  <2>10. ASSUME NEW w \in Workers, LoadBlock(w) PROVE ClosedInv'
    <3>1. PICK a \in Actors, s, t \in Tasks :
          Set(w, [op |-> "block", pc |-> "walking", actor |-> a, task |-> t, to |-> Keep,
                  bb |-> s, old |-> Row(t), seen |-> Row(t), visited |-> {},
                  cursor |-> blockedBy[s], downs |-> {}, fresh |-> {}, drops |-> {}])
      BY <2>10 DEF LoadBlock
    <3>2. Knows([op |-> "block", pc |-> "walking", actor |-> a, task |-> t, to |-> Keep,
                  bb |-> s, old |-> Row(t), seen |-> Row(t), visited |-> {},
                  cursor |-> blockedBy[s], downs |-> {}, fresh |-> {}, drops |-> {}])
      BY DEF Knows
    <3>3. QED BY <2>10, <3>1, <3>2, KnowingStep DEF LoadBlock, rows
  <2>11. ASSUME NEW w \in Workers, AddRelated(w) \/ RemoveRelated(w) \/ ReopenProject(w)
         PROVE  ClosedInv'
    BY <2>11 DEF AddRelated, RemoveRelated, ReopenProject, ClosedInv, ClosedByHuman, Knows
  <2>12. ASSUME NEW w \in Workers, DecideNote(w) PROVE ClosedInv'
    <3>1. PICK t \in Tasks, n \in Notes, op \in {"note", "supersede", "revert"} :
            Set(w, [op |-> op, task |-> t, note |-> n])
      BY <2>12 DEF DecideNote
    <3>2. Knows([op |-> op, task |-> t, note |-> n]) BY DEF Knows
    <3>3. QED BY <2>12, <3>1, <3>2, KnowingStep DEF DecideNote, rows
  <2>13. ASSUME NEW w \in Workers, DecideComplete(w) \/ DecideArchive(w) PROVE ClosedInv'
    <3>1. PICK q : Set(w, q) /\ q.op \in {"complete", "archive"}
      BY <2>13 DEF DecideComplete, DecideArchive
    <3>2. Knows(q) BY <3>1 DEF Knows
    <3>3. QED BY <2>13, <3>1, <3>2, KnowingStep DEF DecideComplete, DecideArchive, rows
  <2>14. ASSUME NEW w \in Workers,
                \/ RefusePatch(w) \/ RefuseCycle(w) \/ RollBackPatch(w) \/ CommitBlock(w)
                \/ CreateNote(w) \/ SupersedeNote(w) \/ RevertSupersede(w) \/ CommitProject(w)
         PROVE  ClosedInv'
    BY <2>2, <2>14 DEF RefusePatch, RefuseCycle, RollBackPatch, CommitBlock, CreateNote,
      SupersedeNote, RevertSupersede, WriteNote, CommitProject, rows
  <2>15. QED
    BY <2>1, <2>3, <2>4, <2>5, <2>6, <2>7, <2>8, <2>9, <2>10, <2>11, <2>12, <2>13, <2>14,
       CommitPatchCloses DEF Next
<1>3. ClosedInv => ClosedByHuman BY DEF ClosedInv
<1>4. QED BY <1>1, <1>2, <1>3, TypeCorrect, PTL DEF Spec

-----------------------------------------------------------------------------
(* The cycle checks *)

\* A new edge from task into a set of tickets that has no way out of it, while
\* other edges at most go away: no cycle appears.
LEMMA EdgeIntoClosedSet ==
  ASSUME NEW f \in [Tasks -> MaybeTask], NEW g \in [Tasks -> MaybeTask], IsAcyclic(f),
         NEW task \in Tasks, NEW K \in SUBSET Tasks, task \notin K,
         \A v \in K : f[v] \in K \cup {None},
         g[task] \in K \cup {None, f[task]},
         \A d \in Tasks \ {task} : g[d] \in {f[d], None}
  PROVE  IsAcyclic(g)
<1> SUFFICES ASSUME NEW S \in SUBSET Tasks, S # {}, \A t \in S : g[t] \in S
             PROVE  FALSE
  BY DEF IsAcyclic
<1>1. None \notin S BY RowsAssumption
<1>2. \A d \in S \ {task} : g[d] = f[d] BY <1>1
<1>3. CASE S \cap K # {}
  <2>1. \A d \in S \cap K : f[d] \in S \cap K BY <1>1, <1>2
  <2>2. QED BY <1>3, <2>1 DEF IsAcyclic
<1>4. CASE S \cap K = {}
  <2>1. \A d \in S : f[d] \in S BY <1>1, <1>2, <1>4
  <2>2. QED BY <2>1 DEF IsAcyclic
<1>5. QED BY <1>3, <1>4

\* A request that adds an edge, and the tickets its walk has been through.
Adds(q) == q.op = "block" \/ (q.op = "patch" /\ MovesBlocker(q) /\ q.bb # None)
Chain(q) == q.visited \cup (IF q.op = "block" THEN {q.bb} ELSE {})

\* The chain starts at the blocker, leads nowhere but to the cursor, and has
\* not met the ticket; when the walk is over there is nothing left to follow.
Followed(q) ==
  /\ q.bb \in Tasks \ {q.task} /\ q.task \notin Chain(q)
  /\ q.bb \in Chain(q) \cup {q.cursor}
  /\ \A v \in Chain(q) : blockedBy[v] \in Chain(q) \cup {q.cursor, None}
  /\ q.pc # "walking" => q.cursor \in Chain(q) \cup {None}

Walked(q) ==
  Adds(q) => IF q.pc \in {"loaded", "resolved"} THEN q.visited = {} ELSE Followed(q)
ChainInv == Acyclic /\ \A w \in Workers : Walked(req[w])

\* The only worker replaces what it holds and leaves the edges alone.
LEMMA WalkingStep ==
  ASSUME TypeOK, ChainInv, NEW w \in Workers, Workers = {w}, NEW q, Set(w, q), Walked(q),
         blockedBy' = blockedBy
  PROVE  ChainInv'
<1>1. Acyclic' BY DEF ChainInv, Acyclic, IsAcyclic
<1>2. req'[w] = q BY DEF TypeOK, Set
<1>3. Walked(req'[w]) BY <1>2
<1>4. Walked(req[w])' BY <1>3 DEF Walked, Followed
<1>5. QED BY <1>1, <1>4 DEF ChainInv

\* A request that adds no edge.
LEMMA NothingToWalk ==
  ASSUME TypeOK, ChainInv, NEW w \in Workers, Workers = {w}, NEW q, Set(w, q),
         q.op \notin {"patch", "block"}, blockedBy' = blockedBy
  PROVE  ChainInv'
<1>1. Walked(q) BY DEF Walked, Adds
<1>2. QED BY <1>1, WalkingStep

\* The hop limit does not cut a walk short when it is not below the number of
\* tickets: the ticket itself is never among the visited.
LEMMA LimitNotReached ==
  ASSUME Cardinality(Tasks) <= MaxHops, NEW V \in SUBSET Tasks, NEW t \in Tasks, t \notin V
  PROVE  ~(Cardinality(V) >= MaxHops)
<1>1. IsFiniteSet(Tasks) /\ MaxHops \in Nat BY RowsAssumption, BoardAssumption
<1>2. Cardinality(V) \in Nat /\ Cardinality(Tasks) \in Nat /\ IsFiniteSet(V)
  BY <1>1, FS_Subset, FS_CardinalityType
<1>3. Cardinality(V) <= Cardinality(Tasks) /\ (Cardinality(V) = Cardinality(Tasks) => V = Tasks)
  BY <1>1, FS_Subset
<1>4. QED BY <1>1, <1>2, <1>3

LEMMA WalkSteps ==
  ASSUME TypeOK, ChainInv, NEW w \in Workers, Workers = {w}, Cardinality(Tasks) <= MaxHops,
         Hop(w) \/ EndWalk(w) \/ RefuseCycle(w)
  PROVE  ChainInv'
<1> DEFINE q == req[w]
<1>1. q \in EditShapes /\ q.pc = "walking" /\ Walked(q)
  BY Shapes DEF Hop, EndWalk, RefuseCycle, Walking, ChainInv, Edits
<1>2. blockedBy' = blockedBy BY DEF Hop, EndWalk, RefuseCycle, rows
<1>3. CASE RefuseCycle(w)
  BY <1>2, <1>3, NothingToWalk DEF RefuseCycle, Done, Idle
<1>4. CASE Hop(w)
  <2> DEFINE new == [q EXCEPT !.visited = @ \cup {q.cursor}, !.cursor = blockedBy[q.cursor]]
  <2>1. q.cursor # q.task /\ q.cursor \notin q.visited \cup {None} /\ Set(w, new)
    BY <1>4 DEF Hop, WalkEnds
  <2>2. /\ new.op = q.op /\ new.bb = q.bb /\ new.task = q.task /\ new.old = q.old /\ new.pc = q.pc
        /\ new.visited = q.visited \cup {q.cursor} /\ new.cursor = blockedBy[q.cursor]
    <3> HIDE DEF q
    <3>1. QED BY <1>1 DEF EditShapes
  <2> HIDE DEF new, q
  <2>3. Chain(new) = Chain(q) \cup {q.cursor} BY <2>2 DEF Chain
  <2>4. Adds(new) => Adds(q) BY <2>2 DEF Adds, MovesBlocker
  <2>5. Adds(q) => Followed(new)
    BY <1>1, <2>1, <2>2, <2>3 DEF Walked, Followed
  <2>6. Walked(new) BY <1>1, <2>2, <2>4, <2>5 DEF Walked
  <2>7. QED BY <1>2, <2>1, <2>6, WalkingStep
<1>5. CASE EndWalk(w)
  <2> DEFINE new == [q EXCEPT !.pc = "walked"]
  <2>1. WalkEnds(q) /\ Set(w, new) BY <1>5 DEF EndWalk
  <2>2. /\ new.op = q.op /\ new.bb = q.bb /\ new.task = q.task /\ new.old = q.old
        /\ new.visited = q.visited /\ new.cursor = q.cursor /\ new.pc = "walked"
    <3> HIDE DEF q
    <3>1. QED BY <1>1 DEF EditShapes
  <2> HIDE DEF new, q
  <2>3. Chain(new) = Chain(q) /\ q.visited \subseteq Chain(q) BY <2>2 DEF Chain
  <2>4. Adds(new) => Adds(q) BY <2>2 DEF Adds, MovesBlocker
  <2>5. Adds(q) => Followed(new)
    <3> SUFFICES ASSUME Adds(q) PROVE Followed(new) OBVIOUS
    <3>1. Followed(q) BY <1>1 DEF Walked
    <3>2. q.task \notin q.visited BY <2>3, <3>1 DEF Followed
    <3>3. q.visited \in SUBSET Tasks /\ q.task \in Tasks BY <1>1 DEF EditShapes
    <3>4. ~(Cardinality(q.visited) >= MaxHops) BY <3>2, <3>3, LimitNotReached
    <3>5. q.cursor \in Chain(q) \cup {None} BY <2>1, <2>3, <3>4 DEF WalkEnds
    <3>6. QED BY <2>2, <2>3, <3>1, <3>5 DEF Followed
  <2>6. Walked(new) BY <2>2, <2>4, <2>5 DEF Walked
  <2>7. QED BY <1>2, <2>1, <2>6, WalkingStep
<1>6. QED BY <1>3, <1>4, <1>5

\* A commit writes an edge into a chain that was followed to its end.
LEMMA CommitsKeepAcyclic ==
  ASSUME TypeOK, ChainInv, NEW w \in Workers, Workers = {w}, CommitPatch(w) \/ CommitBlock(w)
  PROVE  ChainInv'
<1> DEFINE q == req[w]
           K == IF Adds(q) THEN Chain(q) ELSE {}
<1>1. q \in Edits /\ q \in EditShapes /\ q.pc \in {"walked", "cascaded"} /\ Walked(q)
  BY Shapes DEF CommitPatch, ReadyToCommit, CommitBlock, ChainInv, Edits
<1>2. blockedBy \in [Tasks -> MaybeTask] /\ IsAcyclic(blockedBy)
  BY DEF TypeOK, ChainInv, Acyclic
<1>3. blockedBy' \in [Tasks -> MaybeTask]
  <2>1. TypeOK' BY CommitPatchTypes, LinkTypes
  <2>2. QED BY <2>1 DEF TypeOK
<1>4. q.task \in Tasks /\ K \in SUBSET Tasks /\ q.task \notin K
  <2>1. Adds(q) => Followed(q) BY <1>1 DEF Walked
  <2>2. Chain(q) \subseteq Tasks \/ ~Adds(q)
    BY <1>1, <2>1 DEF Chain, EditShapes, Followed
  <2>3. QED BY <1>1, <2>1, <2>2 DEF EditShapes, Followed
<1>5. Adds(q) => q.bb \in K BY <1>1, RowsAssumption DEF Walked, Followed
<1>6. \A v \in K : blockedBy[v] \in K \cup {None} BY <1>1 DEF Walked, Followed
<1>7. /\ blockedBy'[q.task] \in K \cup {None, blockedBy[q.task]}
      /\ \A d \in Tasks \ {q.task} : blockedBy'[d] \in {blockedBy[d], None}
  <2>1. CASE CommitBlock(w)
    <3>1. Adds(q) BY <2>1 DEF CommitBlock, Holds, Adds
    <3>2. blockedBy' = [blockedBy EXCEPT ![q.task] = q.bb] BY <2>1 DEF CommitBlock
    <3> HIDE DEF K, q
    <3>3. QED BY <1>2, <1>4, <1>5, <3>1, <3>2
  <2>2. CASE CommitPatch(w)
    <3>1. q.op = "patch" BY <2>2 DEF CommitPatch, ReadyToCommit, Holds
    <3>2. blockedBy' = [d \in Tasks |->
             IF d = q.task /\ Final(q).bb # q.seen.bb THEN Final(q).bb
             ELSE IF d \in q.downs THEN None ELSE blockedBy[d]]
      BY <2>2 DEF CommitPatch
    <3>3. Final(q).bb # q.seen.bb => Final(q).bb \in K \cup {None}
      <4>1. MovesBlocker(q) /\ q.bb # None => Adds(q) BY <3>1 DEF Adds
      <4> HIDE DEF K
      <4>2. QED BY <1>5, <4>1 DEF Final
    <3> HIDE DEF K, q
    <3>4. QED BY <1>4, <3>2, <3>3
  <2>3. QED BY <2>1, <2>2
<1>8. Acyclic'
  <2>1. IsAcyclic(blockedBy')
    <3> HIDE DEF K, q
    <3>1. QED BY <1>2, <1>3, <1>4, <1>6, <1>7, EdgeIntoClosedSet
  <2>2. QED BY <2>1 DEF Acyclic
<1>9. Walked(req[w])'
  <2>1. req'[w] = Idle BY DEF CommitPatch, CommitBlock, Done, Set, TypeOK
  <2>2. QED BY <2>1 DEF Walked, Adds, Idle
<1>10. QED BY <1>8, <1>9 DEF ChainInv

\* When requests do not overlap and the hop limit is not below the number of
\* tickets, the cycle checks of PATCH and of POST blocks keep the blocked-by
\* graph acyclic for any number of tickets: no ticket waits for itself.
THEOREM SerialBoardIsAcyclic ==
  ASSUME NEW w, Workers = {w}, Cardinality(Tasks) <= MaxHops
  PROVE  Spec => []Acyclic
<1>1. Init => ChainInv
  <2> SUFFICES ASSUME Init PROVE ChainInv OBVIOUS
  <2>1. \A S \in SUBSET Tasks : \A t \in S : blockedBy[t] \notin S
    BY RowsAssumption DEF Init
  <2>2. Acyclic
    <3> SUFFICES ASSUME NEW S \in SUBSET Tasks, S # {} PROVE \E t \in S : blockedBy[t] \notin S
      BY DEF Acyclic, IsAcyclic
    <3>1. QED BY <2>1
  <2>3. QED BY <2>2 DEF Init, ChainInv, Walked, Adds, Idle
<1>2. TypeOK /\ ChainInv /\ [Next]_vars => ChainInv'
  <2> SUFFICES ASSUME TypeOK, ChainInv, [Next]_vars PROVE ChainInv' OBVIOUS
  <2> w \in Workers OBVIOUS
  <2>1. CASE UNCHANGED vars
    BY <2>1 DEF vars, rows, ChainInv, Acyclic, IsAcyclic, Walked, Followed
  <2>2. CASE DecideCreate(w) \/ DecideNote(w) \/ DecideComplete(w) \/ DecideArchive(w)
    <3>1. PICK q : Set(w, q) /\ q.op \notin {"patch", "block"}
      <4>1. CASE DecideCreate(w) BY <4>1 DEF DecideCreate
      <4>2. CASE DecideNote(w) BY <4>2 DEF DecideNote
      <4>3. CASE DecideComplete(w) BY <4>3 DEF DecideComplete
      <4>4. CASE DecideArchive(w) BY <4>4 DEF DecideArchive
      <4>5. QED BY <2>2, <4>1, <4>2, <4>3, <4>4
    <3>2. blockedBy' = blockedBy
      BY <2>2 DEF DecideCreate, DecideNote, DecideComplete, DecideArchive, rows
    <3>3. QED BY <3>1, <3>2, NothingToWalk
  <2>3. CASE \/ CommitCreate(w) \/ RefusePatch(w) \/ RollBackPatch(w) \/ CreateNote(w)
             \/ SupersedeNote(w) \/ RevertSupersede(w) \/ CommitProject(w)
    <3>1. Set(w, Idle) /\ blockedBy' = blockedBy
      BY <2>3 DEF CommitCreate, RefusePatch, RollBackPatch, CreateNote, SupersedeNote,
        RevertSupersede, WriteNote, CommitProject, Done, rows
    <3>2. Idle.op \notin {"patch", "block"} BY DEF Idle
    <3>3. QED BY <3>1, <3>2, NothingToWalk
  <2>4. CASE AddRelated(w) \/ RemoveRelated(w) \/ ReopenProject(w)
    BY <2>4 DEF AddRelated, RemoveRelated, ReopenProject, ChainInv, Acyclic, IsAcyclic,
      Walked, Followed
  <2>5. CASE LoadPatch(w) \/ ResolveAgent(w)
    <3>1. PICK q : Set(w, q) /\ q.pc \in {"loaded", "resolved"} /\ (Adds(q) => q.visited = {})
      <4>1. CASE LoadPatch(w) BY <4>1 DEF LoadPatch
      <4>2. CASE ResolveAgent(w)
        <5> DEFINE new == [req[w] EXCEPT !.pc = "resolved", !.seen = Row(req[w].task)]
        <5>1. req[w] \in EditShapes /\ Walked(req[w]) /\ req[w].pc = "loaded"
          BY <4>2, Shapes DEF ResolveAgent, ChainInv, Edits
        <5>2. /\ new.pc = "resolved" /\ new.op = req[w].op /\ new.bb = req[w].bb
              /\ new.old = req[w].old /\ new.visited = req[w].visited
          BY <5>1 DEF EditShapes
        <5>3. Set(w, new) BY <4>2 DEF ResolveAgent
        <5> HIDE DEF new
        <5>4. QED BY <5>1, <5>2, <5>3 DEF Walked, Adds, MovesBlocker
      <4>3. QED BY <2>5, <4>1, <4>2
    <3>2. Walked(q) BY <3>1 DEF Walked
    <3>3. blockedBy' = blockedBy BY <2>5 DEF LoadPatch, ResolveAgent, rows
    <3>4. QED BY <3>1, <3>2, <3>3, WalkingStep
  <2>6. CASE PassGates(w)
    <3> DEFINE q == req[w]
               walks == MovesBlocker(q) /\ q.bb # None
               pc == IF walks THEN "walking" ELSE "walked"
               cursor == IF walks THEN q.bb ELSE None
               new == [q EXCEPT !.pc = pc, !.cursor = cursor, !.drops = Reopened(q)]
    <3>1. q \in EditShapes /\ q.op = "patch" BY <2>6, Shapes DEF PassGates, Holds, Edits
    <3>2. Set(w, new) /\ GatesOpen(q) /\ blockedBy' = blockedBy BY <2>6 DEF PassGates, rows
    <3>3. /\ new.op = "patch" /\ new.bb = q.bb /\ new.task = q.task /\ new.old = q.old
          /\ new.visited = q.visited /\ new.cursor = cursor /\ new.pc = pc
      <4> HIDE DEF q, pc, cursor
      <4>1. QED BY <3>1 DEF EditShapes
    <3>4. Walked(q) /\ q.pc = "resolved" BY <2>6 DEF ChainInv, PassGates
    <3>5. Adds(new) => walks /\ q.visited = {}
      <4> HIDE DEF q, new
      <4>1. QED BY <3>1, <3>3, <3>4 DEF Adds, MovesBlocker, Walked
    <3>6. walks => q.bb \in Tasks \ {q.task}
      BY <3>1, <3>2 DEF GatesOpen, MovesBlocker, EditShapes, MaybeTask
    <3>7. Adds(new) => Followed(new)
      <4> HIDE DEF q, new
      <4>1. QED BY <3>3, <3>5, <3>6 DEF Followed, Chain
    <3> HIDE DEF new
    <3>8. Walked(new) BY <3>3, <3>7 DEF Walked
    <3>9. QED BY <3>2, <3>8, WalkingStep
  <2>7. CASE Hop(w) \/ EndWalk(w) \/ RefuseCycle(w) BY <2>7, WalkSteps
  <2>8. CASE Cascade(w)
    <3> DEFINE q == req[w]
               fresh == {d \in Downstream(q.task) : {d, q.task} \notin links}
               new == [q EXCEPT !.pc = "cascaded", !.downs = Downstream(q.task), !.fresh = fresh]
    <3>1. q \in EditShapes /\ q.pc = "walked" /\ Walked(q)
      BY <2>8, Shapes DEF Cascade, ChainInv, Edits
    <3>2. Set(w, new) /\ blockedBy' = blockedBy BY <2>8 DEF Cascade, rows
    <3>3. /\ new.op = q.op /\ new.bb = q.bb /\ new.task = q.task /\ new.old = q.old
          /\ new.visited = q.visited /\ new.cursor = q.cursor /\ new.pc = "cascaded"
      <4> HIDE DEF q, fresh
      <4>1. QED BY <3>1 DEF EditShapes
    <3> HIDE DEF new, q
    <3>4. Walked(new) BY <3>1, <3>3 DEF Walked, Followed, Chain, Adds, MovesBlocker
    <3>5. QED BY <3>2, <3>4, WalkingStep
  <2>9. CASE CommitPatch(w) \/ CommitBlock(w) BY <2>9, CommitsKeepAcyclic
  <2>10. CASE LoadBlock(w)
    <3>1. PICK s, t, q :
            /\ s \in Tasks /\ t \in Tasks /\ s # t
            /\ Set(w, q) /\ q.op = "block" /\ q.pc = "walking" /\ q.task = t
            /\ q.bb = s /\ q.visited = {} /\ q.cursor = blockedBy[s]
      BY <2>10 DEF LoadBlock
    <3>2. Walked(q) BY <3>1 DEF Walked, Followed, Chain
    <3>3. blockedBy' = blockedBy BY <2>10 DEF LoadBlock, rows
    <3>4. QED BY <3>1, <3>2, <3>3, WalkingStep
  <2>11. QED
    BY <2>1, <2>2, <2>3, <2>4, <2>5, <2>6, <2>7, <2>8, <2>9, <2>10 DEF Next
<1>3. ChainInv => Acyclic BY DEF ChainInv
<1>4. QED BY <1>1, <1>2, <1>3, TypeCorrect, PTL DEF Spec

-----------------------------------------------------------------------------
(* The life of a ticket *)

\* What the only worker holds is still so when it commits.
Held(q) ==
  /\ q.op = "patch" =>
       /\ q.old = Row(q.task) /\ q.seen = Row(q.task) /\ Exists(q.task)
       /\ q.pc \notin {"loaded", "resolved"} => GatesOpen(q) /\ q.drops = Reopened(q)
       /\ q.pc = "cascaded" => q.downs = Downstream(q.task)
  /\ q.op = "create" => ~Exists(q.task)
  /\ q.op = "note" => Exists(q.task) /\ notes[q.note].state = "unborn"
  /\ q.op = "supersede" => q.note \in LiveNotes(q.task) /\ status[q.task] \notin {None, "done"}
  /\ q.op = "revert" => notes[q.note] = [task |-> q.task, state |-> "superseded"]

HeldInv == \A w \in Workers : Held(req[w])

LEMMA HoldingStep ==
  ASSUME TypeOK, NEW w \in Workers, Workers = {w}, NEW q, Set(w, q), Held(q),
         status' = status, blockedBy' = blockedBy, notes' = notes
  PROVE  HeldInv'
<1>1. req'[w] = q BY DEF TypeOK, Set
<1>2. Held(req'[w]) BY <1>1
<1>3. Held(req[w])'
  BY <1>2 DEF Held, Row, Exists, GatesOpen, MovesBlocker, Moves, CycleNotes, LiveNotes, Reopened,
    Downstream
<1>4. QED BY <1>3 DEF HeldInv

\* A worker that is done holds nothing.
LEMMA NothingHeld ==
  ASSUME TypeOK, NEW w \in Workers, Workers = {w}, Done(w) PROVE HeldInv'
<1>1. req'[w] = Idle BY DEF TypeOK, Done, Set
<1>2. Held(req[w])' BY <1>1 DEF Held, Idle
<1>3. QED BY <1>2 DEF HeldInv

\* A step of the patch that changes neither the question nor the decision.
LEMMA PatchGoesOn ==
  ASSUME TypeOK, HeldInv, NEW w \in Workers, Workers = {w}, NEW q, Set(w, q),
         LET p == req[w] IN
           /\ q.op = p.op /\ q.task = p.task /\ q.old = p.old /\ q.seen = p.seen /\ q.to = p.to
           /\ q.bb = p.bb /\ q.actor = p.actor /\ q.drops = p.drops
           /\ p.op \in {"patch", "block"}
           /\ p.pc \in {"loaded", "resolved"} => q.pc \in {"loaded", "resolved"}
           /\ q.pc = "cascaded" => q.downs = Downstream(p.task),
         UNCHANGED <<rows, closers>>
  PROVE  HeldInv'
<1>1. Held(req[w]) BY DEF HeldInv
<1>2. Held(q) BY <1>1 DEF Held, GatesOpen, MovesBlocker, Moves, Reopened
<1>3. QED BY <1>2, HoldingStep DEF rows

LEMMA HeldStep ==
  ASSUME TypeOK, HeldInv, NEW w, Workers = {w}, Next
  PROVE  HeldInv'
<1> w \in Workers OBVIOUS
<1>1. CASE \/ CommitCreate(w) \/ RefusePatch(w) \/ RefuseCycle(w) \/ CommitPatch(w)
           \/ RollBackPatch(w) \/ CommitBlock(w) \/ CreateNote(w) \/ SupersedeNote(w)
           \/ RevertSupersede(w) \/ CommitProject(w)
  BY <1>1, NothingHeld DEF CommitCreate, RefusePatch, RefuseCycle, CommitPatch, RollBackPatch,
    CommitBlock, CreateNote, SupersedeNote, RevertSupersede, WriteNote, CommitProject
<1>2. CASE AddRelated(w) \/ RemoveRelated(w) \/ ReopenProject(w)
  <2>1. req' = req /\ status' = status /\ blockedBy' = blockedBy /\ notes' = notes
    BY <1>2 DEF AddRelated, RemoveRelated, ReopenProject
  <2>2. Held(req'[w]) BY <2>1 DEF HeldInv
  <2>3. Held(req[w])'
    BY <2>1, <2>2 DEF Held, Row, Exists, GatesOpen, MovesBlocker, Moves, CycleNotes, LiveNotes,
      Reopened, Downstream
  <2>4. QED BY <2>3 DEF HeldInv
<1>3. CASE DecideComplete(w) \/ DecideArchive(w) \/ LoadBlock(w)
  <2>1. PICK q : Set(w, q) /\ q.op \in {"complete", "archive", "block"}
    <3>1. CASE DecideComplete(w) BY <3>1 DEF DecideComplete
    <3>2. CASE DecideArchive(w) BY <3>2 DEF DecideArchive
    <3>3. CASE LoadBlock(w) BY <3>3 DEF LoadBlock
    <3>4. QED BY <1>3, <3>1, <3>2, <3>3
  <2>2. Held(q) BY <2>1 DEF Held
  <2>3. QED BY <1>3, <2>1, <2>2, HoldingStep DEF DecideComplete, DecideArchive, LoadBlock, rows
<1>4. CASE DecideCreate(w)
  <2>1. PICK q : Set(w, q) /\ q.op = "create" /\ ~Exists(q.task) BY <1>4 DEF DecideCreate
  <2>2. Held(q) BY <2>1 DEF Held
  <2>3. QED BY <1>4, <2>1, <2>2, HoldingStep DEF DecideCreate, rows
<1>5. CASE DecideNote(w)
  <2>1. PICK t \in Tasks, n \in Notes, op \in {"note", "supersede", "revert"} :
          /\ Set(w, [op |-> op, task |-> t, note |-> n]) /\ Exists(t)
          /\ op = "note" => notes[n].state = "unborn"
          /\ op = "supersede" => n \in LiveNotes(t) /\ status[t] # "done"
          /\ op = "revert" => notes[n] = [task |-> t, state |-> "superseded"]
    BY <1>5 DEF DecideNote
  <2>2. Held([op |-> op, task |-> t, note |-> n]) BY <2>1 DEF Held, Exists
  <2>3. QED BY <1>5, <2>1, <2>2, HoldingStep DEF DecideNote, rows
<1>6. CASE LoadPatch(w)
  <2>1. PICK t, q : /\ Set(w, q) /\ q.op = "patch" /\ q.pc \in {"loaded", "resolved"}
                              /\ q.task = t /\ q.old = Row(t) /\ q.seen = Row(t) /\ Exists(t)
    BY <1>6 DEF LoadPatch
  <2>2. Held(q) BY <2>1 DEF Held
  <2>3. QED BY <1>6, <2>1, <2>2, HoldingStep DEF LoadPatch, rows
<1>7. CASE ResolveAgent(w)
  <2> DEFINE new == [req[w] EXCEPT !.pc = "resolved", !.seen = Row(req[w].task)]
  <2>1. req[w] \in EditShapes /\ Held(req[w]) /\ req[w].op = "patch"
    BY <1>7, Shapes DEF ResolveAgent, Holds, HeldInv, Edits
  <2>2. /\ new.op = "patch" /\ new.task = req[w].task /\ new.old = req[w].old
        /\ new.seen = Row(req[w].task) /\ new.pc = "resolved"
    BY <2>1 DEF EditShapes
  <2>3. Set(w, new) /\ UNCHANGED <<rows, closers>> BY <1>7 DEF ResolveAgent
  <2> HIDE DEF new
  <2>4. Held(new) BY <2>1, <2>2 DEF Held
  <2>5. QED BY <2>3, <2>4, HoldingStep DEF rows
<1>8. CASE PassGates(w)
  <2> DEFINE q == req[w]
             walks == MovesBlocker(q) /\ q.bb # None
             pc == IF walks THEN "walking" ELSE "walked"
             cursor == IF walks THEN q.bb ELSE None
             new == [q EXCEPT !.pc = pc, !.cursor = cursor, !.drops = Reopened(q)]
  <2>1. q \in EditShapes /\ q.op = "patch" /\ Held(q)
    BY <1>8, Shapes DEF PassGates, Holds, HeldInv, Edits
  <2>2. Set(w, new) /\ GatesOpen(q) /\ UNCHANGED <<rows, closers>> BY <1>8 DEF PassGates
  <2>3. /\ new.op = "patch" /\ new.task = q.task /\ new.old = q.old /\ new.seen = q.seen
        /\ new.to = q.to /\ new.bb = q.bb /\ new.actor = q.actor /\ new.drops = Reopened(q)
        /\ new.pc # "cascaded"
    <3> HIDE DEF q, cursor
    <3>1. QED BY <2>1 DEF EditShapes
  <2> HIDE DEF new, q
  <2>4. Reopened(new) = Reopened(q) /\ GatesOpen(new)
    BY <2>2, <2>3 DEF Reopened, Moves, GatesOpen, MovesBlocker
  <2>5. Held(new) BY <2>1, <2>3, <2>4 DEF Held
  <2>6. QED BY <2>2, <2>5, HoldingStep DEF rows
<1>9. CASE Hop(w) \/ EndWalk(w)
  <2> DEFINE p == req[w]
             hop == [p EXCEPT !.visited = @ \cup {p.cursor}, !.cursor = blockedBy[p.cursor]]
             end == [p EXCEPT !.pc = "walked"]
  <2>1. p \in EditShapes /\ p.pc = "walking" /\ UNCHANGED <<rows, closers>>
    BY <1>9, Shapes DEF Hop, EndWalk, Walking, Edits
  <2>2. PICK q : Set(w, q) /\ q \in {hop, end} BY <1>9 DEF Hop, EndWalk
  <2>3. /\ q.op = p.op /\ q.task = p.task /\ q.old = p.old /\ q.seen = p.seen /\ q.to = p.to
        /\ q.bb = p.bb /\ q.actor = p.actor /\ q.drops = p.drops /\ q.pc # "cascaded"
    <3> HIDE DEF p
    <3>1. QED BY <2>1, <2>2 DEF EditShapes
  <2>4. p.op \in {"patch", "block"} BY <2>1 DEF EditShapes
  <2> HIDE DEF hop, end
  <2>5. QED BY <2>1, <2>2, <2>3, <2>4, PatchGoesOn
<1>10. CASE Cascade(w)
  <2> DEFINE p == req[w]
             fresh == {d \in Downstream(p.task) : {d, p.task} \notin links}
             q == [p EXCEPT !.pc = "cascaded", !.downs = Downstream(p.task), !.fresh = fresh]
  <2>1. p \in EditShapes /\ p.pc = "walked" /\ UNCHANGED <<rows, closers>>
    BY <1>10, Shapes DEF Cascade, Edits
  <2>2. Set(w, q) BY <1>10 DEF Cascade
  <2>3. /\ q.op = p.op /\ q.task = p.task /\ q.old = p.old /\ q.seen = p.seen /\ q.to = p.to
        /\ q.bb = p.bb /\ q.actor = p.actor /\ q.drops = p.drops /\ q.downs = Downstream(p.task)
    <3> HIDE DEF p, fresh
    <3>1. QED BY <2>1 DEF EditShapes
  <2>4. p.op \in {"patch", "block"} BY <2>1 DEF EditShapes
  <2> HIDE DEF q
  <2>5. QED BY <2>1, <2>2, <2>3, <2>4, PatchGoesOn
<1>11. QED
  BY <1>1, <1>2, <1>3, <1>4, <1>5, <1>6, <1>7, <1>8, <1>9, <1>10 DEF Next

\* Steps that touch neither a status nor a note are none of the ticket's life.
LEMMA NoWorkflowStep ==
  ASSUME status' = status, notes' = notes PROVE UNCHANGED Workflow!vars
BY DEF Workflow!vars, CycleNotes

\* A PATCH that moves its ticket moves it along the abstract transitions.
LEMMA PatchMoves ==
  ASSUME TypeOK, HeldInv, NEW w \in Workers, CommitPatch(w)
  PROVE  (\E t \in Tasks, to \in Statuses : Workflow!Move(t, to)) \/ UNCHANGED Workflow!vars
<1> DEFINE q == req[w]
           noted == [u \in Tasks |-> CycleNotes(u) # {}]
<1>0. PICK t \in Tasks : t = q.task
  BY Shapes DEF CommitPatch, ReadyToCommit, Holds, Edits, EditShapes
<1>1. q \in EditShapes /\ q.op = "patch" /\ q.pc \notin {"loaded", "resolved"}
  BY Shapes DEF CommitPatch, ReadyToCommit, Holds, Edits, EditShapes
<1>2. /\ q.old = Row(t) /\ q.seen = Row(t) /\ status[t] # None
      /\ GatesOpen(q) /\ q.drops = Reopened(q)
  BY <1>0, <1>1 DEF HeldInv, Held, Exists
<1>3. q.old.status = status[t] /\ q.seen.status = status[t] BY <1>2 DEF Row
<1>4. notes' = [n \in Notes |->
         IF n \in q.drops THEN [notes[n] EXCEPT !.state = "superseded"]
         ELSE IF n \in CycleNotes(t) /\ Moves(q) /\ q.old.status \in Terminal
         THEN [notes[n] EXCEPT !.state = "stale"]
         ELSE notes[n]]
  BY <1>0 DEF CommitPatch
<1>5. status' = [status EXCEPT ![t] =
         IF Final(q).status = q.seen.status THEN @ ELSE Final(q).status]
  BY <1>0 DEF CommitPatch
<1>6. CASE ~Moves(q)
  <2>1. Final(q).status = status[t] BY <1>3, <1>6 DEF Moves, Final
  <2>2. status' = status BY <1>3, <1>5, <2>1 DEF TypeOK
  <2>3. q.drops = {} BY <1>2, <1>6 DEF Reopened
  <2>4. notes' = notes BY <1>4, <1>6, <2>3 DEF TypeOK
  <2>5. QED BY <2>2, <2>4, NoWorkflowStep
<1>7. CASE Moves(q)
  <2>1. q.to \in Statuses /\ q.to # status[t] /\ q.to \in VALID_TRANSITIONS[status[t]]
    BY <1>1, <1>2, <1>3, <1>7, BoardAssumption DEF Moves, GatesOpen, EditShapes
  <2>2. q.to = "done" => noted[t]
    BY <1>0, <1>1, <1>2, <1>7, BoardAssumption DEF GatesOpen, Terminal, EditShapes
  <2>3. status' = [status EXCEPT ![t] = q.to]
    BY <1>3, <1>5, <1>7, <2>1 DEF Moves, Final
  <2>4. \A u \in Tasks \ {t} : (CycleNotes(u) # {})' = (CycleNotes(u) # {})
    <3>1. \A n \in Notes : notes'[n] # notes[n] => notes[n].task = t /\ notes'[n].task = t
      <4>1. q.drops \subseteq LiveNotes(t) BY <1>0, <1>2 DEF Reopened
      <4> HIDE DEF q
      <4>2. QED BY <1>4, <4>1 DEF LiveNotes, CycleNotes, TypeOK, NoteRows
    <3>2. QED BY <3>1 DEF CycleNotes
  <2>5. (CycleNotes(t) # {})' = (CycleNotes(t) # {} /\ status[t] \notin Terminal)
    <3>1. CASE status[t] = "done"
      <4>1. q.drops = LiveNotes(t) BY <1>0, <1>2, <1>3, <1>7, <3>1 DEF Reopened
      <4>2. CycleNotes(t) \subseteq LiveNotes(t) BY DEF CycleNotes, LiveNotes
      <4>3. \A n \in Notes : notes'[n] # [task |-> t, state |-> "active"]
        <5> HIDE DEF q
        <5>1. QED BY <1>4, <4>1, <4>2 DEF LiveNotes, CycleNotes, TypeOK, NoteRows
      <4>4. QED BY <3>1, <4>3 DEF CycleNotes, Terminal
    <3>2. CASE status[t] = "cancelled"
      <4>1. q.drops = {} BY <1>2, <1>3, <3>2 DEF Reopened
      <4>2. \A n \in Notes : notes'[n] # [task |-> t, state |-> "active"]
        <5>1. q.old.status \in Terminal BY <1>3, <3>2 DEF Terminal
        <5> HIDE DEF q
        <5>2. QED BY <1>4, <1>7, <4>1, <5>1 DEF CycleNotes, TypeOK, NoteRows
      <4>3. QED BY <3>2, <4>2 DEF CycleNotes, Terminal
    <3>3. CASE status[t] \notin Terminal
      <4>1. q.drops = {} BY <1>2, <1>3, <3>3 DEF Reopened, Terminal
      <4>2. notes' = notes BY <1>3, <1>4, <3>3, <4>1 DEF TypeOK
      <4>3. QED BY <3>3, <4>2 DEF CycleNotes
    <3>4. QED BY <3>1, <3>2, <3>3 DEF Terminal
  <2>6. noted' = [noted EXCEPT ![t] = @ /\ status[t] \notin Terminal]
    <3>1. noted' = [u \in Tasks |-> IF u = t THEN noted[t] /\ status[t] \notin Terminal ELSE noted[u]]
      BY <2>4, <2>5
    <3>2. QED BY <3>1
  <2>7. Workflow!Move(t, q.to)
    BY <1>2, <2>1, <2>2, <2>3, <2>6 DEF Workflow!Move, Workflow!Terminal, Terminal
  <2>8. QED BY <1>1, <2>1, <2>7
<1>8. QED BY <1>6, <1>7

\* Writing a note posts one, retracts the last one, or changes nothing.
LEMMA NoteSteps ==
  ASSUME TypeOK, HeldInv, NEW w \in Workers,
         CreateNote(w) \/ SupersedeNote(w) \/ RevertSupersede(w)
  PROVE  \/ \E t \in Tasks : Workflow!PostNote(t) \/ Workflow!RetractNote(t)
         \/ UNCHANGED Workflow!vars
<1> DEFINE q == req[w]
           noted == [u \in Tasks |-> CycleNotes(u) # {}]
<1>1. q \in NoteJobs /\ Held(q) /\ status' = status
  BY Shapes DEF CreateNote, SupersedeNote, RevertSupersede, WriteNote, Holds, HeldInv
<1>2. PICK t \in Tasks, n \in Notes : t = q.task /\ n = q.note BY <1>1 DEF NoteJobs
<1>3. CASE CreateNote(w)
  <2>1. notes[n].state = "unborn" /\ status[t] # None
    BY <1>1, <1>2, <1>3 DEF CreateNote, WriteNote, Holds, Held, Exists
  <2>2. notes' = [notes EXCEPT ![n] = [task |-> t, state |-> "active"]]
    BY <1>2, <1>3 DEF CreateNote, WriteNote
  <2>3. CycleNotes(t)' # {} BY <1>2, <2>2 DEF CycleNotes, TypeOK
  <2>4. \A u \in Tasks \ {t} : CycleNotes(u)' = CycleNotes(u)
    BY <1>2, <2>1, <2>2 DEF CycleNotes, TypeOK
  <2>5. noted' = [noted EXCEPT ![t] = TRUE]
    <3>1. noted' = [u \in Tasks |-> IF u = t THEN TRUE ELSE noted[u]]
      BY <2>3, <2>4
    <3>2. QED BY <3>1
  <2>6. Workflow!PostNote(t) BY <1>1, <2>1, <2>5 DEF Workflow!PostNote
  <2>7. QED BY <1>2, <2>6
<1>4. CASE SupersedeNote(w)
  <2>1. n \in LiveNotes(t) /\ status[t] \notin {None, "done"}
    BY <1>1, <1>2, <1>4 DEF SupersedeNote, WriteNote, Holds, Held
  <2>2. notes' = [notes EXCEPT ![n] = [task |-> t, state |-> "superseded"]]
    BY <1>2, <1>4 DEF SupersedeNote, WriteNote
  <2>3. \A u \in Tasks \ {t} : CycleNotes(u)' = CycleNotes(u)
    BY <1>2, <2>1, <2>2 DEF CycleNotes, LiveNotes, TypeOK
  <2>4. CycleNotes(t)' \subseteq CycleNotes(t)
    BY <1>2, <2>2 DEF CycleNotes, TypeOK
  <2>5. CASE CycleNotes(t)' = {}
    <3>1. noted' = [u \in Tasks |-> IF u = t THEN FALSE ELSE noted[u]]
      BY <2>3, <2>5
    <3>2. noted' = [noted EXCEPT ![t] = FALSE] BY <3>1
    <3>3. Workflow!RetractNote(t) BY <1>1, <2>1, <3>2 DEF Workflow!RetractNote
    <3>4. QED BY <1>2, <3>3
  <2>6. CASE CycleNotes(t)' # {}
    <3>1. \A u \in Tasks : (CycleNotes(u) # {})' = (CycleNotes(u) # {})
      BY <2>3, <2>4, <2>6
    <3>2. QED BY <1>1, <3>1 DEF Workflow!vars
  <2>7. QED BY <2>5, <2>6
<1>5. CASE RevertSupersede(w)
  <2>1. notes[n] = [task |-> t, state |-> "superseded"]
    BY <1>1, <1>2, <1>5 DEF RevertSupersede, WriteNote, Holds, Held
  <2>2. notes' = [notes EXCEPT ![n] = [task |-> t, state |-> "plain"]]
    BY <1>2, <1>5 DEF RevertSupersede, WriteNote
  <2>3. \A u \in Tasks : CycleNotes(u)' = CycleNotes(u)
    BY <1>2, <2>1, <2>2 DEF CycleNotes, TypeOK
  <2>4. QED BY <1>1, <2>3 DEF Workflow!vars
<1>6. QED BY <1>3, <1>4, <1>5

\* What the only worker holds is right in every state.
LEMMA SerialHolds ==
  ASSUME NEW w, Workers = {w}
  PROVE  Spec => []HeldInv
<1>1. Init => HeldInv BY DEF Init, HeldInv, Held, Idle
<1>2. TypeOK /\ HeldInv /\ [Next]_vars => HeldInv'
  <2>1. ASSUME HeldInv, UNCHANGED vars PROVE HeldInv'
    <3>1. Held(req'[w]) BY <2>1 DEF vars, rows, HeldInv
    <3>2. Held(req[w])'
      BY <2>1, <3>1 DEF vars, rows, Held, Row, Exists, GatesOpen, MovesBlocker, Moves,
        CycleNotes, LiveNotes, Reopened, Downstream
    <3>3. QED BY <3>2 DEF HeldInv
  <2>2. QED BY <2>1, HeldStep
<1>3. QED BY <1>1, <1>2, TypeCorrect, PTL DEF Spec

\* When requests do not overlap, every ticket of a board of any size lives the
\* life that TaskWorkflow describes.
THEOREM SerialBoardImplementsWorkflow ==
  ASSUME NEW w, Workers = {w}
  PROVE  Spec => WorkflowSpec
<1>1. Init => Workflow!Init
  <2> SUFFICES ASSUME Init PROVE Workflow!Init OBVIOUS
  <2>1. \A t \in Tasks : CycleNotes(t) = {} BY DEF Init, CycleNotes
  <2>2. QED BY <2>1 DEF Init, Workflow!Init
<1>2. TypeOK /\ HeldInv /\ [Next]_vars => [Workflow!Next]_(Workflow!vars)
  <2> SUFFICES ASSUME TypeOK, HeldInv, [Next]_vars
               PROVE  Workflow!Next \/ UNCHANGED Workflow!vars
    OBVIOUS
  <2> w \in Workers OBVIOUS
  <2>1. CASE CommitPatch(w)
    BY <2>1, PatchMoves DEF Workflow!Next, Workflow!Statuses, Statuses
  <2>2. CASE CreateNote(w) \/ SupersedeNote(w) \/ RevertSupersede(w)
    BY <2>2, NoteSteps DEF Workflow!Next
  <2>3. CASE CommitCreate(w)
    <3>1. req[w] \in Creates /\ Held(req[w]) /\ req[w].op = "create"
      BY <2>3, Shapes DEF CommitCreate, Holds, HeldInv
    <3>2. req[w].task \in Tasks /\ req[w].to \in Statuses /\ status[req[w].task] = None
      BY <3>1, BoardAssumption DEF Creates, Held, Exists
    <3>3. status' = [status EXCEPT ![req[w].task] = req[w].to] /\ notes' = notes
      BY <2>3 DEF CommitCreate
    <3>4. Workflow!Create(req[w].task)
      BY <3>2, <3>3 DEF Workflow!Create, Workflow!Statuses, Statuses, CycleNotes
    <3>5. QED BY <3>2, <3>4 DEF Workflow!Next
  <2>4. CASE UNCHANGED vars BY <2>4, NoWorkflowStep DEF vars, rows
  <2>5. CASE \/ DecideCreate(w) \/ LoadPatch(w) \/ ResolveAgent(w) \/ PassGates(w)
             \/ RefusePatch(w) \/ Hop(w) \/ EndWalk(w) \/ RefuseCycle(w) \/ Cascade(w)
             \/ RollBackPatch(w) \/ LoadBlock(w) \/ CommitBlock(w) \/ AddRelated(w)
             \/ RemoveRelated(w) \/ DecideNote(w) \/ DecideComplete(w) \/ DecideArchive(w)
             \/ CommitProject(w) \/ ReopenProject(w)
    <3>1. status' = status /\ notes' = notes
      BY <2>5 DEF DecideCreate, LoadPatch, ResolveAgent, PassGates, RefusePatch, Hop, EndWalk,
        RefuseCycle, Cascade, RollBackPatch, LoadBlock, CommitBlock, AddRelated, RemoveRelated,
        DecideNote, DecideComplete, DecideArchive, CommitProject, ReopenProject, rows
    <3>2. QED BY <3>1, NoWorkflowStep
  <2>6. QED BY <2>1, <2>2, <2>3, <2>4, <2>5 DEF Next
<1>3. QED BY <1>1, <1>2, SerialHolds, TypeCorrect, PTL DEF Spec, WorkflowSpec, Workflow!Spec

-----------------------------------------------------------------------------
(* A project that has ended *)

\* Until a request of the only worker commits, the project is as the request
\* found it: open for a ticket to be changed, or empty of open tickets.
Ends(p) == p.status = "completed" \/ (p.status = "archived" /\ p.reason = "completed")

Promises(q) ==
  /\ q.op \in {"patch", "create"} => project.status = "active"
  /\ q.op \in {"complete", "archive"} => q.was = project /\ (Ends(q.new) => OpenTasks = {})

EndsInv == (Ends(project) => OpenTasks = {}) /\ \A w \in Workers : Promises(req[w])

\* A step that touches neither a status nor the project.
LEMMA PromisingStep ==
  ASSUME TypeOK, EndsInv, NEW w \in Workers, Workers = {w}, NEW q, req' = [req EXCEPT ![w] = q],
         Promises(q), status' = status, project' = project
  PROVE  EndsInv'
<1>1. OpenTasks' = OpenTasks BY DEF OpenTasks, Exists
<1>2. req'[w] = q BY DEF TypeOK
<1>3. Promises(req[w])' BY <1>1, <1>2 DEF Promises, Ends
<1>4. (Ends(project) => OpenTasks = {})' BY <1>1 DEF EndsInv, Ends
<1>5. QED BY <1>3, <1>4 DEF EndsInv

\* A step of a PATCH that goes on promises what the PATCH promised.
LEMMA PatchPromises ==
  ASSUME TypeOK, EndsInv, NEW w \in Workers,
         \/ ResolveAgent(w) \/ PassGates(w) \/ Hop(w) \/ EndWalk(w) \/ Cascade(w)
  PROVE  \E q : Set(w, q) /\ Promises(q)
<1> DEFINE p == req[w]
<1>1. p \in EditShapes /\ Promises(p)
  BY Shapes DEF EndsInv, ResolveAgent, PassGates, Hop, EndWalk, Cascade, Walking, Edits
<1>2. ASSUME NEW q, q.op = p.op, Set(w, q) PROVE \E r : Set(w, r) /\ Promises(r)
  <2>1. p.op \in {"patch", "block"} BY <1>1 DEF EditShapes
  <2>2. Promises(q) BY <1>1, <1>2, <2>1 DEF Promises
  <2>3. QED BY <1>2, <2>2
<1>3. CASE ResolveAgent(w)
  <2> DEFINE q == [p EXCEPT !.pc = "resolved", !.seen = Row(p.task)]
  <2>1. q.op = p.op BY <1>1 DEF EditShapes
  <2>2. Set(w, q) BY <1>3 DEF ResolveAgent
  <2> HIDE DEF q, p
  <2>3. QED BY <1>2, <2>1, <2>2
<1>4. CASE PassGates(w)
  <2> DEFINE walks == MovesBlocker(p) /\ p.bb # None
             q == [p EXCEPT !.pc = IF walks THEN "walking" ELSE "walked",
                            !.cursor = IF walks THEN p.bb ELSE None, !.drops = Reopened(p)]
  <2>1. q.op = p.op
    <3> HIDE DEF p, walks
    <3>1. QED BY <1>1 DEF EditShapes
  <2>2. Set(w, q) BY <1>4 DEF PassGates
  <2> HIDE DEF q, p
  <2>3. QED BY <1>2, <2>1, <2>2
<1>5. CASE Hop(w)
  <2> DEFINE q == [p EXCEPT !.visited = @ \cup {p.cursor}, !.cursor = blockedBy[p.cursor]]
  <2>1. q.op = p.op
    <3> HIDE DEF p
    <3>1. QED BY <1>1 DEF EditShapes
  <2>2. Set(w, q) BY <1>5 DEF Hop
  <2> HIDE DEF q, p
  <2>3. QED BY <1>2, <2>1, <2>2
<1>6. CASE EndWalk(w)
  <2> DEFINE q == [p EXCEPT !.pc = "walked"]
  <2>1. q.op = p.op BY <1>1 DEF EditShapes
  <2>2. Set(w, q) BY <1>6 DEF EndWalk
  <2> HIDE DEF q, p
  <2>3. QED BY <1>2, <2>1, <2>2
<1>7. CASE Cascade(w)
  <2> DEFINE fresh == {d \in Downstream(p.task) : {d, p.task} \notin links}
             q == [p EXCEPT !.pc = "cascaded", !.downs = Downstream(p.task), !.fresh = fresh]
  <2>1. q.op = p.op
    <3> HIDE DEF p, fresh
    <3>1. QED BY <1>1 DEF EditShapes
  <2>2. Set(w, q) BY <1>7 DEF Cascade
  <2> HIDE DEF q, p
  <2>3. QED BY <1>2, <2>1, <2>2
<1>8. QED BY <1>3, <1>4, <1>5, <1>6, <1>7

LEMMA EndsStep ==
  ASSUME TypeOK, EndsInv, NEW w, Workers = {w}, Next
  PROVE  EndsInv'
<1> w \in Workers OBVIOUS
<1>1. CASE ResolveAgent(w) \/ PassGates(w) \/ Hop(w) \/ EndWalk(w) \/ Cascade(w)
  <2>1. PICK q : Set(w, q) /\ Promises(q) BY <1>1, PatchPromises
  <2>2. status' = status /\ project' = project
    BY <1>1 DEF ResolveAgent, PassGates, Hop, EndWalk, Cascade, rows
  <2>3. QED BY <2>1, <2>2, PromisingStep DEF Set
<1>2. CASE DecideCreate(w) \/ LoadPatch(w)
  <2>1. PICK q : Set(w, q) /\ q.op \in {"create", "patch"}
    <3>1. CASE DecideCreate(w) BY <3>1 DEF DecideCreate
    <3>2. CASE LoadPatch(w) BY <3>2 DEF LoadPatch
    <3>3. QED BY <1>2, <3>1, <3>2
  <2>2. project.status = "active" /\ status' = status /\ project' = project
    BY <1>2 DEF DecideCreate, LoadPatch, rows
  <2>3. Promises(q) BY <2>1, <2>2 DEF Promises
  <2>4. QED BY <2>1, <2>2, <2>3, PromisingStep DEF Set
<1>3. CASE DecideNote(w) \/ LoadBlock(w)
  <2>1. PICK q : Set(w, q) /\ q.op \in {"note", "supersede", "revert", "block"}
    <3>1. CASE DecideNote(w) BY <3>1 DEF DecideNote
    <3>2. CASE LoadBlock(w) BY <3>2 DEF LoadBlock
    <3>3. QED BY <1>3, <3>1, <3>2
  <2>2. Promises(q) BY <2>1 DEF Promises
  <2>3. status' = status /\ project' = project BY <1>3 DEF DecideNote, LoadBlock, rows
  <2>4. QED BY <2>1, <2>2, <2>3, PromisingStep DEF Set
<1>4. CASE \/ RefusePatch(w) \/ RefuseCycle(w) \/ RollBackPatch(w) \/ CommitBlock(w)
           \/ CreateNote(w) \/ SupersedeNote(w) \/ RevertSupersede(w)
  <2>1. Set(w, Idle) /\ status' = status /\ project' = project
    BY <1>4 DEF RefusePatch, RefuseCycle, RollBackPatch, CommitBlock, CreateNote, SupersedeNote,
      RevertSupersede, WriteNote, Done, rows
  <2>2. Promises(Idle) BY DEF Promises, Idle
  <2>3. QED BY <2>1, <2>2, PromisingStep DEF Set
<1>5. CASE AddRelated(w) \/ RemoveRelated(w)
  <2>1. req' = req /\ status' = status /\ project' = project BY <1>5 DEF AddRelated, RemoveRelated
  <2>2. req' = [req EXCEPT ![w] = req[w]] BY <2>1 DEF TypeOK
  <2>3. Promises(req[w]) BY DEF EndsInv
  <2>4. QED BY <2>1, <2>2, <2>3, PromisingStep
<1>6. CASE CommitCreate(w) \/ CommitPatch(w)
  <2>1. project.status = "active"
    BY <1>6 DEF EndsInv, Promises, CommitCreate, CommitPatch, ReadyToCommit, Holds
  <2>2. project' = project /\ Done(w) BY <1>6 DEF CommitCreate, CommitPatch
  <2>3. ~Ends(project)' BY <2>1, <2>2 DEF Ends
  <2>4. req'[w] = Idle BY <2>2 DEF TypeOK, Done, Set
  <2>5. Promises(req[w])' BY <2>4 DEF Promises, Idle
  <2>6. QED BY <2>3, <2>5 DEF EndsInv
<1>7. CASE DecideComplete(w)
  <2> DEFINE q == [op |-> "complete", was |-> project, new |-> [project EXCEPT !.status = "completed"]]
  <2>1. Set(w, q) /\ OpenTasks = {} /\ status' = status /\ project' = project
    BY <1>7 DEF DecideComplete, rows
  <2>2. Promises(q) BY <2>1 DEF Promises
  <2> HIDE DEF q
  <2>3. QED BY <2>1, <2>2, PromisingStep DEF Set
<1>8. CASE DecideArchive(w)
  <2> DEFINE q == [op |-> "archive", was |-> project,
                   new |-> [status |-> "archived",
                            reason |-> IF OpenTasks = {} THEN "completed" ELSE "abandoned"]]
  <2>1. Set(w, q) /\ status' = status /\ project' = project BY <1>8 DEF DecideArchive, rows
  <2>2. Promises(q) BY DEF Promises, Ends
  <2> HIDE DEF q
  <2>3. QED BY <2>1, <2>2, PromisingStep DEF Set
<1>9. CASE CommitProject(w)
  <2> DEFINE q == req[w]
  <2>1. q.op \in {"complete", "archive"} /\ q \in ProjectJobs
    BY <1>9, Shapes DEF CommitProject, Holds
  <2>2. q.was = project /\ (Ends(q.new) => OpenTasks = {}) BY <2>1 DEF EndsInv, Promises
  <2>3. /\ project' = [c \in DOMAIN project |-> IF q.new[c] = q.was[c] THEN project[c] ELSE q.new[c]]
        /\ Done(w) /\ status' = status
    BY <1>9 DEF CommitProject
  <2>4. DOMAIN project = {"status", "reason"} BY DEF TypeOK, ProjectRows
  <2>5. project'.status = q.new.status /\ project'.reason = q.new.reason
    <3> HIDE DEF q
    <3>1. QED BY <2>2, <2>3, <2>4
  <2>6. OpenTasks' = OpenTasks BY <2>3 DEF OpenTasks, Exists
  <2>7. (Ends(project) => OpenTasks = {})' BY <2>2, <2>5, <2>6 DEF Ends
  <2>8. req'[w] = Idle BY <2>3 DEF TypeOK, Done, Set
  <2>9. Promises(req[w])' BY <2>8 DEF Promises, Idle
  <2>10. QED BY <2>7, <2>9 DEF EndsInv
<1>10. CASE ReopenProject(w)
  <2>1. project'.status = "active" BY <1>10 DEF ReopenProject, TypeOK, ProjectRows
  <2>2. req' = req /\ Free(w) BY <1>10 DEF ReopenProject
  <2>3. Promises(req[w])' BY <2>2 DEF Promises, Free
  <2>4. ~Ends(project)' BY <2>1 DEF Ends
  <2>5. QED BY <2>3, <2>4 DEF EndsInv
<1>11. QED
  BY <1>1, <1>2, <1>3, <1>4, <1>5, <1>6, <1>7, <1>8, <1>9, <1>10 DEF Next

\* When requests do not overlap, a project that was completed, or archived as
\* completed, has no open ticket, on a board of any size: the gate of
\* complete, the reason that archive writes, and the lock that keeps create
\* and PATCH out of a project that is not active work together.
THEOREM SerialProjectsEndClean ==
  ASSUME NEW w, Workers = {w}
  PROVE  Spec => []NothingLeftOpen
<1>1. Init => EndsInv BY DEF Init, EndsInv, Ends, Promises, Idle
<1>2. TypeOK /\ EndsInv /\ [Next]_vars => EndsInv'
  <2>1. ASSUME TypeOK, EndsInv, UNCHANGED vars PROVE EndsInv'
    BY <2>1 DEF vars, rows, EndsInv, Ends, Promises, OpenTasks, Exists
  <2>2. QED BY <2>1, EndsStep
<1>3. EndsInv => NothingLeftOpen BY DEF EndsInv, Ends, NothingLeftOpen
<1>4. QED BY <1>1, <1>2, <1>3, TypeCorrect, PTL DEF Spec

-----------------------------------------------------------------------------
(* What a closing leaves *)

\* Only the commit of a PATCH moves a ticket that exists.
LEMMA WhoMoves ==
  ASSUME TypeOK, NEW t \in Tasks, status[t] # None, status'[t] # status[t], Next
  PROVE  \E w \in Workers : CommitPatch(w) \/ (CommitCreate(w) /\ req[w].task = t)
<1>1. PICK w \in Workers :
        \/ CommitPatch(w) \/ CommitCreate(w)
        \/ DecideCreate(w) \/ LoadPatch(w) \/ ResolveAgent(w) \/ PassGates(w)
        \/ RefusePatch(w) \/ Hop(w) \/ EndWalk(w) \/ RefuseCycle(w) \/ Cascade(w)
        \/ RollBackPatch(w) \/ LoadBlock(w) \/ CommitBlock(w) \/ AddRelated(w)
        \/ RemoveRelated(w) \/ DecideNote(w) \/ CreateNote(w) \/ SupersedeNote(w)
        \/ RevertSupersede(w) \/ DecideComplete(w) \/ DecideArchive(w)
        \/ CommitProject(w) \/ ReopenProject(w)
  BY DEF Next
<1>2. CASE CommitPatch(w) BY <1>2
<1>3. CASE CommitCreate(w)
  <2>1. req[w].task = t BY <1>3 DEF CommitCreate, TypeOK
  <2>2. QED BY <1>3, <2>1
<1>4. CASE ~CommitPatch(w) /\ ~CommitCreate(w)
  BY <1>1, <1>4 DEF DecideCreate, LoadPatch, ResolveAgent, PassGates, RefusePatch, Hop, EndWalk,
    RefuseCycle, Cascade, RollBackPatch, LoadBlock, CommitBlock, AddRelated, RemoveRelated,
    DecideNote, CreateNote, SupersedeNote, RevertSupersede, WriteNote, DecideComplete,
    DecideArchive, CommitProject, ReopenProject, rows
<1>5. QED BY <1>2, <1>3, <1>4

\* When requests do not overlap, a ticket that is closed is named on no card
\* any more: the downstream tickets that the cascade read are all there are at
\* the commit, and the ticket does not take itself for a blocker.
THEOREM SerialClosingUnblocks ==
  ASSUME NEW w, Workers = {w}
  PROVE  Spec => ClosingUnblocks
<1>1. ASSUME TypeOK, HeldInv, Next, NEW t \in Tasks,
             status[t] \notin Terminal \cup {None}, status'[t] \in Terminal, NEW d \in Tasks
      PROVE  _render_card(d)'.blocked # t
  <2> DEFINE q == req[w]
  <2> w \in Workers OBVIOUS
  <2>1. CommitPatch(w) \/ (CommitCreate(w) /\ q.task = t) BY <1>1, WhoMoves
  <2>2. ~(CommitCreate(w) /\ q.task = t)
    BY <1>1 DEF CommitCreate, Holds, HeldInv, Held, Exists
  <2>3. CommitPatch(w) BY <2>1, <2>2
  <2>4. q \in EditShapes /\ q.op = "patch" /\ q.task \in Tasks
    BY <1>1, <2>3, Shapes DEF CommitPatch, ReadyToCommit, Holds, Edits, EditShapes
  <2>5. status' = [status EXCEPT ![q.task] =
           IF Final(q).status = q.seen.status THEN @ ELSE Final(q).status]
    BY <2>3 DEF CommitPatch
  <2>6. q.task = t
    <3> HIDE DEF q
    <3>1. QED BY <1>1, <2>4, <2>5 DEF TypeOK
  <2>7. Closes(q)
    <3>1. status'[t] = Final(q).status /\ Final(q).status # q.seen.status
      <4> HIDE DEF q
      <4>1. QED BY <1>1, <2>4, <2>5, <2>6 DEF TypeOK
    <3>2. q.to \in Terminal /\ q.to # Keep /\ q.to # q.seen.status
      BY <1>1, <3>1, RowsAssumption DEF Final
    <3>3. q.old.status = q.seen.status BY <1>1, <2>4 DEF HeldInv, Held
    <3>4. QED BY <3>2, <3>3 DEF Closes, Moves
  <2>8. q.pc = "cascaded" BY <2>3, <2>7 DEF CommitPatch, ReadyToCommit
  <2>9. q.downs = Downstream(t) /\ GatesOpen(q) BY <1>1, <2>4, <2>6, <2>8 DEF HeldInv, Held
  <2>10. Final(q).bb # t
    BY <2>6, <2>7, <2>9, RowsAssumption DEF GatesOpen, Final, Closes
  <2>11. blockedBy'[d] = IF d = t /\ Final(q).bb # q.seen.bb THEN Final(q).bb
                         ELSE IF d \in q.downs THEN None ELSE blockedBy[d]
    BY <2>3, <2>6 DEF CommitPatch
  <2>12. blockedBy'[d] # t
    <3> HIDE DEF q
    <3>1. QED BY <2>9, <2>10, <2>11, RowsAssumption DEF Downstream
  <2>13. QED BY <2>12 DEF _render_card
<1>2. TypeOK /\ HeldInv /\ [Next]_vars =>
        [\A t \in Tasks :
           status[t] \notin Terminal \cup {None} /\ status'[t] \in Terminal
             => \A d \in Tasks : _render_card(d)'.blocked # t]_vars
  BY <1>1
<1>3. QED BY <1>2, SerialHolds, TypeCorrect, PTL DEF Spec, ClosingUnblocks

\* What a request knows of the edges it draws and of those it removes: its
\* tickets exist, it names no ticket as its own blocker, and an edge that the
\* cascade will remove without a new link has a link already.
Edging(q) ==
  /\ q.op \in {"patch", "block"} => Exists(q.task) /\ (q.bb \in Tasks => Exists(q.bb))
  /\ q.op = "patch" =>
       /\ q.pc \notin {"loaded", "resolved"} => ~(MovesBlocker(q) /\ q.bb = q.task)
       /\ \A d \in q.downs \ q.fresh : {d, q.task} \in links
  /\ q.op = "block" => q.bb # q.task

EdgesJoin == \A d \in Tasks : blockedBy[d] # None =>
  blockedBy[d] # d /\ Exists(d) /\ Exists(blockedBy[d])

EdgeInv == EdgesJoin /\ \A w \in Workers : Edging(req[w])

\* Tickets and links stay: nothing deletes a ticket, and without "unrelate"
\* nothing deletes a link.
Grows == (\A t \in Tasks : Exists(t) => Exists(t)') /\ links \subseteq links'

LEMMA BoardGrows ==
  ASSUME TypeOK, Next, "unrelate" \notin Operations
  PROVE  Grows
<1>1. PICK w \in Workers :
        \/ CommitPatch(w) \/ CommitCreate(w)
        \/ DecideCreate(w) \/ LoadPatch(w) \/ ResolveAgent(w) \/ PassGates(w)
        \/ RefusePatch(w) \/ Hop(w) \/ EndWalk(w) \/ RefuseCycle(w) \/ Cascade(w)
        \/ RollBackPatch(w) \/ LoadBlock(w) \/ CommitBlock(w) \/ AddRelated(w)
        \/ RemoveRelated(w) \/ DecideNote(w) \/ CreateNote(w) \/ SupersedeNote(w)
        \/ RevertSupersede(w) \/ DecideComplete(w) \/ DecideArchive(w)
        \/ CommitProject(w) \/ ReopenProject(w)
  BY DEF Next
<1>2. CASE CommitPatch(w)
  <2> DEFINE q == req[w]
             s == Final(q).status
  <2>1. q \in Edits BY <1>2, Shapes DEF CommitPatch, ReadyToCommit
  <2>2. s # q.seen.status => s \in Statuses BY <2>1, FinalType
  <2>3. status' = [status EXCEPT ![q.task] = IF s = q.seen.status THEN @ ELSE s]
        /\ links \subseteq links'
    BY <1>2 DEF CommitPatch
  <2>4. \A t \in Tasks : Exists(t) => status'[t] # None
    <3> HIDE DEF q, s
    <3>1. QED BY <2>2, <2>3, RowsAssumption DEF TypeOK, Exists
  <2>5. QED BY <2>3, <2>4 DEF Grows, Exists
<1>3. CASE CommitCreate(w)
  <2>1. req[w].to \in Statuses BY <1>3, Shapes, BoardAssumption DEF CommitCreate, Creates
  <2>2. QED BY <1>3, <2>1, RowsAssumption DEF CommitCreate, TypeOK, Grows, Exists
<1>4. CASE ~CommitPatch(w) /\ ~CommitCreate(w)
  BY <1>1, <1>4 DEF DecideCreate, LoadPatch, ResolveAgent, PassGates, RefusePatch, Hop, EndWalk,
    RefuseCycle, Cascade, RollBackPatch, LoadBlock, CommitBlock, AddRelated, RemoveRelated,
    DecideNote, CreateNote, SupersedeNote, RevertSupersede, WriteNote, DecideComplete,
    DecideArchive, CommitProject, ReopenProject, rows, Grows, Exists
<1>5. QED BY <1>2, <1>3, <1>4

\* What the workers know stays so while the board grows.
LEMMA EdgingStays ==
  ASSUME TypeOK, Grows, EdgeInv, NEW w \in Workers, req' = req \/ Done(w)
  PROVE  \A v \in Workers : Edging(req[v])'
<1> SUFFICES ASSUME NEW v \in Workers PROVE Edging(req[v])' OBVIOUS
<1>1. req'[v] = req[v] \/ req'[v] = Idle BY DEF TypeOK, Done, Set
<1>2. CASE req'[v] = Idle BY <1>2 DEF Edging, Idle
<1>3. CASE req'[v] = req[v]
  <2>1. Edging(req[v]) BY DEF EdgeInv
  <2>2. req[v].op \in {"patch", "block"} => req[v].task \in Tasks
    BY Shapes DEF Holds, Edits, EditShapes
  <2>3. \A t \in Tasks : Exists(t) => Exists(t)' BY DEF Grows
  <2>4. links \subseteq links' BY DEF Grows
  <2>5. req[v].op \in {"patch", "block"} =>
          status'[req[v].task] # None /\ (req[v].bb \in Tasks => status'[req[v].bb] # None)
    BY <2>1, <2>2, <2>3 DEF Edging, Exists
  <2>6. req[v].op = "patch" =>
          /\ req[v].pc \notin {"loaded", "resolved"} => ~(MovesBlocker(req[v]) /\ req[v].bb = req[v].task)
          /\ \A d \in req[v].downs \ req[v].fresh : {d, req[v].task} \in links'
    BY <2>1, <2>4 DEF Edging
  <2>7. req[v].op = "block" => req[v].bb # req[v].task BY <2>1 DEF Edging
  <2>8. QED BY <1>3, <2>5, <2>6, <2>7 DEF Edging, MovesBlocker, Exists
<1>4. QED BY <1>1, <1>2, <1>3

\* A step of one worker that writes no row.
LEMMA EdgingStep ==
  ASSUME TypeOK, EdgeInv, NEW w \in Workers, NEW q, Set(w, q), Edging(q),
         UNCHANGED <<rows, closers>>
  PROVE  EdgeInv'
<1>1. EdgesJoin' BY DEF EdgeInv, EdgesJoin, Exists, rows
<1>2. ASSUME NEW v \in Workers PROVE Edging(req[v])'
  <2>1. req'[v] = IF v = w THEN q ELSE req[v] BY DEF TypeOK, Set
  <2>2. Edging(req'[v]) BY <2>1 DEF EdgeInv
  <2>3. QED BY <2>2 DEF Edging, Exists, MovesBlocker, rows
<1>3. QED BY <1>1, <1>2 DEF EdgeInv

\* The steps of a PATCH or a block between its load and its commit.
LEMMA EdgingGoesOn ==
  ASSUME TypeOK, EdgeInv, NEW w \in Workers,
         \/ LoadPatch(w) \/ ResolveAgent(w) \/ PassGates(w) \/ Hop(w) \/ EndWalk(w)
         \/ Cascade(w) \/ LoadBlock(w)
  PROVE  EdgeInv'
<1> DEFINE p == req[w]
<1>1. UNCHANGED <<rows, closers>>
  BY DEF LoadPatch, ResolveAgent, PassGates, Hop, EndWalk, Cascade, LoadBlock
<1>2. CASE LoadPatch(w)
  <2>1. PICK q, t : /\ Set(w, q) /\ q.op = "patch" /\ q.pc \in {"loaded", "resolved"}
                    /\ q.task = t /\ Exists(t) /\ (q.bb \in Tasks => Exists(q.bb)) /\ q.downs = {}
    BY <1>2 DEF LoadPatch
  <2>2. Edging(q) BY <2>1 DEF Edging
  <2>3. QED BY <1>1, <2>1, <2>2, EdgingStep
<1>3. CASE LoadBlock(w)
  <2>1. PICK q, s, t :
          /\ Set(w, q) /\ q.op = "block" /\ q.task = t /\ q.bb = s
          /\ s # t /\ Exists(s) /\ Exists(t)
    BY <1>3 DEF LoadBlock
  <2>2. Edging(q) BY <2>1 DEF Edging
  <2>3. QED BY <1>1, <2>1, <2>2, EdgingStep
<1>4. CASE ResolveAgent(w)
  <2> DEFINE q == [p EXCEPT !.pc = "resolved", !.seen = Row(p.task)]
  <2>1. p \in EditShapes /\ p.op = "patch" /\ Edging(p)
    BY <1>4, Shapes DEF ResolveAgent, Holds, EdgeInv, Edits
  <2>2. /\ q.op = "patch" /\ q.task = p.task /\ q.bb = p.bb /\ q.old = p.old
        /\ q.downs = p.downs /\ q.fresh = p.fresh /\ q.pc = "resolved"
    BY <2>1 DEF EditShapes
  <2>3. Set(w, q) BY <1>4 DEF ResolveAgent
  <2> HIDE DEF q, p
  <2>4. Edging(q) BY <2>1, <2>2 DEF Edging
  <2>5. QED BY <1>1, <2>3, <2>4, EdgingStep
<1>5. CASE PassGates(w)
  <2> DEFINE walks == MovesBlocker(p) /\ p.bb # None
             q == [p EXCEPT !.pc = IF walks THEN "walking" ELSE "walked",
                            !.cursor = IF walks THEN p.bb ELSE None, !.drops = Reopened(p)]
  <2>1. p \in EditShapes /\ p.op = "patch" /\ Edging(p) /\ GatesOpen(p)
    BY <1>5, Shapes DEF PassGates, Holds, EdgeInv, Edits
  <2>2. /\ q.op = "patch" /\ q.task = p.task /\ q.bb = p.bb /\ q.old = p.old
        /\ q.downs = p.downs /\ q.fresh = p.fresh
    <3> HIDE DEF p, walks
    <3>1. QED BY <2>1 DEF EditShapes
  <2>3. Set(w, q) BY <1>5 DEF PassGates
  <2> HIDE DEF q, p
  <2>4. ~(MovesBlocker(q) /\ q.bb = q.task) BY <2>1, <2>2 DEF GatesOpen, MovesBlocker
  <2>5. Edging(q) BY <2>1, <2>2, <2>4 DEF Edging
  <2>6. QED BY <1>1, <2>3, <2>5, EdgingStep
<1>6. CASE Hop(w) \/ EndWalk(w)
  <2> DEFINE hop == [p EXCEPT !.visited = @ \cup {p.cursor}, !.cursor = blockedBy[p.cursor]]
             end == [p EXCEPT !.pc = "walked"]
  <2>1. p \in EditShapes /\ p.pc = "walking" /\ Edging(p)
    BY <1>6, Shapes DEF Hop, EndWalk, Walking, EdgeInv, Edits
  <2>2. PICK q \in {hop, end} : Set(w, q) BY <1>6 DEF Hop, EndWalk
  <2>3. /\ q.op = p.op /\ q.task = p.task /\ q.bb = p.bb /\ q.old = p.old
        /\ q.downs = p.downs /\ q.fresh = p.fresh
    <3> HIDE DEF p
    <3>1. QED BY <2>1, <2>2 DEF EditShapes
  <2> HIDE DEF hop, end, p
  <2>4. Edging(q) BY <2>1, <2>3 DEF Edging, MovesBlocker
  <2>5. QED BY <1>1, <2>2, <2>4, EdgingStep
<1>7. CASE Cascade(w)
  <2> DEFINE fresh == {d \in Downstream(p.task) : {d, p.task} \notin links}
             q == [p EXCEPT !.pc = "cascaded", !.downs = Downstream(p.task), !.fresh = fresh]
  <2>1. p \in EditShapes /\ p.op = "patch" /\ p.pc = "walked" /\ Edging(p)
    BY <1>7, Shapes DEF Cascade, Holds, EdgeInv, Edits
  <2>2. /\ q.op = "patch" /\ q.task = p.task /\ q.bb = p.bb /\ q.old = p.old
        /\ q.downs = Downstream(p.task) /\ q.fresh = fresh
    <3> HIDE DEF p, fresh
    <3>1. QED BY <2>1 DEF EditShapes
  <2>3. Set(w, q) BY <1>7 DEF Cascade
  <2> HIDE DEF q, p
  <2>4. \A d \in q.downs \ q.fresh : {d, q.task} \in links BY <2>2
  <2>5. Edging(q)
    <3> HIDE DEF fresh
    <3>1. QED BY <2>1, <2>2, <2>4 DEF Edging, MovesBlocker
  <2>6. QED BY <1>1, <2>3, <2>5, EdgingStep
<1>8. QED BY <1>2, <1>3, <1>4, <1>5, <1>6, <1>7

\* A commit draws edges only between tickets that exist and are two.
LEMMA CommitsJoin ==
  ASSUME TypeOK, EdgeInv, Grows, NEW w \in Workers, CommitPatch(w) \/ CommitBlock(w)
  PROVE  EdgesJoin'
<1> DEFINE q == req[w]
<1>1. q \in Edits /\ q \in EditShapes /\ q.task \in Tasks /\ Edging(q)
  BY Shapes DEF CommitPatch, CommitBlock, ReadyToCommit, Edits, EditShapes, EdgeInv
<1>2. ASSUME NEW d \in Tasks, blockedBy'[d] # None
      PROVE  \/ blockedBy'[d] = blockedBy[d]
             \/ d = q.task /\ blockedBy'[d] = q.bb /\ q.bb \in Tasks \ {d} /\ Exists(d) /\ Exists(q.bb)
  <2>1. CASE CommitBlock(w)
    <3>1. blockedBy' = [blockedBy EXCEPT ![q.task] = q.bb] BY <2>1 DEF CommitBlock
    <3>2. q.op = "block" /\ q.bb \in Tasks BY <1>1, <2>1 DEF CommitBlock, Holds, Edits
    <3>3. q.bb # q.task /\ Exists(q.task) /\ Exists(q.bb) BY <1>1, <3>2 DEF Edging
    <3> HIDE DEF q
    <3>4. QED BY <1>1, <3>1, <3>2, <3>3 DEF TypeOK
  <2>2. CASE CommitPatch(w)
    <3>1. blockedBy'[d] = IF d = q.task /\ Final(q).bb # q.seen.bb THEN Final(q).bb
                          ELSE IF d \in q.downs THEN None ELSE blockedBy[d]
      BY <2>2 DEF CommitPatch
    <3>2. q.op = "patch" /\ q.pc \notin {"loaded", "resolved"}
      BY <2>2 DEF CommitPatch, ReadyToCommit, Holds
    <3>3. CASE d = q.task /\ Final(q).bb # q.seen.bb
      <4>1. blockedBy'[d] = Final(q).bb /\ Final(q).bb \in MaybeTask
        BY <1>1, <3>1, <3>3, FinalType
      <4>2. MovesBlocker(q) /\ Final(q).bb = q.bb
        <5> HIDE DEF q
        <5>1. QED BY <1>2, <3>3, <4>1 DEF Final
      <4>3. q.bb \in Tasks \ {d}
        BY <1>1, <1>2, <3>2, <3>3, <4>1, <4>2 DEF Edging, MaybeTask
      <4>4. QED BY <1>1, <3>2, <3>3, <4>1, <4>2, <4>3 DEF Edging
    <3>4. CASE ~(d = q.task /\ Final(q).bb # q.seen.bb)
      <4> HIDE DEF q
      <4>1. QED BY <1>2, <3>1, <3>4
    <3>5. QED BY <3>3, <3>4
  <2>3. QED BY <2>1, <2>2
<1>3. \A t \in Tasks : Exists(t) => Exists(t)' BY DEF Grows
<1>4. ASSUME NEW d \in Tasks, blockedBy'[d] # None
      PROVE  blockedBy'[d] # d /\ Exists(d)' /\ (Exists(blockedBy[d]))'
  <2>1. CASE blockedBy'[d] = blockedBy[d]
    <3>1. blockedBy[d] # d /\ Exists(d) /\ Exists(blockedBy[d]) /\ blockedBy[d] \in Tasks
      BY <1>4, <2>1 DEF EdgeInv, EdgesJoin, TypeOK, MaybeTask
    <3>2. QED BY <1>3, <2>1, <3>1 DEF Exists
  <2>2. CASE d = q.task /\ blockedBy'[d] = q.bb /\ q.bb \in Tasks \ {d} /\ Exists(d) /\ Exists(q.bb)
    <3> HIDE DEF q
    <3>1. QED BY <1>3, <2>2 DEF Exists
  <2>3. QED BY <1>2, <1>4, <2>1, <2>2
<1>5. QED BY <1>4 DEF EdgesJoin

LEMMA EdgeStep ==
  ASSUME TypeOK, EdgeInv, Next, "unrelate" \notin Operations
  PROVE  EdgeInv'
<1>1. Grows BY BoardGrows
<1>2. PICK w \in Workers :
        \/ CommitPatch(w) \/ CommitCreate(w)
        \/ DecideCreate(w) \/ LoadPatch(w) \/ ResolveAgent(w) \/ PassGates(w)
        \/ RefusePatch(w) \/ Hop(w) \/ EndWalk(w) \/ RefuseCycle(w) \/ Cascade(w)
        \/ RollBackPatch(w) \/ LoadBlock(w) \/ CommitBlock(w) \/ AddRelated(w)
        \/ RemoveRelated(w) \/ DecideNote(w) \/ CreateNote(w) \/ SupersedeNote(w)
        \/ RevertSupersede(w) \/ DecideComplete(w) \/ DecideArchive(w)
        \/ CommitProject(w) \/ ReopenProject(w)
  BY DEF Next
<1>3. CASE \/ LoadPatch(w) \/ ResolveAgent(w) \/ PassGates(w) \/ Hop(w) \/ EndWalk(w)
           \/ Cascade(w) \/ LoadBlock(w)
  BY <1>3, EdgingGoesOn
<1>4. CASE CommitPatch(w) \/ CommitBlock(w)
  <2>1. Done(w) BY <1>4 DEF CommitPatch, CommitBlock
  <2>2. QED BY <1>1, <1>4, <2>1, EdgingStays, CommitsJoin DEF EdgeInv
<1>5. CASE \/ CommitCreate(w) \/ RefusePatch(w) \/ RefuseCycle(w) \/ RollBackPatch(w)
           \/ AddRelated(w) \/ RemoveRelated(w) \/ CreateNote(w) \/ SupersedeNote(w)
           \/ RevertSupersede(w) \/ CommitProject(w) \/ ReopenProject(w)
  <2>1. (req' = req \/ Done(w)) /\ blockedBy' = blockedBy
    BY <1>5 DEF CommitCreate, RefusePatch, RefuseCycle, RollBackPatch, AddRelated, RemoveRelated,
      CreateNote, SupersedeNote, RevertSupersede, WriteNote, CommitProject, ReopenProject, rows
  <2>2. \A t \in Tasks : Exists(t) => Exists(t)' BY <1>1 DEF Grows
  <2>3. EdgesJoin'
    <3>1. \A d \in Tasks : blockedBy[d] # None =>
            blockedBy[d] # d /\ Exists(d)' /\ blockedBy[d] \in Tasks /\ Exists(blockedBy[d])
      BY <2>2 DEF EdgeInv, EdgesJoin, TypeOK, MaybeTask
    <3>2. QED BY <2>1, <2>2, <3>1 DEF EdgesJoin, Exists
  <2>4. QED BY <1>1, <2>1, <2>3, EdgingStays DEF EdgeInv
<1>6. CASE DecideCreate(w) \/ DecideNote(w) \/ DecideComplete(w) \/ DecideArchive(w)
  <2>1. PICK q : Set(w, q) /\ q.op \notin {"patch", "block"}
    <3>1. CASE DecideCreate(w) BY <3>1 DEF DecideCreate
    <3>2. CASE DecideNote(w) BY <3>2 DEF DecideNote
    <3>3. CASE DecideComplete(w) BY <3>3 DEF DecideComplete
    <3>4. CASE DecideArchive(w) BY <3>4 DEF DecideArchive
    <3>5. QED BY <1>6, <3>1, <3>2, <3>3, <3>4
  <2>2. Edging(q) BY <2>1 DEF Edging
  <2>3. UNCHANGED <<rows, closers>>
    BY <1>6 DEF DecideCreate, DecideNote, DecideComplete, DecideArchive
  <2>4. QED BY <2>1, <2>2, <2>3, EdgingStep
<1>7. QED BY <1>2, <1>3, <1>4, <1>5, <1>6

\* However many requests overlap, and as long as nobody removes a link: the
\* commit that takes an edge away leaves the pair of tickets linked, in the
\* drawers of both.
THEOREM EdgesBecomeLinks ==
  ASSUME "unrelate" \notin Operations
  PROVE  Spec => EdgesLeaveLinks
<1>1. Init => EdgeInv BY RowsAssumption DEF Init, EdgeInv, EdgesJoin, Edging, Idle
<1>2. TypeOK /\ EdgeInv /\ [Next]_vars => EdgeInv'
  <2>1. ASSUME EdgeInv, UNCHANGED vars PROVE EdgeInv'
    BY <2>1 DEF vars, rows, EdgeInv, EdgesJoin, Edging, Exists, MovesBlocker
  <2>2. QED BY <2>1, EdgeStep
<1>3. ASSUME TypeOK, EdgeInv, Next, NEW w \in Workers, NEW t \in Tasks,
             Holds(w, "patch"), req[w].task = t, req'[w] # req[w],
             NEW d \in Tasks, blockedBy[d] = t, blockedBy'[d] # t
      PROVE  d \in task_relationships(t)'.related /\ t \in task_relationships(d)'.related
  <2> DEFINE q == req[w]
  <2>1. Grows BY <1>3, BoardGrows
  <2>2. CommitPatch(w)
    <3>1. PICK v \in Workers :
            \/ CommitPatch(v) \/ CommitBlock(v) \/ blockedBy' = blockedBy
      BY <1>3 DEF Next, DecideCreate, CommitCreate, LoadPatch, ResolveAgent, PassGates,
        RefusePatch, Hop, EndWalk, RefuseCycle, Cascade, RollBackPatch, LoadBlock, AddRelated,
        RemoveRelated, DecideNote, CreateNote, SupersedeNote, RevertSupersede, WriteNote,
        DecideComplete, DecideArchive, CommitProject, ReopenProject, rows
    <3>2. CommitPatch(v) \/ CommitBlock(v) BY <1>3, <3>1
    <3>3. v = w BY <1>3, <3>2 DEF CommitPatch, CommitBlock, Done, Set, TypeOK
    <3>4. ~CommitBlock(w) BY <1>3 DEF CommitBlock, Holds
    <3>5. QED BY <3>2, <3>3, <3>4
  <2>3. d # t /\ Exists(d) /\ Exists(t) BY <1>3, RowsAssumption DEF EdgeInv, EdgesJoin
  <2>4. Exists(d)' /\ Exists(t)' BY <2>1, <2>3 DEF Grows
  <2>5. d \in q.downs
    <3>1. blockedBy'[d] = IF d = q.task /\ Final(q).bb # q.seen.bb THEN Final(q).bb
                          ELSE IF d \in q.downs THEN None ELSE blockedBy[d]
      BY <2>2 DEF CommitPatch
    <3> HIDE DEF q
    <3>2. QED BY <1>3, <2>3, <3>1 DEF q
  <2>6. {d, t} \in links'
    <3>1. Edging(q) /\ q.op = "patch" BY <1>3 DEF EdgeInv, Holds
    <3>2. links' = links \cup NewLinks(q) BY <2>2 DEF CommitPatch
    <3>3. CASE d \in q.fresh BY <1>3, <3>2, <3>3 DEF NewLinks
    <3>4. CASE d \notin q.fresh BY <1>3, <2>5, <3>1, <3>2, <3>4 DEF Edging
    <3>5. QED BY <3>3, <3>4
  <2>7. /\ {d, t} \in {k \in links' : t \in k} /\ d \in {d, t} \ {t}
        /\ {d, t} \in {k \in links' : d \in k} /\ t \in {d, t} \ {d}
    BY <2>3, <2>6
  <2>8. d \in OtherEnds(t)' /\ t \in OtherEnds(d)'
    <3>1. d \in UNION {l \ {t} : l \in {k \in links' : t \in k}} BY <2>7
    <3>2. t \in UNION {l \ {d} : l \in {k \in links' : d \in k}} BY <2>7
    <3>3. QED BY <3>1, <3>2 DEF OtherEnds
  <2>9. QED BY <2>4, <2>8 DEF task_relationships
<1>4. TypeOK /\ EdgeInv /\ [Next]_vars =>
        [\A w \in Workers, t \in Tasks :
           Holds(w, "patch") /\ req[w].task = t /\ req'[w] # req[w] =>
             \A d \in task_relationships(t).blocks :
               _render_card(d)'.blocked # t =>
                 d \in task_relationships(t)'.related /\ t \in task_relationships(d)'.related]_vars
  BY <1>3 DEF task_relationships, _render_card
<1>5. QED BY <1>1, <1>2, <1>4, TypeCorrect, PTL DEF Spec, EdgesLeaveLinks
=============================================================================
