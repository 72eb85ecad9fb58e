--------------------------- MODULE PlanningProofs ---------------------------
(***************************************************************************)
(* Proofs about Planning, for any number of requests and rows: the types,  *)
(* that an archived project is dated although a commit writes only the     *)
(* columns it changed, that the log repeats the feed although it is        *)
(* written back whole, and the bound on the pins of one user.              *)
(***************************************************************************)
EXTENDS Planning, FiniteSetTheorems, TLAPS

-----------------------------------------------------------------------------
(* The types *)

Job == {Idle} \cup Stamps \cup PinJobs \cup CloseJobs

LEMMA JobOps ==
  /\ Idle.op = "idle"
  /\ \A u \in Stamps : u.op = "stamp" /\ u.project \in Projects /\ u.entry \in Entries
                        /\ u.old \in Row /\ u.new \in Row
  /\ \A u \in PinJobs : u.op \in {"pin", "unpin"} /\ u.user \in Users /\ u.project \in Projects
  /\ \A u \in CloseJobs : u.op = "close" /\ u.milestone \in Milestones
  BY DEF Idle, Stamps, PinJobs, CloseJobs

\* A job is told by its op.
LEMMA JobOfOp ==
  ASSUME NEW u \in Job
  PROVE  /\ u.op = "stamp" => u \in Stamps
         /\ u.op \in {"pin", "unpin"} => u \in PinJobs
         /\ u.op = "close" => u \in CloseJobs
  BY JobOps DEF Job

\* The requests about to append are some of the workers.
LEMMA StampingIsFinite ==
  ASSUME NEW p
  PROVE  IsFiniteSet(Stamping(p)) /\ Cardinality(Stamping(p)) \in Nat
  BY PlanningAssumption, FS_Subset, FS_CardinalityType DEF Stamping

\* The entries that the feed has, or that requests are about to append.
Used == [p \in Projects |-> Len(feed[p]) + Cardinality(Stamping(p))]

LEMMA UsedAt ==
  ASSUME NEW p \in Projects
  PROVE  /\ Used[p] = Len(feed[p]) + Cardinality(Stamping(p))
         /\ Used'[p] = Len(feed'[p]) + Cardinality(Stamping(p)')
  BY DEF Used, Stamping

LEMMA FreshRange ==
  ASSUME feed \in [Projects -> Seq(Entries)], NEW p \in Projects
  PROVE  Used[p] \in Nat /\ Fresh(p) \in Entries /\ Fresh(p) = Used[p] + 1
  BY StampingIsFinite, UsedAt DEF Fresh, Entries

LEMMA AppendRange ==
  ASSUME NEW r \in Row, NEW entry \in Entries
  PROVE  /\ _append_lifecycle(r, entry) \in Row
         /\ _append_lifecycle(r, entry).status = r.status /\ _append_lifecycle(r, entry).at = r.at
<1>1. Append(r.log, entry) \in Seq(Entries)
  BY DEF Row
<1> QED BY <1>1 DEF _append_lifecycle, Row

LEMMA WrittenRange ==
  ASSUME project \in [Projects -> Row], NEW u \in Stamps
  PROVE  Written(u) \in Row
  BY JobOps DEF Written, Row

\* What the lifecycle handlers ask for, and when.
Plans(r, p, entry) ==
  \/ r = project[p]
  \/ project[p].status = "active" /\ r = [project[p] EXCEPT !.status = "completed"]
  \/ r = [project[p] EXCEPT !.status = "archived", !.at = entry]
  \/ project[p].status # "active" /\ r = [project[p] EXCEPT !.status = "active", !.at = 0]

LEMMA PlansRange ==
  ASSUME project \in [Projects -> Row], NEW p \in Projects, NEW entry \in Entries,
         NEW r, Plans(r, p, entry)
  PROVE  r \in Row
<1>0. project[p] \in Row
  OBVIOUS
<1>1. [project[p] EXCEPT !.status = "completed"] \in Row
  BY <1>0 DEF Row
<1>2. [project[p] EXCEPT !.status = "archived", !.at = entry] \in Row
  BY <1>0 DEF Row, Entries
<1>3. [project[p] EXCEPT !.status = "active", !.at = 0] \in Row
  BY <1>0 DEF Row
<1> QED BY <1>0, <1>1, <1>2, <1>3 DEF Plans

LEMMA LifecycleShape ==
  ASSUME Lifecycle
  PROVE  \E w \in Workers, p \in Projects, op \in Endpoints : \E r :
           Plans(r, p, Fresh(p)) /\ Stamp(w, op, p, r)
<1>1. PICK w \in Workers, p \in Projects :
        \/ update_project(w, p)
        \/ reopen_project(w, p)
        \/ \E force \in BOOLEAN : complete_project(w, p, force) \/ archive_project(w, p, force)
  BY DEF Lifecycle
<1>2. CASE update_project(w, p)
  BY <1>2 DEF update_project, Plans, Endpoints
<1>3. CASE reopen_project(w, p)
  <2>1. /\ project[p].status # "active"
        /\ Stamp(w, "reopen", p, [project[p] EXCEPT !.status = "active", !.at = 0])
    BY <1>3 DEF reopen_project
  <2> QED BY <2>1 DEF Plans, Endpoints
<1>4. ASSUME NEW force \in BOOLEAN, complete_project(w, p, force)
      PROVE  \E op \in Endpoints : \E r : Plans(r, p, Fresh(p)) /\ Stamp(w, op, p, r)
  BY <1>4 DEF complete_project, Plans, Endpoints
<1>5. ASSUME NEW force \in BOOLEAN, archive_project(w, p, force)
      PROVE  \E op \in Endpoints : \E r : Plans(r, p, Fresh(p)) /\ Stamp(w, op, p, r)
  BY <1>5 DEF archive_project, Plans, Endpoints
<1> QED BY <1>1, <1>2, <1>3, <1>4, <1>5

\* TypeOK, and that a request closes a milestone that there is.
Typed ==
  /\ TypeOK
  /\ \A w \in Workers : unit[w].op = "close" => milestone[unit[w].milestone] # None

LEMMA TypedInit == Init => Typed
<1> SUFFICES ASSUME Init PROVE Typed
  OBVIOUS
<1>1. project \in [Projects -> Row]
  <2>1. [status |-> "active", at |-> 0, log |-> <<>>] \in Row
    BY DEF Row
  <2> QED BY <2>1 DEF Init
<1>2. feed \in [Projects -> Seq(Entries)] /\ pins \in [Users -> SUBSET Projects] /\ scope \in Scopes
  BY DEF Init
<1>3. /\ milestone \in [Milestones -> {None} \cup MilestoneRow]
      /\ phase \in [Phases -> {None} \cup PhaseRow] /\ task \in [Tasks -> {None} \cup TaskRow]
  BY DEF Init
<1>4. unit \in [Workers -> {Idle} \cup Stamps \cup PinJobs \cup CloseJobs]
      /\ \A w \in Workers : unit[w].op = "idle"
  BY JobOps DEF Init
<1> QED BY <1>1, <1>2, <1>3, <1>4 DEF TypeOK, Typed

\* A step that leaves the milestones alone and plans no closing.
LEMMA ClosingStays ==
  ASSUME Typed, NEW w \in Workers, NEW u \in Job, u.op # "close", Plan(w, u), UNCHANGED milestone
  PROVE  /\ unit' \in [Workers -> Job]
         /\ \A v \in Workers : unit'[v].op = "close" => milestone'[unit'[v].milestone] # None
<1>1. unit \in [Workers -> Job] /\ unit' = [unit EXCEPT ![w] = u]
  BY DEF Typed, TypeOK, Job, Plan
<1> QED BY <1>1 DEF Typed

LEMMA TypedStamp ==
  ASSUME Typed, NEW w \in Workers, NEW p \in Projects, NEW op, NEW r, Plans(r, p, Fresh(p)),
         Stamp(w, op, p, r)
  PROVE  Typed'
<1> DEFINE u == [op |-> "stamp", project |-> p, entry |-> Fresh(p), old |-> project[p],
                 new |-> _append_lifecycle(r, Fresh(p))]
<1>1. project \in [Projects -> Row] /\ Fresh(p) \in Entries /\ r \in Row
  BY FreshRange, PlansRange DEF Typed, TypeOK
<1>2. u \in Stamps
  BY <1>1, AppendRange DEF Stamps
<1>3. Plan(w, u) /\ UNCHANGED <<project, feed, structure, pins, scope>>
  BY DEF Stamp
<1>4. u \in Job /\ u.op # "close"
  BY <1>2, JobOps DEF Job
<1> HIDE DEF u
<1> QED BY <1>3, <1>4, ClosingStays DEF Typed, TypeOK, Job, structure

LEMMA TypedCommitStamp ==
  ASSUME Typed, NEW w \in Workers, CommitStamp(w)
  PROVE  Typed'
<1>1. unit[w] \in Stamps /\ Plan(w, Idle) /\ UNCHANGED <<structure, pins, scope>>
  BY JobOfOp DEF Typed, TypeOK, CommitStamp, Job
<1>2. Idle \in Job /\ Idle.op # "close"
  BY JobOps DEF Job
<1>3. Written(unit[w]) \in Row /\ unit[w].entry \in Entries /\ unit[w].project \in Projects
  BY <1>1, WrittenRange, JobOps DEF Typed, TypeOK
<1>4. project' \in [Projects -> Row]
  BY <1>3 DEF CommitStamp, Typed, TypeOK
<1>5. feed' \in [Projects -> Seq(Entries)]
  <2>1. Append(feed[unit[w].project], unit[w].entry) \in Seq(Entries)
    BY <1>3 DEF Typed, TypeOK
  <2> QED BY <2>1 DEF CommitStamp, Typed, TypeOK
<1> QED BY <1>1, <1>2, <1>4, <1>5, ClosingStays DEF Typed, TypeOK, Job, structure

LEMMA TypedPin ==
  ASSUME Typed, NEW w \in Workers, NEW u \in Users, NEW p \in Projects, NEW pinned \in BOOLEAN,
         pin_project(w, u, p, pinned)
  PROVE  Typed'
<1> DEFINE j == [op |-> IF pinned THEN "pin" ELSE "unpin", user |-> u, project |-> p]
<1>1. j \in PinJobs
  BY DEF PinJobs
<1>2. Plan(w, j) /\ UNCHANGED <<project, feed, structure, pins, scope>>
  BY DEF pin_project
<1>3. j \in Job /\ j.op # "close"
  BY <1>1, JobOps DEF Job
<1> HIDE DEF j
<1> QED BY <1>2, <1>3, ClosingStays DEF Typed, TypeOK, Job, structure

LEMMA TypedCommitPin ==
  ASSUME Typed, NEW w \in Workers, CommitPin(w)
  PROVE  Typed'
<1>1. unit[w] \in PinJobs /\ Plan(w, Idle) /\ UNCHANGED <<project, feed, structure, scope>>
  BY JobOfOp DEF Typed, TypeOK, CommitPin, Job
<1>2. Idle \in Job /\ Idle.op # "close"
  BY JobOps DEF Job
<1>3. pins' \in [Users -> SUBSET Projects]
  BY <1>1, JobOps DEF CommitPin, Typed, TypeOK
<1> QED BY <1>1, <1>2, <1>3, ClosingStays DEF Typed, TypeOK, Job, structure

\* A milestone's new status leaves a row.
LEMMA MilestoneMoves ==
  ASSUME milestone \in [Milestones -> {None} \cup MilestoneRow], NEW m \in Milestones,
         milestone[m] # None, NEW s \in {"active", "done"},
         milestone' = [milestone EXCEPT ![m].status = s]
  PROVE  /\ milestone' \in [Milestones -> {None} \cup MilestoneRow]
         /\ \A k \in Milestones : milestone[k] # None => milestone'[k] # None
<1> DEFINE row == [milestone[m] EXCEPT !.status = s]
<1>1. row \in MilestoneRow
  BY DEF MilestoneRow
<1>2. milestone' = [milestone EXCEPT ![m] = row]
  BY Zenon
<1> HIDE DEF row
<1> QED BY <1>1, <1>2, NoneAssumption

LEMMA TypedCommitClose ==
  ASSUME Typed, NEW w \in Workers, CommitClose(w)
  PROVE  Typed'
<1>1. unit[w] \in CloseJobs /\ Plan(w, Idle) /\ UNCHANGED <<project, feed, phase, task, pins, scope>>
  BY JobOfOp DEF Typed, TypeOK, CommitClose, Job
<1>2. unit \in [Workers -> Job] /\ unit' = [unit EXCEPT ![w] = Idle] /\ Idle \in Job /\ Idle.op # "close"
  BY <1>1, JobOps DEF Job, Typed, TypeOK, Plan
<1>3. unit[w].milestone \in Milestones /\ milestone[unit[w].milestone] # None
  BY <1>1, JobOps DEF Typed
<1>4. /\ milestone' \in [Milestones -> {None} \cup MilestoneRow]
      /\ \A k \in Milestones : milestone[k] # None => milestone'[k] # None
  BY <1>3, MilestoneMoves DEF CommitClose, Typed, TypeOK
<1>5. ASSUME NEW v \in Workers, unit'[v].op = "close"
      PROVE  milestone'[unit'[v].milestone] # None
  <2>1. unit'[v] = unit[v] /\ unit[v] \in CloseJobs
    BY <1>2, <1>5, JobOfOp
  <2> QED BY <1>4, <1>5, <2>1, JobOps DEF Typed
<1> QED BY <1>1, <1>2, <1>4, <1>5 DEF Typed, TypeOK, Job

LEMMA TypedStructure ==
  ASSUME Typed, Structure
  PROVE  Typed'
<1>0. /\ milestone \in [Milestones -> {None} \cup MilestoneRow]
      /\ phase \in [Phases -> {None} \cup PhaseRow] /\ task \in [Tasks -> {None} \cup TaskRow]
      /\ unit \in [Workers -> Job]
      /\ \A v \in Workers : unit[v].op = "close" =>
           unit[v].milestone \in Milestones /\ milestone[unit[v].milestone] # None
  <2>1. unit \in [Workers -> Job]
    BY DEF Typed, TypeOK, Job
  <2>2. \A v \in Workers : unit[v].op = "close" => unit[v].milestone \in Milestones
    BY <2>1, JobOfOp, JobOps
  <2> QED BY <2>1, <2>2 DEF Typed, TypeOK
<1>1. ASSUME NEW m \in Milestones, NEW p \in Projects, NEW s \in {"active", "done"},
             create_milestone(m, p, s)
      PROVE  Typed'
  <2>1. [project |-> p, status |-> s] \in MilestoneRow
    BY DEF MilestoneRow
  <2> QED BY <1>0, <1>1, <2>1, NoneAssumption DEF create_milestone, Typed, TypeOK
<1>2. ASSUME NEW f \in Phases, NEW p \in Projects, NEW m \in Milestones \cup {None},
             create_phase(f, p, m)
      PROVE  Typed'
  <2>1. [project |-> p, milestone |-> m] \in PhaseRow
    BY DEF PhaseRow
  <2> QED BY <1>2, <2>1 DEF create_phase, Typed, TypeOK
<1>3. ASSUME NEW f \in Phases, NEW m \in Milestones \cup {None}, update_phase(f, m)
      PROVE  Typed'
  <2> DEFINE row == [phase[f] EXCEPT !.milestone = m]
  <2>1. row \in PhaseRow
    BY <1>0, <1>3 DEF PhaseRow, update_phase
  <2>2. phase' = [phase EXCEPT ![f] = row]
    BY <1>3, Zenon DEF update_phase
  <2> HIDE DEF row
  <2> QED BY <1>3, <2>1, <2>2 DEF update_phase, Typed, TypeOK
<1>4. ASSUME NEW t \in Tasks, NEW p \in Projects, NEW f \in Phases \cup {None},
             NEW k \in {"work", "phase"}, create_task(t, p, f, k)
      PROVE  Typed'
  <2>1. [project |-> p, phase |-> f, open |-> TRUE, kind |-> k] \in TaskRow
    BY DEF TaskRow
  <2> QED BY <1>4, <2>1 DEF create_task, Typed, TypeOK
<1>5. ASSUME NEW t \in Tasks, NEW f \in Phases \cup {None}, NEW open \in BOOLEAN,
             patch_task(t, f, open)
      PROVE  Typed'
  <2> DEFINE row == [task[t] EXCEPT !.phase = f, !.open = open]
  <2>1. row \in TaskRow
    BY <1>0, <1>5 DEF TaskRow, patch_task
  <2>2. task' = [task EXCEPT ![t] = row]
    BY <1>5, Zenon DEF patch_task
  <2> HIDE DEF row
  <2> QED BY <1>5, <2>1, <2>2 DEF patch_task, Typed, TypeOK
<1>6. ASSUME NEW w \in Workers, NEW m \in Milestones, close_milestone(w, m)
      PROVE  Typed'
  <2> DEFINE u == [op |-> "close", milestone |-> m]
  <2>1. u \in CloseJobs /\ u \in Job /\ u.milestone = m
    BY DEF CloseJobs, Job
  <2>2. /\ unit' = [unit EXCEPT ![w] = u] /\ milestone[m] # None
        /\ UNCHANGED <<project, feed, structure, pins, scope>>
    BY <1>6 DEF close_milestone, Plan
  <2> HIDE DEF u
  <2> QED BY <1>0, <2>1, <2>2 DEF Typed, TypeOK, Job, structure
<1>7. ASSUME NEW m \in Milestones, reopen_milestone(m)
      PROVE  Typed'
  <2>1. /\ milestone' \in [Milestones -> {None} \cup MilestoneRow]
        /\ \A k \in Milestones : milestone[k] # None => milestone'[k] # None
    BY <1>0, <1>7, MilestoneMoves DEF reopen_milestone
  <2> QED BY <1>0, <1>7, <2>1 DEF reopen_milestone, Typed, TypeOK
<1> QED BY <1>1, <1>2, <1>3, <1>4, <1>5, <1>6, <1>7 DEF Structure

LEMMA TypedStep == Typed /\ [Next]_vars => Typed'
<1> SUFFICES ASSUME Typed, [Next]_vars PROVE Typed'
  OBVIOUS
<1>1. CASE Lifecycle
  BY <1>1, LifecycleShape, TypedStamp
<1>2. CASE Structure
  BY <1>2, TypedStructure
<1>3. ASSUME NEW w \in Workers, NEW u \in Users, NEW p \in Projects, NEW pinned \in BOOLEAN,
             pin_project(w, u, p, pinned)
      PROVE  Typed'
  BY <1>3, TypedPin
<1>4. ASSUME NEW w \in Workers, CommitStamp(w) \/ CommitClose(w) \/ CommitPin(w) PROVE Typed'
  BY <1>4, TypedCommitStamp, TypedCommitClose, TypedCommitPin
<1>5. CASE UNCHANGED vars
  BY <1>5 DEF vars, structure, Typed, TypeOK
<1> QED BY <1>1, <1>2, <1>3, <1>4, <1>5 DEF Next

\* The rows and the requests are well formed, whatever overlaps.
THEOREM TypeCorrect == Spec => []TypeOK
<1>1. Typed => TypeOK
  BY DEF Typed
<1> QED BY <1>1, TypedInit, TypedStep, PTL DEF Spec

-----------------------------------------------------------------------------
(* The date of an archived project *)

\* What a request is about to write: the date is cleared with an opening, and a
\* new one comes with an archiving.
StampIsDated(u) ==
  /\ u.new.at = 0 /\ u.new.at # u.old.at => u.new.status = "active" /\ u.old.status # "active"
  /\ u.new.status = "archived" /\ u.old.status # "archived" => u.new.at # u.old.at /\ u.new.at # 0

Dated ==
  /\ ArchivedIsDated
  /\ \A w \in Workers : unit[w].op = "stamp" => StampIsDated(unit[w])
  /\ \A p \in Projects : project[p].at <= Used[p]
  /\ \A w \in Workers, p \in Projects :
       unit[w].op = "stamp" /\ unit[w].project = p => unit[w].new.at <= Used[p]

LEMMA DatedInit == Init => Dated
<1> SUFFICES ASSUME Init PROVE Dated
  OBVIOUS
<1>1. \A w \in Workers : unit[w].op # "stamp"
  BY JobOps DEF Init
<1>2. \A p \in Projects : project[p].at = 0 /\ project[p].status = "active"
  BY DEF Init
<1>3. ASSUME NEW p \in Projects PROVE Used[p] \in Nat
  <2>1. Len(feed[p]) \in Nat
    BY DEF Init
  <2> QED BY <2>1, StampingIsFinite, UsedAt
<1> QED BY <1>1, <1>2, <1>3 DEF Dated, ArchivedIsDated

\* A request that starts to stamp uses one entry more of its project.
LEMMA UsedStamp ==
  ASSUME Typed, NEW w \in Workers, NEW p \in Projects, NEW op, NEW r, Plans(r, p, Fresh(p)),
         Stamp(w, op, p, r), NEW q \in Projects
  PROVE  /\ Used[q] \in Nat /\ Used'[q] \in Nat
         /\ Used'[q] = IF q = p THEN Used[q] + 1 ELSE Used[q]
<1>1. /\ feed' = feed /\ unit[w].op # "stamp"
      /\ unit' = [unit EXCEPT ![w] = unit'[w]]
      /\ unit'[w].op = "stamp" /\ unit'[w].project = p
  BY JobOps DEF Typed, TypeOK, Stamp, Free, Plan
<1>2. Stamping(q)' = IF q = p THEN Stamping(q) \cup {w} ELSE Stamping(q)
  BY <1>1 DEF Typed, TypeOK, Stamping
<1>3. w \notin Stamping(q)
  BY <1>1 DEF Stamping
<1>4. Cardinality(Stamping(q)') = IF q = p THEN Cardinality(Stamping(q)) + 1 ELSE Cardinality(Stamping(q))
  BY <1>2, <1>3, StampingIsFinite, FS_AddElement
<1>5. Len(feed[q]) \in Nat
  BY DEF Typed, TypeOK
<1> QED BY <1>1, <1>4, <1>5, StampingIsFinite, UsedAt

\* The commit of it leaves the number as it is.
LEMMA UsedCommitStamp ==
  ASSUME Typed, NEW w \in Workers, CommitStamp(w), NEW q \in Projects
  PROVE  Used[q] \in Nat /\ Used'[q] = Used[q]
<1> DEFINE p == unit[w].project
<1>1. /\ unit[w] \in Stamps /\ unit[w].op = "stamp" /\ p \in Projects /\ unit[w].entry \in Entries
      /\ feed' = [feed EXCEPT ![p] = Append(feed[p], unit[w].entry)]
      /\ unit' = [unit EXCEPT ![w] = Idle]
  BY JobOfOp, JobOps DEF Typed, TypeOK, CommitStamp, Plan, Job
<1>2. Stamping(q)' = IF q = p THEN Stamping(q) \ {w} ELSE Stamping(q)
  BY <1>1, JobOps DEF Typed, TypeOK, Stamping
<1>3. q = p => w \in Stamping(q)
  BY <1>1 DEF Stamping
<1>4. Cardinality(Stamping(q)') = IF q = p THEN Cardinality(Stamping(q)) - 1 ELSE Cardinality(Stamping(q))
  BY <1>2, <1>3, StampingIsFinite, FS_RemoveElement
<1>5. /\ feed[q] \in Seq(Entries) /\ feed'[q] = IF q = p THEN Append(feed[q], unit[w].entry) ELSE feed[q]
  BY <1>1 DEF Typed, TypeOK
<1>6. Len(feed[q]) \in Nat /\ Len(Append(feed[q], unit[w].entry)) = Len(feed[q]) + 1
  <2> DEFINE s == feed[q]
             e == unit[w].entry
  <2>1. s \in Seq(Entries) /\ e \in Entries
    BY <1>1, <1>5
  <2> HIDE DEF s, e
  <2>2. Len(s) \in Nat /\ Len(Append(s, e)) = Len(s) + 1
    BY <2>1
  <2> QED BY <2>2 DEF s, e
<1>7. Used'[q] = Len(feed'[q]) + Cardinality(Stamping(q)')
  BY UsedAt
<1>8. Used[q] = Len(feed[q]) + Cardinality(Stamping(q)) /\ Cardinality(Stamping(q)) \in Nat
  BY StampingIsFinite, UsedAt
<1>9. Len(feed'[q]) = IF q = p THEN Len(feed[q]) + 1 ELSE Len(feed[q])
  BY <1>5, <1>6
<1> QED BY <1>4, <1>6, <1>7, <1>8, <1>9

\* The others change no project and stamp nothing.
LEMMA DatedStays ==
  ASSUME Typed, Dated, NEW w \in Workers, unit[w].op # "stamp", NEW u \in Job, u.op # "stamp",
         unit' = [unit EXCEPT ![w] = u], UNCHANGED <<project, feed>>
  PROVE  Dated'
<1>1. ASSUME NEW p PROVE Stamping(p)' = Stamping(p)
  BY DEF Typed, TypeOK, Stamping
<1>2. \A p \in Projects : Used'[p] = Used[p]
  <2> SUFFICES ASSUME NEW p \in Projects PROVE Used'[p] = Used[p]
    OBVIOUS
  <2> QED BY <1>1, UsedAt
<1>3. ASSUME NEW v \in Workers, unit'[v].op = "stamp" PROVE unit'[v] = unit[v]
  BY <1>3 DEF Typed, TypeOK
<1>4. \A v \in Workers : unit'[v].op = "stamp" => StampIsDated(unit'[v])
  BY <1>3 DEF Dated
<1> QED BY <1>2, <1>3, <1>4 DEF Dated, ArchivedIsDated, StampIsDated

LEMMA DatedStamp ==
  ASSUME Typed, Dated, NEW w \in Workers, NEW p \in Projects, NEW op, NEW r, Plans(r, p, Fresh(p)),
         Stamp(w, op, p, r)
  PROVE  Dated'
<1> DEFINE new == _append_lifecycle(r, Fresh(p))
           u == [op |-> "stamp", project |-> p, entry |-> Fresh(p), old |-> project[p], new |-> new]
<1>1. /\ project[p] \in Row /\ Fresh(p) \in Entries /\ r \in Row
      /\ Used[p] \in Nat /\ Fresh(p) = Used[p] + 1
  BY FreshRange, PlansRange DEF Typed, TypeOK
<1>2. new.status = r.status /\ new.at = r.at /\ r.at \in Nat
  BY <1>1, AppendRange DEF Row
<1>3. /\ unit' = [unit EXCEPT ![w] = u] /\ UNCHANGED <<project, feed>>
      /\ unit \in [Workers -> Job] /\ project \in [Projects -> Row]
  BY DEF Stamp, Plan, Typed, TypeOK, Job
<1>4. ASSUME NEW q \in Projects
      PROVE  Used[q] \in Nat /\ Used'[q] \in Nat /\ Used[q] <= Used'[q]
  <2>1. /\ Used[q] \in Nat /\ Used'[q] \in Nat
        /\ Used'[q] = IF q = p THEN Used[q] + 1 ELSE Used[q]
    BY UsedStamp
  <2> QED BY <2>1
<1>5. project[p].at <= Used[p] /\ project[p].at \in Nat
  BY <1>1 DEF Dated, Row
<1>6. Fresh(p) # project[p].at /\ Fresh(p) # 0
  BY <1>1, <1>5
<1>7. r.at \in {project[p].at, 0, Fresh(p)}
  BY <1>1 DEF Plans, Row
<1>8. r.at <= Used'[p]
  <2>1. Used[p] \in Nat /\ Used'[p] = Used[p] + 1
    BY UsedStamp
  <2> QED BY <1>1, <1>5, <1>7, <2>1
<1>9. StampIsDated(u)
  <2>1. r.at = 0 /\ r.at # project[p].at => r.status = "active" /\ project[p].status # "active"
    BY <1>1, <1>6 DEF Plans, Row
  <2>2. r.status = "archived" /\ project[p].status # "archived" => r.at # project[p].at /\ r.at # 0
    BY <1>1, <1>6 DEF Plans, Row
  <2>3. u.new = new /\ u.old = project[p]
    OBVIOUS
  <2> HIDE DEF u, new
  <2> QED BY <1>2, <2>1, <2>2, <2>3 DEF StampIsDated
<1>10. u.project = p /\ u.new.at = r.at
  BY <1>2
<1> HIDE DEF u, new
<1>11. \A v \in Workers : unit'[v] = u \/ unit'[v] = unit[v]
  BY <1>3
<1>12. \A v \in Workers : unit'[v].op = "stamp" => StampIsDated(unit'[v])
  BY <1>9, <1>11 DEF Dated
<1>13. ASSUME NEW v \in Workers, NEW q \in Projects, unit'[v].op = "stamp", unit'[v].project = q
       PROVE  unit'[v].new.at <= Used'[q]
  <2>1. CASE unit'[v] = u
    BY <1>8, <1>10, <1>13, <2>1
  <2>2. CASE unit'[v] = unit[v]
    <3>1. unit[v].new.at <= Used[q] /\ unit[v].new.at \in Nat
      BY <1>3, <1>13, <2>2, JobOfOp, JobOps DEF Dated, Row
    <3>2. Used[q] \in Nat /\ Used'[q] \in Nat /\ Used[q] <= Used'[q]
      BY <1>4
    <3> QED BY <2>2, <3>1, <3>2
  <2> QED BY <1>11, <2>1, <2>2
<1>14. ASSUME NEW q \in Projects PROVE project'[q].at <= Used'[q]
  <2>1. project'[q].at <= Used[q] /\ project'[q].at \in Nat
    BY <1>3 DEF Dated, Row
  <2>2. Used[q] \in Nat /\ Used'[q] \in Nat /\ Used[q] <= Used'[q]
    BY <1>4
  <2> QED BY <1>3, <2>1, <2>2
<1>15. ArchivedIsDated'
  BY <1>3 DEF Dated, ArchivedIsDated
<1> QED BY <1>12, <1>13, <1>14, <1>15 DEF Dated, StampIsDated

LEMMA DatedCommitStamp ==
  ASSUME Typed, Dated, NEW w \in Workers, CommitStamp(w)
  PROVE  Dated'
<1> DEFINE u == unit[w]
           row == Written(u)
<1>1. /\ u \in Stamps /\ u.op = "stamp" /\ u.project \in Projects
      /\ unit' = [unit EXCEPT ![w] = Idle] /\ project' = [project EXCEPT ![u.project] = row]
      /\ unit \in [Workers -> Job] /\ project \in [Projects -> Row]
  BY JobOfOp, JobOps DEF Typed, TypeOK, CommitStamp, Plan, Job
<1>2. \A q \in Projects : Used[q] \in Nat /\ Used'[q] = Used[q]
  BY UsedCommitStamp
<1>3. StampIsDated(u) /\ u.new.at <= Used[u.project]
  BY <1>1 DEF Dated
<1>4. /\ row.status = IF u.new.status # u.old.status THEN u.new.status ELSE project[u.project].status
      /\ row.at = IF u.new.at # u.old.at THEN u.new.at ELSE project[u.project].at
  BY DEF Written
<1> HIDE DEF row
<1>5. row.at <= Used[u.project]
  BY <1>1, <1>3, <1>4 DEF Dated
<1>6. row.status = "archived" => row.at # 0
  BY <1>1, <1>3, <1>4 DEF Dated, ArchivedIsDated, StampIsDated
<1>7. \A q \in Projects : project'[q] = IF q = u.project THEN row ELSE project[q]
  BY <1>1
<1>8. ArchivedIsDated'
  BY <1>6, <1>7 DEF Dated, ArchivedIsDated
<1>9. \A q \in Projects : project'[q].at <= Used'[q]
  BY <1>2, <1>5, <1>7 DEF Dated
<1>10. \A v \in Workers : unit'[v].op = "stamp" => unit'[v] = unit[v]
  BY <1>1, JobOps
<1>11. \A v \in Workers : unit'[v].op = "stamp" => StampIsDated(unit'[v])
  BY <1>10 DEF Dated
<1> QED BY <1>2, <1>8, <1>9, <1>10, <1>11 DEF Dated, StampIsDated

LEMMA DatedStep == Typed /\ Dated /\ [Next]_vars => Dated'
<1> SUFFICES ASSUME Typed, Dated, [Next]_vars PROVE Dated'
  OBVIOUS
<1>1. Idle \in Job /\ Idle.op # "stamp"
  BY JobOps DEF Job
<1>2. CASE Lifecycle
  BY <1>2, LifecycleShape, DatedStamp
<1>3. ASSUME UNCHANGED <<project, feed, unit>> PROVE Dated'
  <2>1. Used' = Used
    BY <1>3 DEF Used, Stamping
  <2> QED BY <1>3, <2>1 DEF Dated, ArchivedIsDated, StampIsDated
<1>4. CASE Structure
  <2>1. ASSUME NEW w \in Workers, NEW m \in Milestones, close_milestone(w, m) PROVE Dated'
    <3> DEFINE u == [op |-> "close", milestone |-> m]
    <3>1. /\ u \in CloseJobs /\ unit[w].op # "stamp" /\ unit' = [unit EXCEPT ![w] = u]
          /\ UNCHANGED <<project, feed>>
      BY <1>1, <2>1 DEF close_milestone, Free, Plan, CloseJobs
    <3>2. u \in Job /\ u.op # "stamp"
      BY <3>1, JobOps DEF Job
    <3> HIDE DEF u
    <3> QED BY <3>1, <3>2, DatedStays
  <2>2. CASE UNCHANGED <<project, feed, unit>>
    BY <1>3, <2>2
  <2> QED BY <1>4, <2>1, <2>2 DEF Structure, create_milestone, create_phase, update_phase,
                                  create_task, patch_task, reopen_milestone
<1>5. ASSUME NEW w \in Workers, NEW v \in Users, NEW p \in Projects, NEW pinned \in BOOLEAN,
             pin_project(w, v, p, pinned)
      PROVE  Dated'
  <2> DEFINE u == [op |-> IF pinned THEN "pin" ELSE "unpin", user |-> v, project |-> p]
  <2>1. /\ u \in PinJobs /\ unit[w].op # "stamp" /\ unit' = [unit EXCEPT ![w] = u]
        /\ UNCHANGED <<project, feed>>
    BY <1>1, <1>5 DEF pin_project, Free, Plan, PinJobs
  <2>2. u \in Job /\ u.op # "stamp"
    BY <2>1, JobOps DEF Job
  <2> HIDE DEF u
  <2> QED BY <2>1, <2>2, DatedStays
<1>6. ASSUME NEW w \in Workers, CommitStamp(w) PROVE Dated'
  BY <1>6, DatedCommitStamp
<1>7. ASSUME NEW w \in Workers, CommitClose(w) \/ CommitPin(w) PROVE Dated'
  <2>1. unit[w].op # "stamp" /\ unit' = [unit EXCEPT ![w] = Idle] /\ UNCHANGED <<project, feed>>
    BY <1>7 DEF CommitClose, CommitPin, Plan, structure
  <2> QED BY <1>1, <2>1, DatedStays
<1>8. CASE UNCHANGED vars
  BY <1>3, <1>8 DEF vars
<1> QED BY <1>2, <1>4, <1>5, <1>6, <1>7, <1>8 DEF Next

\* An archived project has the date of its archiving, although a commit writes
\* only the columns that the request changed and others commit in between.
THEOREM ArchiveHasDate == Spec => []ArchivedIsDated
<1>1. Init => Typed /\ Dated
  BY TypedInit, DatedInit
<1>2. Typed /\ Dated /\ [Next]_vars => (Typed /\ Dated)'
  BY TypedStep, DatedStep
<1>3. Dated => ArchivedIsDated
  BY DEF Dated
<1> QED BY <1>1, <1>2, <1>3, PTL DEF Spec

-----------------------------------------------------------------------------
(* The log and the feed *)

\* The entries are told apart: those of the feed, and those that requests are about
\* to append, are below the next number and no two of one project are the same.
Numbered ==
  /\ \A p \in Projects : IsInjective(feed[p])
  /\ \A p \in Projects : \A i \in DOMAIN feed[p] : feed[p][i] <= Used[p]
  /\ \A w \in Workers : unit[w].op = "stamp" =>
       /\ unit[w].entry <= Used[unit[w].project]
       /\ \A i \in DOMAIN feed[unit[w].project] : feed[unit[w].project][i] # unit[w].entry
  /\ \A v, w \in Workers :
       /\ v # w /\ unit[v].op = "stamp" /\ unit[w].op = "stamp"
       /\ unit[v].project = unit[w].project
       => unit[v].entry # unit[w].entry

\* The log that a request is about to write is one that the feed had, and its entry.
Continues(u, events) ==
  \E log \in Seq(Entries) : u.new.log = Append(log, u.entry) /\ Repeats(log, events)

Repeating ==
  /\ \A p \in Projects :
       /\ Repeats(project[p].log, feed[p])
       /\ feed[p] # <<>> => project[p].log # <<>> /\ Last(project[p].log) = Last(feed[p])
  /\ \A w \in Workers : unit[w].op = "stamp" => Continues(unit[w], feed[unit[w].project])

LEMMA AppendFacts ==
  ASSUME NEW s \in Seq(Entries), NEW e \in Entries
  PROVE  /\ Append(s, e) \in Seq(Entries) /\ Len(s) \in Nat
         /\ DOMAIN s = 1..Len(s) /\ DOMAIN Append(s, e) = 1..(Len(s) + 1)
         /\ \A i \in DOMAIN s : Append(s, e)[i] = s[i]
         /\ Append(s, e)[Len(s) + 1] = e /\ Last(Append(s, e)) = e /\ Append(s, e) # <<>>
<1>1. /\ Append(s, e) \in Seq(Entries) /\ Len(s) \in Nat /\ Len(Append(s, e)) = Len(s) + 1
      /\ DOMAIN s = 1..Len(s) /\ DOMAIN Append(s, e) = 1..(Len(s) + 1)
      /\ \A i \in DOMAIN s : Append(s, e)[i] = s[i]
      /\ Append(s, e)[Len(s) + 1] = e
  OBVIOUS
<1> QED BY <1>1 DEF Last

\* The empty log repeats any events.
LEMMA RepeatsNothing ==
  ASSUME NEW events \in Seq(Entries)
  PROVE  Repeats(<<>>, events)
<1>1. [i \in DOMAIN <<>> |-> 1] \in [DOMAIN <<>> -> DOMAIN events] /\ DOMAIN <<>> = {}
  OBVIOUS
<1> QED BY <1>1 DEF Repeats

\* What repeats the events still does when there is one more.
LEMMA RepeatsMore ==
  ASSUME NEW log \in Seq(Entries), NEW events \in Seq(Entries), NEW e \in Entries,
         Repeats(log, events)
  PROVE  Repeats(log, Append(events, e))
<1>1. PICK at \in [DOMAIN log -> DOMAIN events] :
        /\ \A i \in DOMAIN log : log[i] = events[at[i]]
        /\ \A i, j \in DOMAIN log : i < j => at[i] < at[j]
  BY DEF Repeats
<1>2. DOMAIN events \subseteq DOMAIN Append(events, e)
  BY AppendFacts
<1>3. at \in [DOMAIN log -> DOMAIN Append(events, e)]
  BY <1>2
<1>4. \A i \in DOMAIN log : log[i] = Append(events, e)[at[i]]
  BY <1>1, AppendFacts
<1> QED BY <1>1, <1>3, <1>4 DEF Repeats

\* And when both have the new one at the end.
LEMMA RepeatsBoth ==
  ASSUME NEW log \in Seq(Entries), NEW events \in Seq(Entries), NEW e \in Entries,
         Repeats(log, events)
  PROVE  Repeats(Append(log, e), Append(events, e))
<1>1. PICK at \in [DOMAIN log -> DOMAIN events] :
        /\ \A i \in DOMAIN log : log[i] = events[at[i]]
        /\ \A i, j \in DOMAIN log : i < j => at[i] < at[j]
  BY DEF Repeats
<1>2. /\ Len(log) \in Nat /\ DOMAIN log = 1..Len(log) /\ DOMAIN Append(log, e) = 1..(Len(log) + 1)
      /\ \A i \in DOMAIN log : Append(log, e)[i] = log[i]
      /\ Append(log, e)[Len(log) + 1] = e
  BY AppendFacts
<1>3. /\ Len(events) \in Nat /\ DOMAIN events = 1..Len(events)
      /\ DOMAIN Append(events, e) = 1..(Len(events) + 1)
      /\ \A i \in DOMAIN events : Append(events, e)[i] = events[i]
      /\ Append(events, e)[Len(events) + 1] = e
  BY AppendFacts
<1> DEFINE L == Append(log, e)
           E == Append(events, e)
           to == [i \in DOMAIN L |-> IF i = Len(log) + 1 THEN Len(events) + 1 ELSE at[i]]
<1> HIDE DEF L, E
<1>4. to \in [DOMAIN L -> DOMAIN E]
  BY <1>2, <1>3 DEF L, E
<1>5. \A i \in DOMAIN L : L[i] = E[to[i]]
  <2> SUFFICES ASSUME NEW i \in DOMAIN L PROVE L[i] = E[to[i]]
    OBVIOUS
  <2>1. CASE i = Len(log) + 1
    BY <1>2, <1>3, <2>1 DEF L, E
  <2>2. CASE i # Len(log) + 1
    <3>1. i \in DOMAIN log /\ to[i] = at[i] /\ at[i] \in DOMAIN events
      BY <1>2, <2>2 DEF L
    <3>2. L[i] = log[i] /\ E[at[i]] = events[at[i]]
      BY <1>2, <1>3, <3>1 DEF L, E
    <3> QED BY <1>1, <3>1, <3>2
  <2> QED BY <2>1, <2>2
<1>6. \A i, j \in DOMAIN L : i < j => to[i] < to[j]
  <2> SUFFICES ASSUME NEW i \in DOMAIN L, NEW j \in DOMAIN L, i < j PROVE to[i] < to[j]
    OBVIOUS
  <2>1. i \in DOMAIN log /\ to[i] = at[i] /\ at[i] \in 1..Len(events)
    BY <1>2, <1>3 DEF L
  <2>2. CASE j = Len(log) + 1
    BY <1>3, <2>1, <2>2
  <2>3. CASE j # Len(log) + 1
    <3>1. j \in DOMAIN log /\ to[j] = at[j]
      BY <1>2, <2>3 DEF L
    <3> QED BY <1>1, <2>1, <3>1
  <2> QED BY <2>2, <2>3
<1> HIDE DEF to
<1>7. Repeats(L, E)
  BY <1>4, <1>5, <1>6 DEF Repeats
<1> QED BY <1>7 DEF L, E

LEMMA RepeatingInit == Init => Numbered /\ Repeating
<1> SUFFICES ASSUME Init PROVE Numbered /\ Repeating
  OBVIOUS
<1>1. \A w \in Workers : unit[w].op # "stamp"
  BY JobOps DEF Init
<1>2. \A p \in Projects : project[p].log = <<>> /\ feed[p] = <<>>
  BY DEF Init
<1>3. Repeats(<<>>, <<>>) /\ DOMAIN <<>> = {}
  <2>1. <<>> \in Seq(Entries) /\ DOMAIN <<>> = {}
    OBVIOUS
  <2> QED BY <2>1, RepeatsNothing
<1> QED BY <1>1, <1>2, <1>3 DEF Numbered, Repeating, IsInjective

\* The others change no project and stamp nothing.
LEMMA RepeatingStays ==
  ASSUME Typed, Numbered, Repeating, NEW w \in Workers, unit[w].op # "stamp", NEW u \in Job,
         u.op # "stamp", unit' = [unit EXCEPT ![w] = u], UNCHANGED <<project, feed>>
  PROVE  Numbered' /\ Repeating'
<1>1. ASSUME NEW p PROVE Stamping(p)' = Stamping(p)
  BY DEF Typed, TypeOK, Stamping
<1>2. \A p \in Projects : Used'[p] = Used[p]
  <2> SUFFICES ASSUME NEW p \in Projects PROVE Used'[p] = Used[p]
    OBVIOUS
  <2> QED BY <1>1, UsedAt
<1>3. \A v \in Workers : unit'[v].op = "stamp" =>
        unit'[v] = unit[v] /\ unit[v].project \in Projects
  <2> SUFFICES ASSUME NEW v \in Workers, unit'[v].op = "stamp"
               PROVE  unit'[v] = unit[v] /\ unit[v].project \in Projects
    OBVIOUS
  <2>1. unit'[v] = unit[v] /\ unit[v] \in Job
    BY DEF Typed, TypeOK, Job
  <2> QED BY <2>1, JobOfOp, JobOps
<1>4. Numbered'
  BY <1>2, <1>3 DEF Numbered
<1>5. Repeating'
  BY <1>3 DEF Repeating
<1> QED BY <1>4, <1>5

LEMMA RepeatingStamp ==
  ASSUME Typed, Numbered, Repeating, NEW w \in Workers, NEW p \in Projects, NEW op, NEW r,
         Plans(r, p, Fresh(p)), Stamp(w, op, p, r)
  PROVE  Numbered' /\ Repeating'
<1> DEFINE new == _append_lifecycle(r, Fresh(p))
           u == [op |-> "stamp", project |-> p, entry |-> Fresh(p), old |-> project[p], new |-> new]
<1>1. /\ project[p] \in Row /\ Fresh(p) \in Entries /\ r \in Row /\ r.log = project[p].log
      /\ Used[p] \in Nat /\ Fresh(p) = Used[p] + 1
  BY FreshRange, PlansRange DEF Typed, TypeOK, Plans, Row
<1>2. new.log = Append(project[p].log, Fresh(p)) /\ project[p].log \in Seq(Entries)
  BY <1>1 DEF _append_lifecycle, Row
<1>3. /\ unit' = [unit EXCEPT ![w] = u] /\ UNCHANGED <<project, feed>>
      /\ unit \in [Workers -> Job] /\ unit[w].op # "stamp"
  BY JobOps DEF Stamp, Plan, Free, Typed, TypeOK, Job
<1>4. u.op = "stamp" /\ u.project = p /\ u.entry = Fresh(p) /\ u.new = new
  OBVIOUS
<1> HIDE DEF u, new
<1>5. \A v \in Workers : unit'[v] = IF v = w THEN u ELSE unit[v]
  BY <1>3
<1>6. \A v \in Workers : unit[v].op = "stamp" =>
        unit[v].project \in Projects /\ unit[v].entry \in Entries
  BY <1>3, JobOfOp, JobOps
<1>7. ASSUME NEW q \in Projects
      PROVE  /\ Used[q] \in Nat /\ Used'[q] \in Nat /\ Used[q] <= Used'[q]
             /\ q = p => Fresh(p) <= Used'[q]
  <2>1. /\ Used[q] \in Nat /\ Used'[q] \in Nat
        /\ Used'[q] = IF q = p THEN Used[q] + 1 ELSE Used[q]
    BY UsedStamp
  <2> QED BY <1>1, <2>1
<1>8. \A q \in Projects : feed'[q] = feed[q] /\ \A i \in DOMAIN feed[q] : feed[q][i] \in Nat
  BY <1>3 DEF Typed, TypeOK, Entries
<1>9. \A q \in Projects : \A i \in DOMAIN feed'[q] : feed'[q][i] <= Used'[q]
  <2> SUFFICES ASSUME NEW q \in Projects, NEW i \in DOMAIN feed'[q] PROVE feed'[q][i] <= Used'[q]
    OBVIOUS
  <2>1. feed'[q][i] = feed[q][i] /\ feed[q][i] \in Nat /\ feed[q][i] <= Used[q]
    BY <1>8 DEF Numbered
  <2> QED BY <1>7, <2>1
<1>10. ASSUME NEW v \in Workers, unit'[v].op = "stamp"
       PROVE  /\ unit'[v].entry <= Used'[unit'[v].project]
              /\ \A i \in DOMAIN feed'[unit'[v].project] :
                   feed'[unit'[v].project][i] # unit'[v].entry
  <2>1. CASE v = w
    <3>1. \A i \in DOMAIN feed[p] : feed[p][i] # Fresh(p)
      BY <1>1, <1>8 DEF Numbered
    <3> QED BY <1>4, <1>5, <1>7, <1>8, <2>1, <3>1
  <2>2. CASE v # w
    <3>1. /\ unit'[v] = unit[v] /\ unit[v].project \in Projects /\ unit[v].entry \in Nat
          /\ unit[v].entry <= Used[unit[v].project]
          /\ \A i \in DOMAIN feed[unit[v].project] : feed[unit[v].project][i] # unit[v].entry
      BY <1>5, <1>6, <1>10, <2>2 DEF Numbered, Entries
    <3>2. /\ Used[unit[v].project] \in Nat /\ Used'[unit[v].project] \in Nat
          /\ Used[unit[v].project] <= Used'[unit[v].project]
      BY <1>7, <3>1
    <3> QED BY <1>8, <3>1, <3>2
  <2> QED BY <2>1, <2>2
<1>11. ASSUME NEW v \in Workers, NEW x \in Workers, v # x, unit'[v].op = "stamp",
              unit'[x].op = "stamp", unit'[v].project = unit'[x].project
       PROVE  unit'[v].entry # unit'[x].entry
  <2>1. \A y \in Workers : unit[y].op = "stamp" /\ unit[y].project = p => unit[y].entry # Fresh(p)
    BY <1>1, <1>6 DEF Numbered, Entries
  <2> QED BY <1>4, <1>5, <1>11, <2>1 DEF Numbered
<1>12. Continues(u, feed[p])
  BY <1>1, <1>2, <1>4 DEF Continues, Repeating
<1>13. \A v \in Workers : unit'[v].op = "stamp" => Continues(unit'[v], feed'[unit'[v].project])
  BY <1>3, <1>4, <1>5, <1>12 DEF Repeating
<1>14. \A q \in Projects : IsInjective(feed'[q])
  BY <1>8 DEF Numbered
<1>15. Numbered'
  BY <1>9, <1>10, <1>11, <1>14 DEF Numbered
<1>16. Repeating'
  BY <1>3, <1>13 DEF Repeating
<1> QED BY <1>15, <1>16

LEMMA RepeatingCommit ==
  ASSUME Typed, Numbered, Repeating, NEW w \in Workers, CommitStamp(w)
  PROVE  Numbered' /\ Repeating'
<1> DEFINE u == unit[w]
           p == u.project
<1>1. /\ u \in Stamps /\ u.op = "stamp" /\ p \in Projects /\ u.entry \in Entries
      /\ unit' = [unit EXCEPT ![w] = Idle] /\ project' = [project EXCEPT ![p] = Written(u)]
      /\ feed' = [feed EXCEPT ![p] = Append(feed[p], u.entry)]
      /\ unit \in [Workers -> Job] /\ project \in [Projects -> Row]
      /\ feed \in [Projects -> Seq(Entries)]
  BY JobOfOp, JobOps DEF Typed, TypeOK, CommitStamp, Plan, Job
<1>2. \A q \in Projects : Used[q] \in Nat /\ Used'[q] = Used[q]
  BY UsedCommitStamp
<1>3. ASSUME NEW v \in Workers, unit'[v].op = "stamp"
      PROVE  /\ v # w /\ unit'[v] = unit[v] /\ unit[v].op = "stamp"
             /\ unit[v] \in Stamps /\ unit[v].project \in Projects /\ unit[v].entry \in Entries
  <2>1. v # w /\ unit'[v] = unit[v]
    BY <1>1, <1>3, JobOps
  <2> QED BY <1>1, <1>3, <2>1, JobOfOp, JobOps
<1>4. \A q \in Projects : feed'[q] = IF q = p THEN Append(feed[p], u.entry) ELSE feed[q]
  BY <1>1
<1>5. \A q \in Projects : project'[q] = IF q = p THEN Written(u) ELSE project[q]
  BY <1>1
<1>6. /\ Append(feed[p], u.entry) \in Seq(Entries) /\ Len(feed[p]) \in Nat
      /\ DOMAIN feed[p] = 1..Len(feed[p])
      /\ DOMAIN Append(feed[p], u.entry) = 1..(Len(feed[p]) + 1)
      /\ \A i \in DOMAIN feed[p] : Append(feed[p], u.entry)[i] = feed[p][i]
      /\ Append(feed[p], u.entry)[Len(feed[p]) + 1] = u.entry
  BY <1>1, AppendFacts
<1>7. /\ u.entry <= Used[p] /\ \A i \in DOMAIN feed[p] : feed[p][i] # u.entry
      /\ IsInjective(feed[p]) /\ \A i \in DOMAIN feed[p] : feed[p][i] <= Used[p]
  BY <1>1 DEF Numbered
<1>8. /\ IsInjective(Append(feed[p], u.entry))
      /\ \A i \in DOMAIN Append(feed[p], u.entry) : Append(feed[p], u.entry)[i] <= Used[p]
  <2> DEFINE s == feed[p]
             t == Append(s, u.entry)
             e == u.entry
  <2>1. /\ Len(s) \in Nat /\ DOMAIN s = 1..Len(s) /\ DOMAIN t = 1..(Len(s) + 1)
        /\ \A i \in DOMAIN s : t[i] = s[i] /\ s[i] # e /\ s[i] <= Used[p]
        /\ t[Len(s) + 1] = e /\ e <= Used[p] /\ IsInjective(s)
    BY <1>6, <1>7
  <2> HIDE DEF s, t, e, p
  <2>2. \A i \in DOMAIN t : i \in DOMAIN s \/ i = Len(s) + 1
    BY <2>1
  <2>3. IsInjective(t)
    BY <2>1, <2>2 DEF IsInjective
  <2>4. \A i \in DOMAIN t : t[i] <= Used[p]
    BY <2>1, <2>2
  <2> QED BY <2>3, <2>4 DEF s, t, e
<1>9. /\ \A q \in Projects : IsInjective(feed'[q])
      /\ \A q \in Projects : \A i \in DOMAIN feed'[q] : feed'[q][i] <= Used'[q]
  BY <1>2, <1>4, <1>8 DEF Numbered
<1>10. ASSUME NEW v \in Workers, unit'[v].op = "stamp"
       PROVE  /\ unit'[v].entry <= Used'[unit'[v].project]
              /\ \A i \in DOMAIN feed'[unit'[v].project] :
                   feed'[unit'[v].project][i] # unit'[v].entry
  <2> DEFINE q == unit[v].project
  <2>1. /\ v # w /\ unit'[v] = unit[v] /\ q \in Projects /\ unit[v].op = "stamp"
        /\ unit[v].entry <= Used[q] /\ \A i \in DOMAIN feed[q] : feed[q][i] # unit[v].entry
    BY <1>3, <1>10 DEF Numbered
  <2>2. q = p => unit[v].entry # u.entry
    BY <1>1, <2>1 DEF Numbered
  <2>3. \A i \in DOMAIN feed'[q] : feed'[q][i] # unit[v].entry
    <3>1. CASE q = p
      <4>1. ASSUME NEW i \in 1..(Len(feed[p]) + 1)
            PROVE  Append(feed[p], u.entry)[i] # unit[v].entry
        <5>1. i \in DOMAIN feed[p] \/ i = Len(feed[p]) + 1
          BY <1>6
        <5> QED BY <1>6, <2>1, <2>2, <3>1, <5>1
      <4> QED BY <1>4, <1>6, <2>1, <3>1, <4>1
    <3>2. CASE q # p
      BY <1>4, <2>1, <3>2
    <3> QED BY <3>1, <3>2
  <2> QED BY <1>2, <2>1, <2>3
<1>11. ASSUME NEW v \in Workers, NEW x \in Workers, v # x, unit'[v].op = "stamp",
              unit'[x].op = "stamp", unit'[v].project = unit'[x].project
       PROVE  unit'[v].entry # unit'[x].entry
  BY <1>3, <1>11 DEF Numbered
<1>12. Numbered'
  BY <1>9, <1>10, <1>11 DEF Numbered
<1>13. PICK log \in Seq(Entries) : u.new.log = Append(log, u.entry) /\ Repeats(log, feed[p])
  BY <1>1 DEF Repeating, Continues
<1>14. Written(u).log = Append(log, u.entry)
  BY <1>13 DEF Written
<1>15. /\ Repeats(Append(log, u.entry), Append(feed[p], u.entry))
       /\ Append(log, u.entry) # <<>> /\ Last(Append(log, u.entry)) = Last(Append(feed[p], u.entry))
  <2>1. feed[p] \in Seq(Entries)
    BY <1>1
  <2>2. Last(Append(log, u.entry)) = u.entry /\ Append(log, u.entry) # <<>>
    BY <1>1, AppendFacts
  <2>3. Last(Append(feed[p], u.entry)) = u.entry
    BY <1>1, <2>1, AppendFacts
  <2>4. Repeats(Append(log, u.entry), Append(feed[p], u.entry))
    BY <1>1, <1>13, <2>1, RepeatsBoth
  <2> QED BY <2>2, <2>3, <2>4
<1>16. \A q \in Projects :
         /\ Repeats(project'[q].log, feed'[q])
         /\ feed'[q] # <<>> => project'[q].log # <<>> /\ Last(project'[q].log) = Last(feed'[q])
  <2> SUFFICES ASSUME NEW q \in Projects
               PROVE  /\ Repeats(project'[q].log, feed'[q])
                      /\ feed'[q] # <<>> =>
                           project'[q].log # <<>> /\ Last(project'[q].log) = Last(feed'[q])
    OBVIOUS
  <2>1. CASE q = p
    <3>1. feed'[q] = Append(feed[p], u.entry) /\ project'[q].log = Append(log, u.entry)
      BY <1>4, <1>5, <1>14, <2>1
    <3> QED BY <1>15, <3>1
  <2>2. CASE q # p
    <3>1. feed'[q] = feed[q] /\ project'[q] = project[q]
      BY <1>4, <1>5, <2>2
    <3> QED BY <3>1 DEF Repeating
  <2> QED BY <2>1, <2>2
<1>17. ASSUME NEW v \in Workers, unit'[v].op = "stamp"
       PROVE  Continues(unit'[v], feed'[unit'[v].project])
  <2> DEFINE q == unit[v].project
  <2>1. unit'[v] = unit[v] /\ q \in Projects /\ Continues(unit[v], feed[q])
    BY <1>3, <1>17 DEF Repeating
  <2>2. PICK old \in Seq(Entries) : unit[v].new.log = Append(old, unit[v].entry) /\ Repeats(old, feed[q])
    BY <2>1 DEF Continues
  <2>3. Repeats(old, Append(feed[p], u.entry)) \/ q # p
    BY <1>1, <2>2, RepeatsMore
  <2>4. Repeats(old, feed'[q])
    BY <1>4, <2>1, <2>2, <2>3
  <2> QED BY <2>1, <2>2, <2>4 DEF Continues
<1> QED BY <1>12, <1>16, <1>17 DEF Repeating

LEMMA RepeatingStep == Typed /\ Numbered /\ Repeating /\ [Next]_vars => (Numbered /\ Repeating)'
<1> SUFFICES ASSUME Typed, Numbered, Repeating, [Next]_vars PROVE Numbered' /\ Repeating'
  OBVIOUS
<1>1. Idle \in Job /\ Idle.op # "stamp"
  BY JobOps DEF Job
<1>2. CASE Lifecycle
  BY <1>2, LifecycleShape, RepeatingStamp
<1>3. ASSUME UNCHANGED <<project, feed, unit>> PROVE Numbered' /\ Repeating'
  <2>1. Used' = Used
    BY <1>3 DEF Used, Stamping
  <2>2. Numbered'
    BY <1>3, <2>1 DEF Numbered
  <2>3. Repeating'
    BY <1>3 DEF Repeating
  <2> QED BY <2>2, <2>3
<1>4. CASE Structure
  <2>1. ASSUME NEW w \in Workers, NEW m \in Milestones, close_milestone(w, m)
        PROVE  Numbered' /\ Repeating'
    <3> DEFINE u == [op |-> "close", milestone |-> m]
    <3>1. /\ u \in CloseJobs /\ unit[w].op # "stamp" /\ unit' = [unit EXCEPT ![w] = u]
          /\ UNCHANGED <<project, feed>>
      BY <1>1, <2>1 DEF close_milestone, Free, Plan, CloseJobs
    <3>2. u \in Job /\ u.op # "stamp"
      BY <3>1, JobOps DEF Job
    <3> HIDE DEF u
    <3> QED BY <3>1, <3>2, RepeatingStays
  <2>2. CASE UNCHANGED <<project, feed, unit>>
    BY <1>3, <2>2
  <2> QED BY <1>4, <2>1, <2>2 DEF Structure, create_milestone, create_phase, update_phase,
                                  create_task, patch_task, reopen_milestone
<1>5. ASSUME NEW w \in Workers, NEW v \in Users, NEW p \in Projects, NEW pinned \in BOOLEAN,
             pin_project(w, v, p, pinned)
      PROVE  Numbered' /\ Repeating'
  <2> DEFINE u == [op |-> IF pinned THEN "pin" ELSE "unpin", user |-> v, project |-> p]
  <2>1. /\ u \in PinJobs /\ unit[w].op # "stamp" /\ unit' = [unit EXCEPT ![w] = u]
        /\ UNCHANGED <<project, feed>>
    BY <1>1, <1>5 DEF pin_project, Free, Plan, PinJobs
  <2>2. u \in Job /\ u.op # "stamp"
    BY <2>1, JobOps DEF Job
  <2> HIDE DEF u
  <2> QED BY <2>1, <2>2, RepeatingStays
<1>6. ASSUME NEW w \in Workers, CommitStamp(w) PROVE Numbered' /\ Repeating'
  BY <1>6, RepeatingCommit
<1>7. ASSUME NEW w \in Workers, CommitClose(w) \/ CommitPin(w) PROVE Numbered' /\ Repeating'
  <2>1. unit[w].op # "stamp" /\ unit' = [unit EXCEPT ![w] = Idle] /\ UNCHANGED <<project, feed>>
    BY <1>7 DEF CommitClose, CommitPin, Plan, structure
  <2> QED BY <1>1, <2>1, RepeatingStays
<1>8. CASE UNCHANGED vars
  BY <1>3, <1>8 DEF vars
<1> QED BY <1>2, <1>4, <1>5, <1>6, <1>7, <1>8 DEF Next

\* The log of a project repeats events of its feed, in their order and up to the last
\* one, although overlapping requests write the log back whole, each as it had read it.
THEOREM LogRepeatsFeed == Spec => []LogWithinFeed
<1>1. Init => Typed /\ Numbered /\ Repeating
  BY TypedInit, RepeatingInit
<1>2. Typed /\ Numbered /\ Repeating /\ [Next]_vars => (Typed /\ Numbered /\ Repeating)'
  BY TypedStep, RepeatingStep
<1>3. Numbered /\ Repeating => LogWithinFeed
  BY DEF Numbered, Repeating, LogWithinFeed
<1> QED BY <1>1, <1>2, <1>3, PTL DEF Spec

-----------------------------------------------------------------------------
(* The pins of one user *)

\* The requests about to pin for a user, each counted against the limit.
Pinning == [u \in Users |-> {w \in Workers : unit[w].op = "pin" /\ unit[w].user = u}]

Room == \A u \in Users :
  Cardinality(pins[u]) + Cardinality(Pinning[u]) < MaxPins + Cardinality(Workers)

LEMMA WorkersCount == IsFiniteSet(Workers) /\ Cardinality(Workers) \in Nat \ {0}
  BY PlanningAssumption, FS_CardinalityType, FS_EmptySet

LEMMA PinningIsFinite ==
  ASSUME NEW S \in SUBSET Workers
  PROVE  IsFiniteSet(S) /\ Cardinality(S) \in Nat /\ Cardinality(S) <= Cardinality(Workers)
  BY PlanningAssumption, FS_Subset, FS_CardinalityType

LEMMA PinsAreFinite ==
  ASSUME NEW S \in SUBSET Projects
  PROVE  IsFiniteSet(S) /\ Cardinality(S) \in Nat
  BY PlanningAssumption, FS_Subset, FS_CardinalityType

LEMMA PinningAt ==
  ASSUME NEW u \in Users
  PROVE  /\ Pinning[u] = {w \in Workers : unit[w].op = "pin" /\ unit[w].user = u}
         /\ Pinning'[u] = {w \in Workers : unit'[w].op = "pin" /\ unit'[w].user = u}
         /\ Pinning[u] \in SUBSET Workers /\ Pinning'[u] \in SUBSET Workers
  BY DEF Pinning

LEMMA RoomInit == Init => Room
<1> SUFFICES ASSUME Init, NEW u \in Users
             PROVE  Cardinality(pins[u]) + Cardinality(Pinning[u]) < MaxPins + Cardinality(Workers)
  BY DEF Room
<1>1. pins[u] = {} /\ Pinning[u] = {}
  BY PinningAt, JobOps DEF Init
<1> QED BY <1>1, WorkersCount, PlanningAssumption, FS_EmptySet

\* A request that goes on to something else than a pin leaves room.
LEMMA RoomStays ==
  ASSUME Typed, Room, NEW w \in Workers, NEW j \in Job, j.op # "pin",
         unit' = [unit EXCEPT ![w] = j], UNCHANGED pins
  PROVE  Room'
<1> SUFFICES ASSUME NEW u \in Users
             PROVE  Cardinality(pins'[u]) + Cardinality(Pinning'[u]) < MaxPins + Cardinality(Workers)
  BY DEF Room
<1>1. Pinning'[u] \subseteq Pinning[u]
  BY PinningAt DEF Typed, TypeOK
<1>2. IsFiniteSet(Pinning[u]) /\ Pinning[u] \in SUBSET Workers
  BY PinningAt, PinningIsFinite
<1>3. /\ Cardinality(Pinning'[u]) <= Cardinality(Pinning[u])
      /\ Cardinality(Pinning'[u]) \in Nat /\ Cardinality(Pinning[u]) \in Nat
  BY <1>1, <1>2, FS_Subset, FS_CardinalityType
<1>4. Cardinality(pins[u]) \in Nat
  <2>1. pins[u] \in SUBSET Projects
    BY DEF Typed, TypeOK
  <2> QED BY <2>1, PinsAreFinite
<1>5. Cardinality(pins[u]) + Cardinality(Pinning[u]) < MaxPins + Cardinality(Workers)
  BY DEF Room
<1> QED BY <1>3, <1>4, <1>5, WorkersCount, PlanningAssumption

LEMMA RoomPin ==
  ASSUME Typed, Room, NEW w \in Workers, NEW v \in Users, NEW p \in Projects, NEW pinned \in BOOLEAN,
         pin_project(w, v, p, pinned)
  PROVE  Room'
<1> DEFINE j == [op |-> IF pinned THEN "pin" ELSE "unpin", user |-> v, project |-> p]
<1>1. /\ unit' = [unit EXCEPT ![w] = j] /\ UNCHANGED pins /\ j \in PinJobs
      /\ j.user = v /\ (j.op = "pin" => pinned) /\ unit \in [Workers -> Job]
  BY DEF pin_project, Plan, PinJobs, Typed, TypeOK, Job
<1>2. j \in Job
  BY <1>1 DEF Job
<1>3. pinned => Cardinality(pins[v]) < MaxPins
  BY DEF pin_project, RoomToPin
<1> HIDE DEF j
<1>4. CASE j.op # "pin"
  BY <1>1, <1>2, <1>4, RoomStays
<1>5. CASE j.op = "pin"
  <2> SUFFICES ASSUME NEW u \in Users
               PROVE  Cardinality(pins'[u]) + Cardinality(Pinning'[u]) < MaxPins + Cardinality(Workers)
    BY DEF Room
  <2>1. pins[u] \in SUBSET Projects /\ pins' = pins
    BY <1>1 DEF Typed, TypeOK
  <2>2. Cardinality(pins[u]) \in Nat
    BY <2>1, PinsAreFinite
  <2>3. CASE u = v
    <3>1. Cardinality(pins[u]) < MaxPins
      BY <1>1, <1>3, <1>5, <2>3
    <3>2. Cardinality(Pinning'[u]) \in Nat /\ Cardinality(Pinning'[u]) <= Cardinality(Workers)
      BY PinningAt, PinningIsFinite
    <3> QED BY <2>1, <2>2, <3>1, <3>2, WorkersCount, PlanningAssumption
  <2>4. CASE u # v
    <3>1. Pinning'[u] \subseteq Pinning[u]
      BY <1>1, <2>4, PinningAt
    <3>2. IsFiniteSet(Pinning[u])
      BY PinningAt, PinningIsFinite
    <3>3. /\ Cardinality(Pinning'[u]) <= Cardinality(Pinning[u])
          /\ Cardinality(Pinning'[u]) \in Nat /\ Cardinality(Pinning[u]) \in Nat
      BY <3>1, <3>2, FS_Subset, FS_CardinalityType
    <3>4. Cardinality(pins[u]) + Cardinality(Pinning[u]) < MaxPins + Cardinality(Workers)
      BY DEF Room
    <3> QED BY <2>1, <2>2, <3>3, <3>4, WorkersCount, PlanningAssumption
  <2> QED BY <2>3, <2>4
<1> QED BY <1>4, <1>5

LEMMA RoomCommitPin ==
  ASSUME Typed, Room, NEW w \in Workers, CommitPin(w)
  PROVE  Room'
<1> DEFINE j == unit[w]
<1>1. /\ j \in PinJobs /\ j.user \in Users /\ j.project \in Projects /\ unit \in [Workers -> Job]
      /\ unit' = [unit EXCEPT ![w] = Idle] /\ Idle.op # "pin"
      /\ pins' = [pins EXCEPT ![j.user] =
                     IF j.op = "pin" THEN pins[j.user] \cup {j.project} ELSE pins[j.user] \ {j.project}]
  BY JobOfOp, JobOps DEF CommitPin, Plan, Typed, TypeOK, Job
<1> SUFFICES ASSUME NEW u \in Users
             PROVE  Cardinality(pins'[u]) + Cardinality(Pinning'[u]) < MaxPins + Cardinality(Workers)
  BY DEF Room
<1>2. pins[u] \in SUBSET Projects
  BY DEF Typed, TypeOK
<1>3. IsFiniteSet(pins[u]) /\ Cardinality(pins[u]) \in Nat
  BY <1>2, PinsAreFinite
<1>4. IsFiniteSet(Pinning[u]) /\ Cardinality(Pinning[u]) \in Nat
  BY PinningAt, PinningIsFinite
<1>5. Cardinality(pins[u]) + Cardinality(Pinning[u]) < MaxPins + Cardinality(Workers)
  BY DEF Room
<1>6. CASE u = j.user /\ j.op = "pin"
  <2>1. pins'[u] = pins[u] \cup {j.project}
    BY <1>1, <1>6 DEF Typed, TypeOK
  <2>2. Cardinality(pins'[u]) \in Nat /\ Cardinality(pins'[u]) <= Cardinality(pins[u]) + 1
    <3>1. CASE j.project \in pins[u]
      <4>1. pins'[u] = pins[u]
        BY <2>1, <3>1
      <4> QED BY <1>3, <4>1
    <3>2. CASE j.project \notin pins[u]
      <4> DEFINE S == pins[u]
                 T == pins'[u]
                 e == j.project
      <4>1. IsFiniteSet(S) /\ Cardinality(S) \in Nat /\ T = S \cup {e} /\ e \notin S
        BY <1>3, <2>1, <3>2
      <4> HIDE DEF S, T, e
      <4>2. Cardinality(T) = Cardinality(S) + 1
        BY <4>1, FS_AddElement
      <4>3. Cardinality(T) \in Nat /\ Cardinality(T) <= Cardinality(S) + 1
        BY <4>1, <4>2
      <4> QED BY <4>3 DEF S, T
    <3> QED BY <3>1, <3>2
  <2>3. Pinning'[u] = Pinning[u] \ {w} /\ w \in Pinning[u]
    BY <1>1, <1>6, PinningAt
  <2>4. Cardinality(Pinning'[u]) = Cardinality(Pinning[u]) - 1
    BY <1>4, <2>3, FS_RemoveElement
  <2> QED BY <1>3, <1>4, <1>5, <2>2, <2>4, WorkersCount, PlanningAssumption
<1>7. CASE ~(u = j.user /\ j.op = "pin")
  <2>1. pins'[u] \subseteq pins[u]
    BY <1>1, <1>7 DEF Typed, TypeOK
  <2>2. Cardinality(pins'[u]) \in Nat /\ Cardinality(pins'[u]) <= Cardinality(pins[u])
    BY <1>3, <2>1, FS_Subset, FS_CardinalityType
  <2>3. Pinning'[u] \subseteq Pinning[u]
    BY <1>1, PinningAt
  <2>4. Cardinality(Pinning'[u]) \in Nat /\ Cardinality(Pinning'[u]) <= Cardinality(Pinning[u])
    BY <1>4, <2>3, FS_Subset, FS_CardinalityType
  <2> QED BY <1>3, <1>4, <1>5, <2>2, <2>4, WorkersCount, PlanningAssumption
<1> QED BY <1>6, <1>7

LEMMA RoomStep == Typed /\ Room /\ [Next]_vars => Room'
<1> SUFFICES ASSUME Typed, Room, [Next]_vars PROVE Room'
  OBVIOUS
<1>1. Idle \in Job /\ Idle.op # "pin"
  BY JobOps DEF Job
<1>2. CASE UNCHANGED <<pins, unit>>
  BY <1>2 DEF Room, Pinning
<1>3. CASE Lifecycle
  <2>1. PICK w \in Workers, p \in Projects, op \in Endpoints :
          \E r : Plans(r, p, Fresh(p)) /\ Stamp(w, op, p, r)
    BY <1>3, LifecycleShape
  <2>2. PICK r : Plans(r, p, Fresh(p)) /\ Stamp(w, op, p, r)
    BY <2>1
  <2> DEFINE u == [op |-> "stamp", project |-> p, entry |-> Fresh(p), old |-> project[p],
                   new |-> _append_lifecycle(r, Fresh(p))]
  <2>3. u \in Stamps
    <3>1. project[p] \in Row /\ Fresh(p) \in Entries /\ r \in Row
      BY <2>2, FreshRange, PlansRange DEF Typed, TypeOK
    <3> QED BY <3>1, AppendRange DEF Stamps
  <2>4. unit' = [unit EXCEPT ![w] = u] /\ UNCHANGED pins
    BY <2>2 DEF Stamp, Plan
  <2>5. u \in Job /\ u.op # "pin"
    BY <2>3, JobOps DEF Job
  <2> HIDE DEF u
  <2> QED BY <2>4, <2>5, RoomStays
<1>4. CASE Structure
  <2>1. ASSUME NEW w \in Workers, NEW m \in Milestones, close_milestone(w, m) PROVE Room'
    <3> DEFINE u == [op |-> "close", milestone |-> m]
    <3>1. u \in CloseJobs /\ unit' = [unit EXCEPT ![w] = u] /\ UNCHANGED pins
      BY <2>1 DEF close_milestone, Plan, CloseJobs
    <3>2. u \in Job /\ u.op # "pin"
      BY <3>1, JobOps DEF Job
    <3> HIDE DEF u
    <3> QED BY <3>1, <3>2, RoomStays
  <2> QED BY <1>2, <1>4, <2>1 DEF Structure, create_milestone, create_phase, update_phase,
                                  create_task, patch_task, reopen_milestone
<1>5. ASSUME NEW w \in Workers, NEW v \in Users, NEW p \in Projects, NEW pinned \in BOOLEAN,
             pin_project(w, v, p, pinned)
      PROVE  Room'
  BY <1>5, RoomPin
<1>6. ASSUME NEW w \in Workers, CommitPin(w) PROVE Room'
  BY <1>6, RoomCommitPin
<1>7. ASSUME NEW w \in Workers, CommitStamp(w) \/ CommitClose(w) PROVE Room'
  <2>1. unit' = [unit EXCEPT ![w] = Idle] /\ UNCHANGED pins
    BY <1>7 DEF CommitClose, CommitStamp, Plan
  <2> QED BY <1>1, <2>1, RoomStays
<1>8. CASE UNCHANGED vars
  BY <1>2, <1>8 DEF vars
<1> QED BY <1>3, <1>4, <1>5, <1>6, <1>7, <1>8 DEF Next

\* However long requests of one user overlap, the pins stay below the limit of
\* pin_project and the number of requests.
THEOREM PinsAreBounded == Spec => []PinsOvershoot
<1>1. Init => Typed /\ Room
  BY TypedInit, RoomInit
<1>2. Typed /\ Room /\ [Next]_vars => (Typed /\ Room)'
  BY TypedStep, RoomStep
<1>3. Typed /\ Room => PinsOvershoot
  <2> SUFFICES ASSUME Typed, Room, NEW u \in Users
               PROVE  Cardinality(pins[u]) < MaxPins + Cardinality(Workers)
    BY DEF PinsOvershoot
  <2>1. pins[u] \in SUBSET Projects
    BY DEF Typed, TypeOK
  <2>2. Cardinality(pins[u]) \in Nat /\ Cardinality(Pinning[u]) \in Nat
    BY <2>1, PinsAreFinite, PinningAt, PinningIsFinite
  <2>3. Cardinality(pins[u]) + Cardinality(Pinning[u]) < MaxPins + Cardinality(Workers)
    BY DEF Room
  <2> QED BY <2>2, <2>3, WorkersCount, PlanningAssumption
<1> QED BY <1>1, <1>2, <1>3, PTL DEF Spec
=============================================================================
