--------------------------- MODULE DriftGateProofs ---------------------------
(***************************************************************************)
(* Theorems about DriftGate, for every value of its constants.             *)
(***************************************************************************)
EXTENDS DriftGate, TLAPS

-----------------------------------------------------------------------------
(* The helpers *)

\* Writing back the changed columns of a row gives a row, each column of
\* which is the new value or the one committed by now.
LEMMA SaveRow ==
  ASSUME NEW cur \in Rows, NEW old \in Rows, NEW new \in Rows
  PROVE  /\ Save(cur, old, new) \in Rows
         /\ Save(cur, old, new).count = IF new.count = old.count THEN cur.count ELSE new.count
         /\ Save(cur, old, new).passedAt =
              IF new.passedAt = old.passedAt THEN cur.passedAt ELSE new.passedAt
         /\ Save(cur, old, new).hashes =
              IF new.hashes = old.hashes THEN cur.hashes ELSE new.hashes
         /\ Save(cur, old, new).lastRead =
              IF new.lastRead = old.lastRead THEN cur.lastRead ELSE new.lastRead
<1>1. DOMAIN cur = {"count", "passedAt", "hashes", "lastRead", "reads"}
  BY DEF Rows
<1>2. Save(cur, old, new) =
        [count |-> IF new.count = old.count THEN cur.count ELSE new.count,
         passedAt |-> IF new.passedAt = old.passedAt THEN cur.passedAt ELSE new.passedAt,
         hashes |-> IF new.hashes = old.hashes THEN cur.hashes ELSE new.hashes,
         lastRead |-> IF new.lastRead = old.lastRead THEN cur.lastRead ELSE new.lastRead,
         reads |-> IF new.reads = old.reads THEN cur.reads ELSE new.reads]
  BY <1>1 DEF Save
<1>3. QED BY <1>2 DEF Rows

NoRepeats(h) == Len(h) <= HashCap /\ \A i, j \in DOMAIN h : h[i] = h[j] => i = j

\* Appending a reply that was not remembered keeps the memory short and
\* without repeats, and evicts only from its old end.
LEMMA RememberOK ==
  ASSUME NEW h \in Seq(Answers), NEW x \in Answers,
         NoRepeats(h), x \notin Range(h)
  PROVE  Remember(h, x) \in Seq(Answers) /\ NoRepeats(Remember(h, x))
<1> DEFINE all == Append(h, x)
           from == IF Len(all) > HashCap THEN Len(all) - HashCap + 1 ELSE 1
<1>1. HashCap \in Nat \ {0} BY LimitsAssumption
<1>2. /\ all \in Seq(Answers) /\ Len(all) = Len(h) + 1 /\ Len(h) \in Nat
      /\ \A i \in 1..Len(h) : all[i] = h[i]
      /\ all[Len(h) + 1] = x
      /\ DOMAIN h = 1..Len(h)
  OBVIOUS
<1>3. \A i \in 1..Len(h) : h[i] # x BY <1>2 DEF Range
<1>4. \A i, j \in 1..Len(all) : all[i] = all[j] => i = j
  <2> SUFFICES ASSUME NEW i \in 1..Len(all), NEW j \in 1..Len(all), all[i] = all[j]
               PROVE  i = j
    OBVIOUS
  <2>1. CASE i \in 1..Len(h) /\ j \in 1..Len(h) BY <2>1, <1>2 DEF NoRepeats
  <2>2. CASE i = Len(h) + 1 /\ j = Len(h) + 1 BY <2>2
  <2>3. CASE i \in 1..Len(h) /\ j = Len(h) + 1 BY <2>3, <1>2, <1>3
  <2>4. CASE j \in 1..Len(h) /\ i = Len(h) + 1 BY <2>4, <1>2, <1>3
  <2>5. QED BY <2>1, <2>2, <2>3, <2>4, <1>2
<1>5. from \in 1..(Len(all)) /\ Len(all) - from + 1 <= HashCap BY <1>1, <1>2
<1>6. Remember(h, x) = SubSeq(all, from, Len(all)) BY DEF Remember
<1>7. /\ SubSeq(all, from, Len(all)) \in Seq(Answers)
      /\ Len(SubSeq(all, from, Len(all))) = Len(all) - from + 1
      /\ \A i \in 1..(Len(all) - from + 1) :
           SubSeq(all, from, Len(all))[i] = all[from + i - 1]
  <2> HIDE DEF all, from
  <2>1. Len(all) \in Nat /\ from \in Nat BY <1>2, <1>5
  <2>2. QED BY <1>2, <1>5, <2>1
<1>8. QED
  <2> HIDE DEF all, from
  <2>1. Len(all) \in Nat /\ from \in Nat BY <1>2, <1>5
  <2> DEFINE s == SubSeq(all, from, Len(all))
  <2>2. Len(s) <= HashCap BY <1>5, <1>7
  <2>3. DOMAIN s = 1..(Len(all) - from + 1) BY <1>7, <2>1, <1>5
  <2>4. \A i, j \in DOMAIN s : s[i] = s[j] => i = j
    <3> SUFFICES ASSUME NEW i \in DOMAIN s, NEW j \in DOMAIN s, s[i] = s[j] PROVE i = j
      OBVIOUS
    <3>1. /\ i \in 1..(Len(all) - from + 1) /\ j \in 1..(Len(all) - from + 1) BY <2>3
    <3>2. all[from + i - 1] = all[from + j - 1] BY <3>1, <1>7
    <3>3. from + i - 1 \in 1..Len(all) /\ from + j - 1 \in 1..Len(all) BY <3>1, <2>1, <1>5
    <3>4. from + i - 1 = from + j - 1 BY <3>2, <3>3, <1>4
    <3>5. QED BY <3>4, <3>1, <2>1
  <2>5. QED BY <2>2, <2>4, <1>6, <1>7 DEF NoRepeats

-----------------------------------------------------------------------------
(* Type correctness *)

\* What the program counters say about the slots, and that a clear in
\* progress names an existing escalation.
SlotsOK ==
  \A r \in Requests :
    /\ req[r].pc # "idle" => req[r].agent \in Agents /\ req[r].path \in Paths
    /\ req[r].pc \in {"loaded", "unfrozen"} => req[r].snap \in Rows
    /\ req[r].pc \in {"idle", "loaded", "unfrozen"} => req[r].evaluated = FALSE

ClearingOK ==
  /\ Len(escalations) <= MaxEscalations
  /\ clearing # None => clearing.esc \in DOMAIN escalations

TypeInv == TypeOK /\ SlotsOK /\ ClearingOK

\* The initial state has the types.
LEMMA TypeInit == Init => TypeInv
<1> SUFFICES ASSUME Init PROVE TypeInv OBVIOUS
<1> USE LimitsAssumption DEF Init
<1>1. 0 \in Times /\ 0 \in 0..MaxReads /\ 0 \in 0..PivotLimit /\ 0 \in 0..(PivotLimit + 1)
  BY DEF Times
<1>2. FreshRow \in Rows
  BY <1>1 DEF FreshRow, Rows, MaybeTimes
<1>3. Idle \in Slots BY DEF Idle, Slots, Steps
<1>4. TypeOK BY <1>1, <1>2, <1>3 DEF TypeOK, MaybeTimes
<1>5. SlotsOK BY DEF SlotsOK, Idle
<1>6. ClearingOK BY DEF ClearingOK
<1>7. QED BY <1>4, <1>5, <1>6 DEF TypeInv

\* The actions of a request that change nothing but its own slot.
LEMMA SlotStep ==
  ASSUME TypeInv, NEW r \in Requests, NEW s \in Slots,
         s.pc # "idle" => s.agent \in Agents /\ s.path \in Paths,
         s.pc \in {"loaded", "unfrozen"} => s.snap \in Rows,
         s.pc \in {"idle", "loaded", "unfrozen"} => s.evaluated = FALSE,
         req' = [req EXCEPT ![r] = s]
  PROVE  req' \in [Requests -> Slots] /\ SlotsOK'
BY DEF TypeInv, TypeOK, SlotsOK

\* The slot of a thread without a request.
LEMMA IdleSlot == Idle \in Slots /\ Idle.pc = "idle" /\ Idle.evaluated = FALSE
BY DEF Idle, Slots, Steps

\* A request that leaves keeps the slots well formed.
LEMMA LeaveStep ==
  ASSUME TypeInv, NEW r \in Requests, Leave(r)
  PROVE  req' \in [Requests -> Slots] /\ SlotsOK'
<1>1. req' = [req EXCEPT ![r] = Idle] BY DEF Leave
<1>2. QED BY <1>1, IdleSlot, SlotStep

\* One more row and one more attempt of an agent keep the types.
LEMMA RowStep ==
  ASSUME TypeInv, NEW a \in Agents, NEW n \in Rows, row' = [row EXCEPT ![a] = n]
  PROVE  row' \in [Agents -> Rows]
BY DEF TypeInv, TypeOK

\* What a reply is logged as is a row of the attempt log.
LEMMA AttemptRow ==
  ASSUME TypeInv, NEW a \in Agents, NEW o \in Outcomes, NEW x \in Answers \cup {Short, None}
  PROVE  Attempt(o, x, a) \in AttemptRows
<1>1. row[a].reads \in 0..MaxReads BY DEF TypeInv, TypeOK, Rows
<1>2. 0 \in 0..MaxEscalations BY LimitsAssumption
<1>3. QED BY <1>1, <1>2 DEF Attempt, AttemptRows

\* Logging one attempt keeps the log well formed.
LEMMA AttemptsStep ==
  ASSUME TypeInv, NEW a \in Agents, NEW t \in AttemptRows,
         attempts' = [attempts EXCEPT ![a] = @ \cup {t}]
  PROVE  attempts' \in [Agents -> SUBSET AttemptRows]
BY DEF TypeInv, TypeOK

\* The streak of bad replies stays in its range.
LEMMA StreakStep ==
  ASSUME TypeInv, NEW a \in Agents,
         \/ streak' = [streak EXCEPT ![a] = 0]
         \/ streak' = [streak EXCEPT ![a] = OneMoreBadReply(a)]
  PROVE  streak' \in [Agents -> 0..(PivotLimit + 1)]
<1>1. streak \in [Agents -> 0..(PivotLimit + 1)] /\ PivotLimit \in Nat
  BY LimitsAssumption DEF TypeInv, TypeOK
<1>2. OneMoreBadReply(a) \in 0..(PivotLimit + 1) BY <1>1 DEF OneMoreBadReply
<1>3. QED BY <1>1, <1>2

\* The loaded row of a request that is being refreshed, asked or answered.
LEMMA LoadedSlot ==
  ASSUME TypeInv, NEW r \in Requests, req[r].pc \in {"loaded", "unfrozen"}
  PROVE  /\ req[r].agent \in Agents /\ req[r].snap \in Rows /\ req[r].path \in Paths
         /\ req[r].snap.count \in 0..PivotLimit /\ req[r].snap.passedAt \in MaybeTimes
         /\ req[r].snap.lastRead \in MaybeTimes /\ req[r].snap.hashes \in Seq(Answers)
<1>1. req[r].snap \in Rows BY DEF TypeInv, SlotsOK
<1>2. QED BY <1>1 DEF TypeInv, SlotsOK, Rows

\* A new request loads a row.
LEMMA TypeArrive ==
  ASSUME TypeInv, NEW r \in Requests, NEW a \in Agents, NEW p \in Paths, Arrive(r, a, p)
  PROVE  TypeInv'
<1> DEFINE s == [pc |-> "loaded", agent |-> a, path |-> p, snap |-> row[a], evaluated |-> FALSE]
<1>1. row[a] \in Rows BY DEF TypeInv, TypeOK
<1>2. s \in Slots BY <1>1 DEF Slots, Steps
<1>3. req' = [req EXCEPT ![r] = s] BY DEF Arrive
<1>4. req' \in [Requests -> Slots] /\ SlotsOK'
  <2> HIDE DEF s
  <2>1. s.pc = "loaded" /\ s.agent = a /\ s.path = p /\ s.snap = row[a] /\ s.evaluated = FALSE
    BY DEF s
  <2>2. QED BY <1>1, <1>2, <1>3, <2>1, SlotStep
<1>5. QED BY <1>4 DEF Arrive, TypeInv, TypeOK, ClearingOK, settings, history

\* The refusals and the write of a request.
LEMMA TypeLeave ==
  ASSUME TypeInv, NEW r \in Requests, RefuseFrozen(r) \/ RefuseStale(r) \/ RefuseOnboard(r) \/ Write(r)
  PROVE  TypeInv'
<1>1. Leave(r) /\ UNCHANGED <<clock, settings, row, escalations, attempts, clearing, history>>
  BY DEF RefuseFrozen, RefuseStale, RefuseOnboard, Write
<1>2. QED BY <1>1, LeaveStep DEF TypeInv, TypeOK, ClearingOK, settings, history

\* The steps of a request that only move its program counter on.
LEMMA TypeGoTo ==
  ASSUME TypeInv, NEW r \in Requests, PassFreezeCheck(r) \/ PassQuietly(r) \/ Admit(r)
  PROVE  TypeInv'
<1>1. UNCHANGED <<clock, settings, row, escalations, attempts, clearing, history>>
  BY DEF PassFreezeCheck, PassQuietly, Admit
<1>2. req[r] \in Slots /\ req \in [Requests -> Slots] BY DEF TypeInv, TypeOK
<1>3. req' \in [Requests -> Slots] /\ SlotsOK'
  <2>1. CASE PassFreezeCheck(r)
    <3>1. req' = [req EXCEPT ![r].pc = "unfrozen"] /\ req[r].pc = "loaded"
      BY <2>1 DEF PassFreezeCheck, GoTo, At
    <3>2. QED BY <3>1, <1>2 DEF TypeInv, SlotsOK, Slots, Steps
  <2>2. CASE PassQuietly(r)
    <3>1. /\ req' = [req EXCEPT ![r] = [@ EXCEPT !.pc = "gated", !.snap = None,
                                                 !.evaluated = Evaluates(r)]]
          /\ req[r].pc = "unfrozen"
      BY <2>2 DEF PassQuietly, FreshEnough, At
    <3>2. Evaluates(r) \in BOOLEAN BY DEF Evaluates
    <3>3. QED BY <3>1, <3>2, <1>2 DEF TypeInv, SlotsOK, Slots, Steps
  <2>3. CASE Admit(r)
    <3>1. req' = [req EXCEPT ![r].pc = "admitted"] /\ req[r].pc = "gated"
      BY <2>3 DEF Admit, GoTo, At
    <3>2. QED BY <3>1, <1>2 DEF TypeInv, SlotsOK, Slots, Steps
  <2>4. QED BY <2>1, <2>2, <2>3
<1>4. QED BY <1>1, <1>3 DEF TypeInv, TypeOK, ClearingOK, settings, history

\* A contract read saves a row.
LEMMA TypeRefresh ==
  ASSUME TypeInv, NEW r \in Requests, Refresh(r)
  PROVE  TypeInv'
<1> DEFINE a == req[r].agent
           snap == req[r].snap
           p == IF PassExpired(snap) THEN None ELSE snap.passedAt
           new == [snap EXCEPT !.lastRead = clock, !.count = 0, !.passedAt = p]
           saved == [Save(row[a], snap, new) EXCEPT !.reads = row[a].reads + 1]
<1>1. req[r].pc = "loaded" BY DEF Refresh
<1>2. a \in Agents /\ snap \in Rows /\ snap.passedAt \in MaybeTimes BY <1>1, LoadedSlot
<1>3. clock \in Times /\ 0 \in 0..PivotLimit BY LimitsAssumption DEF TypeInv, TypeOK
<1>4. p \in MaybeTimes BY <1>2 DEF MaybeTimes
<1>5. new \in Rows
  <2> HIDE DEF p, snap
  <2>1. QED BY <1>2, <1>3, <1>4 DEF Rows, MaybeTimes
<1>6. row[a] \in Rows BY <1>2 DEF TypeInv, TypeOK
<1>7. Save(row[a], snap, new) \in Rows
  <2> HIDE DEF new, snap, a
  <2>1. QED BY <1>2, <1>5, <1>6, SaveRow
<1>8. saved \in Rows
  <2>1. row[a].reads < MaxReads BY DEF Refresh
  <2>2. row[a].reads \in 0..MaxReads /\ MaxReads \in Nat BY <1>6, LimitsAssumption DEF Rows
  <2>3. row[a].reads + 1 \in 0..MaxReads BY <2>1, <2>2
  <2> HIDE DEF new, snap, a
  <2>4. QED BY <1>7, <2>3 DEF Rows
<1>9. row' = [row EXCEPT ![a] = saved] BY DEF Refresh
<1>10. row' \in [Agents -> Rows]
  <2> HIDE DEF saved, a
  <2>1. QED BY <1>2, <1>8, <1>9, RowStep
<1>11. streak' \in [Agents -> 0..(PivotLimit + 1)] BY <1>2, StreakStep DEF Refresh
<1>12. req' \in [Requests -> Slots] /\ SlotsOK' BY LeaveStep DEF Refresh
<1>13. UNCHANGED <<clock, settings, escalations, attempts, clearing, lastPass>> BY DEF Refresh
<1>14. QED BY <1>10, <1>11, <1>12, <1>13 DEF TypeInv, TypeOK, ClearingOK, settings

\* A question logs an attempt.
LEMMA TypePrompt ==
  ASSUME TypeInv, NEW r \in Requests, Prompt(r)
  PROVE  TypeInv'
<1>1. req[r].pc = "unfrozen" BY DEF Prompt, Asked, FreshEnough, At
<1>2. req[r].agent \in Agents BY <1>1, LoadedSlot
<1>3. Attempt("prompt", None, req[r].agent) \in AttemptRows
  BY <1>2, AttemptRow DEF Outcomes
<1>4. attempts' \in [Agents -> SUBSET AttemptRows]
  BY <1>2, <1>3, AttemptsStep DEF Prompt
<1>5. req' \in [Requests -> Slots] /\ SlotsOK' BY LeaveStep DEF Prompt
<1>6. QED BY <1>4, <1>5 DEF Prompt, TypeInv, TypeOK, ClearingOK, settings, history

\* Answering from an unseen reply: the facts every invariant needs.
LEMMA AcceptFacts ==
  ASSUME TypeInv, NEW r \in Requests, NEW x \in Answers, Accept(r, x),
         NoRepeats(req[r].snap.hashes)
  PROVE  LET a == req[r].agent
             snap == req[r].snap
             new == [snap EXCEPT !.hashes = Remember(snap.hashes, x),
                                 !.passedAt = clock, !.count = 0]
         IN  /\ a \in Agents /\ snap \in Rows /\ new \in Rows
             /\ new.hashes = Remember(snap.hashes, x) /\ NoRepeats(new.hashes)
             /\ new.passedAt = clock /\ new.lastRead = snap.lastRead
             /\ snap.passedAt = None
<1> DEFINE a == req[r].agent
           snap == req[r].snap
<1>1. req[r].pc = "unfrozen" /\ snap.passedAt = None /\ ~Seen(x, snap)
  BY DEF Accept, Asked, FreshEnough, At
<1>2. a \in Agents /\ snap \in Rows /\ snap.hashes \in Seq(Answers) BY <1>1, LoadedSlot
<1>3. Remember(snap.hashes, x) \in Seq(Answers) /\ NoRepeats(Remember(snap.hashes, x))
  BY <1>1, <1>2, RememberOK DEF Seen
<1>4. clock \in MaybeTimes /\ 0 \in 0..PivotLimit
  BY LimitsAssumption DEF TypeInv, TypeOK, MaybeTimes
<1> HIDE DEF snap
<1> DEFINE h == Remember(snap.hashes, x)
           new == [snap EXCEPT !.hashes = h, !.passedAt = clock, !.count = 0]
<1>5. new \in Rows /\ new.hashes = h /\ new.passedAt = clock /\ new.lastRead = snap.lastRead
  <2> HIDE DEF h
  <2>1. h \in Seq(Answers) BY <1>3 DEF h
  <2>2. QED BY <1>2, <1>4, <2>1 DEF Rows
<1>6. QED BY <1>1, <1>2, <1>3, <1>5 DEF snap

\* An accepted reply saves a row whose memory is well formed.
LEMMA TypeAccept ==
  ASSUME TypeInv, NEW r \in Requests, NEW x \in Answers, Accept(r, x),
         NoRepeats(req[r].snap.hashes)
  PROVE  TypeInv'
<1> DEFINE a == req[r].agent
           snap == req[r].snap
           new == [snap EXCEPT !.hashes = Remember(snap.hashes, x), !.passedAt = clock, !.count = 0]
           s == [req[r] EXCEPT !.pc = "gated", !.snap = None, !.evaluated = TRUE]
<1>1. a \in Agents /\ snap \in Rows /\ new \in Rows BY AcceptFacts
<1>2. row[a] \in Rows BY <1>1 DEF TypeInv, TypeOK
<1>3. row' \in [Agents -> Rows]
  <2>1. row' = [row EXCEPT ![a] = Save(row[a], snap, new)] BY DEF Accept
  <2> HIDE DEF a, snap, new
  <2>2. Save(row[a], snap, new) \in Rows BY <1>1, <1>2, SaveRow
  <2>3. QED BY <1>1, <2>1, <2>2, RowStep
<1>4. attempts' \in [Agents -> SUBSET AttemptRows]
  <2>1. Attempt("accepted", x, a) \in AttemptRows BY <1>1, AttemptRow DEF Outcomes
  <2>2. QED BY <1>1, <2>1, AttemptsStep DEF Accept
<1>5. req' \in [Requests -> Slots] /\ SlotsOK'
  <2>1. req' = [req EXCEPT ![r] = s] BY DEF Accept
  <2>2. req[r] \in Slots /\ req[r].path \in Paths
    BY LoadedSlot DEF TypeInv, TypeOK, Accept, Asked, FreshEnough, At
  <2>3. s \in Slots /\ s.pc = "gated" /\ s.agent = a /\ s.path = req[r].path
    BY <2>2 DEF Slots, Steps
  <2> HIDE DEF s, a
  <2>4. QED BY <1>1, <2>1, <2>2, <2>3, SlotStep
<1>6. streak' \in [Agents -> 0..(PivotLimit + 1)] BY <1>1, StreakStep DEF Accept
<1>7. lastPass' \in [Agents -> MaybeTimes]
  BY <1>1 DEF Accept, TypeInv, TypeOK, MaybeTimes
<1>8. UNCHANGED <<clock, settings, escalations, clearing>> BY DEF Accept
<1>9. QED BY <1>3, <1>4, <1>5, <1>6, <1>7, <1>8 DEF TypeInv, TypeOK, ClearingOK, settings

\* A pivot adds one to a count below the limit.
LEMMA TypePivot ==
  ASSUME TypeInv, NEW r \in Requests, NEW x \in Answers \cup {Short}, Pivot(r, x)
  PROVE  TypeInv'
<1> DEFINE a == req[r].agent
           snap == req[r].snap
           new == [snap EXCEPT !.count = snap.count + 1]
<1>1. req[r].pc = "unfrozen" BY DEF Pivot, BadReply, Asked, FreshEnough, At
<1>2. a \in Agents /\ snap \in Rows /\ snap.count \in 0..PivotLimit BY <1>1, LoadedSlot
<1>3. new \in Rows
  <2>1. snap.count < PivotLimit BY DEF Pivot, PivotsLeft
  <2>2. snap.count + 1 \in 0..PivotLimit BY <1>2, <2>1, LimitsAssumption
  <2> HIDE DEF snap
  <2>3. QED BY <1>2, <2>2 DEF Rows
<1>4. row' \in [Agents -> Rows]
  <2>1. row' = [row EXCEPT ![a] = Save(row[a], snap, new)] BY DEF Pivot
  <2>2. row[a] \in Rows BY <1>2 DEF TypeInv, TypeOK
  <2> HIDE DEF a, snap, new
  <2>3. Save(row[a], snap, new) \in Rows BY <1>2, <1>3, <2>2, SaveRow
  <2>4. QED BY <1>2, <2>1, <2>3, RowStep
<1>5. attempts' \in [Agents -> SUBSET AttemptRows]
  <2>1. OutcomeOf(x) \in Outcomes BY DEF OutcomeOf, Outcomes
  <2>2. Attempt(OutcomeOf(x), x, a) \in AttemptRows BY <1>2, <2>1, AttemptRow
  <2>3. QED BY <1>2, <2>2, AttemptsStep DEF Pivot
<1>6. req' \in [Requests -> Slots] /\ SlotsOK' BY LeaveStep DEF Pivot
<1>7. streak' \in [Agents -> 0..(PivotLimit + 1)] BY <1>2, StreakStep DEF Pivot
<1>8. UNCHANGED <<clock, settings, escalations, clearing, lastPass>> BY DEF Pivot
<1>9. QED BY <1>4, <1>5, <1>6, <1>7, <1>8 DEF TypeInv, TypeOK, ClearingOK, settings

\* An escalation appends a row and links attempts to it.
LEMMA TypeEscalate ==
  ASSUME TypeInv, NEW r \in Requests, NEW x \in Answers \cup {Short}, Escalate(r, x)
  PROVE  TypeInv'
<1> DEFINE a == req[r].agent
           e == Len(escalations) + 1
           row1 == [agent |-> a, task |-> TaskOfPath(req[r].path), open |-> TRUE]
           last == [Attempt("escalated", x, a) EXCEPT !.esc = e]
           rows == AttachFiring(attempts[a], req[r].snap.reads, e)
<1>1. req[r].pc = "unfrozen" BY DEF Escalate, BadReply, Asked, FreshEnough, At
<1>2. a \in Agents /\ req[r].path \in Paths BY <1>1, LoadedSlot
<1>3. escalations \in Seq(EscalationRows) /\ Len(escalations) \in Nat BY DEF TypeInv, TypeOK
<1>4. e \in 1..MaxEscalations BY <1>3, LimitsAssumption DEF Escalate
<1>5. row1 \in EscalationRows BY <1>2 DEF EscalationRows, TaskOfPath
<1>6. /\ escalations' = Append(escalations, row1)
      /\ escalations' \in Seq(EscalationRows) /\ Len(escalations') = e
      /\ DOMAIN escalations \subseteq DOMAIN escalations'
  <2>1. escalations' = Append(escalations, row1) BY DEF Escalate
  <2> HIDE DEF row1
  <2>2. QED BY <1>3, <1>5, <2>1
<1>7. attempts' \in [Agents -> SUBSET AttemptRows]
  <2>1. Attempt("escalated", x, a) \in AttemptRows BY <1>2, AttemptRow DEF Outcomes
  <2>2. last \in AttemptRows BY <1>4, <2>1 DEF AttemptRows
  <2>3. attempts[a] \subseteq AttemptRows BY <1>2 DEF TypeInv, TypeOK
  <2>4. rows \subseteq AttemptRows
    <3>1. \A t \in AttemptRows : \A n \in 0..MaxEscalations : [t EXCEPT !.esc = n] \in AttemptRows
      BY DEF AttemptRows
    <3>2. \A t \in AttemptRows : t.esc \in 0..MaxEscalations BY DEF AttemptRows
    <3>3. QED BY <1>4, <2>3, <3>1, <3>2 DEF AttachFiring
  <2>5. attempts' = [attempts EXCEPT ![a] = rows \cup {last}] BY DEF Escalate
  <2> HIDE DEF rows, last, a
  <2>6. QED BY <1>2, <2>2, <2>4, <2>5 DEF TypeInv, TypeOK
<1>8. req' \in [Requests -> Slots] /\ SlotsOK' BY LeaveStep DEF Escalate
<1>9. streak' \in [Agents -> 0..(PivotLimit + 1)] BY <1>2, StreakStep DEF Escalate
<1>10. ClearingOK'
  <2>1. e <= MaxEscalations BY <1>4
  <2>2. clearing' = clearing BY DEF Escalate
  <2>3. QED BY <1>6, <2>1, <2>2 DEF TypeInv, ClearingOK
<1>11. UNCHANGED <<clock, settings, row, clearing, lastPass>> BY DEF Escalate
<1>12. QED BY <1>6, <1>7, <1>8, <1>9, <1>10, <1>11 DEF TypeInv, TypeOK, settings

\* A human's clear picks an open escalation and loads its agent's row.
LEMMA TypeClearLoad ==
  ASSUME TypeInv, NEW t \in Tasks, ClearLoad(t)
  PROVE  TypeInv'
<1>1. PICK e \in OpenOn(t) : clearing' = [esc |-> e, snap |-> row[escalations[e].agent]]
  BY DEF ClearLoad
<1>2. e \in DOMAIN escalations /\ escalations \in Seq(EscalationRows)
  BY <1>1 DEF OpenOn, TypeInv, TypeOK
<1>3. escalations[e] \in EscalationRows /\ e \in 1..MaxEscalations
  BY <1>2, LimitsAssumption DEF TypeInv, ClearingOK
<1>4. row[escalations[e].agent] \in Rows BY <1>3 DEF EscalationRows, TypeInv, TypeOK
<1>5. clearing' \in [esc : 1..MaxEscalations, snap : Rows] /\ clearing'.esc = e
  BY <1>1, <1>3, <1>4
<1>6. UNCHANGED <<clock, settings, row, escalations, attempts, req, history>> BY DEF ClearLoad
<1>7. QED BY <1>2, <1>5, <1>6 DEF TypeInv, TypeOK, SlotsOK, ClearingOK, settings, history

\* The escalation a clear in progress ends, and the rows it works on.
LEMMA ClearFacts ==
  ASSUME TypeInv, clearing # None
  PROVE  /\ clearing.esc \in DOMAIN escalations /\ clearing.snap \in Rows
         /\ escalations[clearing.esc].agent \in Agents
         /\ [clearing.snap EXCEPT !.hashes = <<>>, !.count = 0, !.passedAt = None] \in Rows
<1>1. clearing \in [esc : 1..MaxEscalations, snap : Rows] BY DEF TypeInv, TypeOK
<1>2. clearing.esc \in DOMAIN escalations BY DEF TypeInv, ClearingOK
<1>3. escalations[clearing.esc] \in EscalationRows BY <1>2 DEF TypeInv, TypeOK
<1>4. <<>> \in Seq(Answers) /\ 0 \in 0..PivotLimit /\ None \in MaybeTimes
  BY LimitsAssumption DEF MaybeTimes
<1>5. [clearing.snap EXCEPT !.hashes = <<>>, !.count = 0, !.passedAt = None] \in Rows
  BY <1>1, <1>4 DEF Rows
<1>6. QED BY <1>1, <1>2, <1>3, <1>5 DEF EscalationRows

\* A human's clear ends the escalation and saves the agent's row.
LEMMA TypeClearCommit ==
  ASSUME TypeInv, ClearCommit
  PROVE  TypeInv'
<1> DEFINE e == clearing.esc
           a == escalations[e].agent
           new == [clearing.snap EXCEPT !.hashes = <<>>, !.count = 0, !.passedAt = None]
<1>1. clearing # None BY DEF ClearCommit
<1>2. e \in DOMAIN escalations /\ clearing.snap \in Rows /\ a \in Agents /\ new \in Rows
  BY <1>1, ClearFacts
<1>3. row' \in [Agents -> Rows]
  <2>1. row' = [row EXCEPT ![a] = Save(row[a], clearing.snap, new)] BY DEF ClearCommit
  <2>2. row[a] \in Rows BY <1>2 DEF TypeInv, TypeOK
  <2> HIDE DEF a, new
  <2>3. Save(row[a], clearing.snap, new) \in Rows BY <1>2, <2>2, SaveRow
  <2>4. QED BY <1>2, <2>1, <2>3, RowStep
<1>4. /\ escalations' \in Seq(EscalationRows)
      /\ Len(escalations') = Len(escalations)
  <2>1. escalations' = [escalations EXCEPT ![e] = [escalations[e] EXCEPT !.open = FALSE]]
    BY DEF ClearCommit
  <2>2. escalations \in Seq(EscalationRows) /\ escalations[e] \in EscalationRows
    BY <1>2 DEF TypeInv, TypeOK
  <2>3. [escalations[e] EXCEPT !.open = FALSE] \in EscalationRows BY <2>2 DEF EscalationRows
  <2> HIDE DEF e
  <2>4. QED BY <1>2, <2>1, <2>2, <2>3
<1>5. streak' \in [Agents -> 0..(PivotLimit + 1)] BY <1>2, StreakStep DEF ClearCommit
<1>6. UNCHANGED <<clock, settings, attempts, req, lastPass>> /\ clearing' = None
  BY DEF ClearCommit
<1>7. QED BY <1>3, <1>4, <1>5, <1>6 DEF TypeInv, TypeOK, SlotsOK, ClearingOK, settings

\* The other steps of humans, and of the clock.
LEMMA TypeSettings ==
  ASSUME TypeInv,
         ResetAll \/ Toggle \/ SetWindow \/ OnboardComplete \/ OnboardReset \/ Tick
  PROVE  TypeInv'
<1>1. CASE ResetAll
  <2>1. escalations \in Seq(EscalationRows) BY DEF TypeInv, TypeOK
  <2>2. \A e \in DOMAIN escalations : [escalations[e] EXCEPT !.open = FALSE] \in EscalationRows
    <3>1. \A e \in DOMAIN escalations : escalations[e] \in EscalationRows BY <2>1
    <3>2. QED BY <3>1 DEF EscalationRows
  <2>3. escalations' \in Seq(EscalationRows) /\ Len(escalations') = Len(escalations)
        /\ DOMAIN escalations' = DOMAIN escalations
    BY <1>1, <2>1, <2>2 DEF ResetAll
  <2>4. UNCHANGED <<clock, settings, row, attempts, req, clearing, history>>
    BY <1>1 DEF ResetAll
  <2>5. QED BY <2>3, <2>4 DEF TypeInv, TypeOK, SlotsOK, ClearingOK, settings, history
<1>2. CASE Toggle \/ SetWindow \/ OnboardComplete \/ OnboardReset
  <2>1. UNCHANGED <<clock, row, escalations, attempts, req, clearing, history>>
    BY <1>2 DEF Toggle, SetWindow, OnboardComplete, OnboardReset
  <2>2. gateOn' \in BOOLEAN /\ window' \in Windows /\ completedAt' \in MaybeTimes
    BY <1>2 DEF Toggle, SetWindow, OnboardComplete, OnboardReset, TypeInv, TypeOK, MaybeTimes
  <2>3. QED BY <2>1, <2>2 DEF TypeInv, TypeOK, SlotsOK, ClearingOK, history
<1>3. CASE Tick
  <2>1. clock' \in Times BY <1>3, LimitsAssumption DEF Tick, Times, TypeInv, TypeOK
  <2>2. UNCHANGED <<settings, row, escalations, attempts, req, clearing, history>>
    BY <1>3 DEF Tick
  <2>3. QED BY <2>1, <2>2 DEF TypeInv, TypeOK, SlotsOK, ClearingOK, settings, history
<1>4. QED BY <1>1, <1>2, <1>3

-----------------------------------------------------------------------------
(* The inductive invariant *)

Holding(r) == req[r].pc \in {"loaded", "unfrozen"}

\* The memory of replies is well formed in the rows and in the loaded copies.
HashInv ==
  /\ \A a \in Agents : NoRepeats(row[a].hashes)
  /\ \A r \in Requests : Holding(r) => NoRepeats(req[r].snap.hashes)

\* A row, or a copy of it, of agent a: its times are past, its pass was
\* accepted, and a contract read after the pass came within the grace.
RowFresh(n, a) ==
  /\ n.lastRead # None => n.lastRead <= clock
  /\ n.passedAt # None => /\ n.passedAt <= clock
                          /\ lastPass[a] # None /\ n.passedAt <= lastPass[a]
  /\ n.passedAt # None /\ n.lastRead # None => n.lastRead <= n.passedAt + PassGrace

\* While a request holds a copy of the row, the committed pass only changes
\* to none, or to one accepted in this tick.
FreshInv ==
  /\ \A a \in Agents : /\ RowFresh(row[a], a)
                       /\ lastPass[a] # None => lastPass[a] <= clock
  /\ \A r \in Requests : Holding(r) =>
       /\ RowFresh(req[r].snap, req[r].agent)
       /\ row[req[r].agent].passedAt \in {req[r].snap.passedAt, None, clock}
  /\ WriteNeedsFreshPass

GateInv == TypeInv /\ HashInv /\ FreshInv

PassRecent(p) == p # None /\ \E w \in Windows : clock <= p + w + PassGrace

\* Slots that keep their copy and their verdict, or drop the copy and, if
\* evaluated, belong to an agent whose pass is recent.
SlotsKeep(lp) ==
  \A q \in Requests :
    \/ /\ req'[q].agent = req[q].agent /\ req'[q].evaluated = req[q].evaluated
       /\ req'[q].pc \in {"loaded", "unfrozen"} => Holding(q) /\ req'[q].snap = req[q].snap
    \/ /\ req'[q].pc \notin {"loaded", "unfrozen"}
       /\ req'[q].evaluated => req'[q].agent \in Agents /\ PassRecent(lp[req'[q].agent])

\* A step that saves one fresh row, and gives no slot a copy.
LEMMA FreshStep ==
  ASSUME GateInv, TypeInv', clock' = clock,
         NEW a \in Agents, NEW n \in Rows, row' = [row EXCEPT ![a] = n],
         lastPass' = lastPass \/ lastPass' = [lastPass EXCEPT ![a] = clock],
         RowFresh(n, a)', n.passedAt \in {row[a].passedAt, None, clock},
         SlotsKeep(lastPass')
  PROVE  FreshInv'
<1>1. /\ row \in [Agents -> Rows] /\ lastPass \in [Agents -> MaybeTimes]
      /\ clock \in Nat /\ PassGrace \in Nat /\ Windows \subseteq Nat /\ Windows # {}
  BY LimitsAssumption DEF GateInv, TypeInv, TypeOK, Times
<1>3. ASSUME NEW b \in Agents
      PROVE  RowFresh(row[b], b)' /\ (lastPass[b] # None => lastPass[b] <= clock)'
  <2>1. CASE b = a
    <3>1. row'[b] = n /\ lastPass'[b] \in {lastPass[b], clock} BY <2>1, <1>1
    <3>2. QED BY <2>1, <3>1, <1>1 DEF GateInv, FreshInv, RowFresh
  <2>2. CASE b # a
    <3>1. row'[b] = row[b] /\ row[b] \in Rows /\ lastPass'[b] = lastPass[b] BY <2>2, <1>1
    <3>2. RowFresh(row[b], b) BY DEF GateInv, FreshInv
    <3>3. RowFresh(row[b], b)'
      BY <1>1, <3>1, <3>2 DEF RowFresh
    <3>4. QED BY <3>1, <3>3 DEF GateInv, FreshInv
  <2>3. QED BY <2>1, <2>2
<1>4. ASSUME NEW r \in Requests, Holding(r)'
      PROVE  /\ RowFresh(req[r].snap, req[r].agent)'
             /\ (row[req[r].agent].passedAt \in {req[r].snap.passedAt, None, clock})'
  <2>1. Holding(r) /\ req'[r].snap = req[r].snap /\ req'[r].agent = req[r].agent
    BY <1>4 DEF SlotsKeep, Holding
  <2>2. req[r].snap \in Rows /\ req[r].agent \in Agents
    BY <2>1, LoadedSlot DEF GateInv, Holding
  <2>3. RowFresh(req[r].snap, req[r].agent)
        /\ row[req[r].agent].passedAt \in {req[r].snap.passedAt, None, clock}
    BY <2>1 DEF GateInv, FreshInv
  <2>4. RowFresh(req[r].snap, req[r].agent)'
    <3>1. lastPass'[req[r].agent] \in {lastPass[req[r].agent], clock} BY <2>2, <1>1
    <3>2. clock # None BY <1>1, NamesAssumption
    <3>3. QED BY <1>1, <2>1, <2>2, <2>3, <3>1, <3>2 DEF RowFresh, Rows, MaybeTimes, Times
  <2>5. row'[req[r].agent].passedAt \in {req[r].snap.passedAt, None, clock}
    BY <1>1, <2>2, <2>3
  <2>6. QED BY <2>1, <2>4, <2>5
<1>5. WriteNeedsFreshPass'
  <2> SUFFICES ASSUME NEW r \in Requests, req'[r].evaluated
               PROVE  /\ lastPass'[req'[r].agent] # None
                      /\ \E w \in Windows : clock <= lastPass'[req'[r].agent] + w + PassGrace
    BY DEF WriteNeedsFreshPass
  <2>1. clock # None BY <1>1, NamesAssumption
  <2>2. CASE req'[r].agent = req[r].agent /\ req'[r].evaluated = req[r].evaluated
    <3>1. req[r].agent \in Agents BY <2>2 DEF GateInv, TypeInv, SlotsOK, TypeOK, Slots, Steps
    <3>2. lastPass'[req[r].agent] \in {lastPass[req[r].agent], clock} BY <3>1, <1>1
    <3>3. lastPass[req[r].agent] # None
          /\ \E w \in Windows : clock <= lastPass[req[r].agent] + w + PassGrace
      BY <2>2 DEF GateInv, FreshInv, WriteNeedsFreshPass
    <3>4. \A w \in Windows : clock <= clock + w + PassGrace BY <1>1
    <3>5. QED BY <1>1, <2>1, <2>2, <3>2, <3>3, <3>4
  <2>3. CASE PassRecent(lastPass'[req'[r].agent])
    BY <2>3 DEF PassRecent
  <2>4. QED BY <2>2, <2>3 DEF SlotsKeep
<1>6. QED BY <1>3, <1>4, <1>5 DEF FreshInv

\* A step of one request that leaves the rows alone.
LEMMA FreshSlotStep ==
  ASSUME GateInv, TypeInv', NEW r \in Requests, req[r].agent \in Agents,
         UNCHANGED <<clock, row, lastPass>>, SlotsKeep(lastPass')
  PROVE  FreshInv'
<1>1. PICK a \in Agents : a = req[r].agent OBVIOUS
<1>2. row \in [Agents -> Rows] BY DEF GateInv, TypeInv, TypeOK
<1>3. PICK n \in Rows : n = row[a] BY <1>2
<1>4. RowFresh(n, a) BY <1>3 DEF GateInv, FreshInv
<1>5. RowFresh(n, a)' BY <1>4 DEF RowFresh
<1>6. row' = [row EXCEPT ![a] = n] /\ n.passedAt \in {row[a].passedAt, None, clock}
  BY <1>2, <1>3
<1>7. QED BY <1>5, <1>6, FreshStep

\* A request that leaves drops its copy and its verdict.
LEMMA LeaveKeeps ==
  ASSUME TypeInv, NEW r \in Requests, Leave(r), NEW lp
  PROVE  SlotsKeep(lp)
BY IdleSlot DEF Leave, SlotsKeep, Holding, TypeInv, TypeOK, Idle

\* The steps that end a request without saving a row.
LEMMA FreshLeave ==
  ASSUME GateInv, TypeInv', NEW r \in Requests,
         RefuseFrozen(r) \/ RefuseStale(r) \/ RefuseOnboard(r) \/ Write(r) \/ Prompt(r)
           \/ \E x \in Answers \cup {Short} : Escalate(r, x)
  PROVE  FreshInv'
<1>1. Leave(r) /\ UNCHANGED <<clock, row, lastPass>> /\ req[r].pc # "idle"
  BY DEF RefuseFrozen, RefuseStale, RefuseOnboard, Write, Prompt, Escalate, BadReply, Asked,
         FreshEnough, At, history
<1>2. req[r].agent \in Agents BY <1>1 DEF GateInv, TypeInv, SlotsOK
<1>3. SlotsKeep(lastPass') BY <1>1, LeaveKeeps DEF GateInv
<1>4. QED BY <1>1, <1>2, <1>3, FreshSlotStep

\* The steps that move a request on without a verdict.
LEMMA FreshGoTo ==
  ASSUME GateInv, TypeInv', NEW r \in Requests, PassFreezeCheck(r) \/ Admit(r)
  PROVE  FreshInv'
<1>1. req \in [Requests -> Slots] BY DEF GateInv, TypeInv, TypeOK
<1>2. PICK pc \in {"unfrozen", "admitted"} : GoTo(r, pc) /\ (pc = "unfrozen" => req[r].pc = "loaded")
  BY DEF PassFreezeCheck, Admit, At
<1>3. UNCHANGED <<clock, row, lastPass>> /\ req[r].pc # "idle"
  BY DEF PassFreezeCheck, Admit, At, history
<1>4. req[r].agent \in Agents BY <1>3 DEF GateInv, TypeInv, SlotsOK
<1>5. SlotsKeep(lastPass') BY <1>1, <1>2 DEF SlotsKeep, GoTo, Holding, Slots
<1>6. QED BY <1>3, <1>4, <1>5, FreshSlotStep

\* The heart of the matter: the copy's pass was still good at the contract
\* read, and the contract read is still good now.
LEMMA FreshPassQuietly ==
  ASSUME GateInv, TypeInv', NEW r \in Requests, PassQuietly(r)
  PROVE  FreshInv'
<1> DEFINE a == req[r].agent
           snap == req[r].snap
<1>1. req[r].pc = "unfrozen" /\ ~ContractTooOld(snap)
      /\ (Evaluates(r) => snap.lastRead # None /\ snap.passedAt # None)
  BY DEF PassQuietly, FreshEnough, At, Evaluates
<1>2. a \in Agents /\ snap \in Rows /\ snap.passedAt \in MaybeTimes /\ snap.lastRead \in MaybeTimes
  BY <1>1, LoadedSlot DEF GateInv
<1>3. RowFresh(snap, a) BY <1>1 DEF GateInv, FreshInv, Holding
<1>4. clock \in Nat /\ PassGrace \in Nat /\ window \in Windows /\ Windows \subseteq Nat
      /\ lastPass[a] \in MaybeTimes
  BY <1>2, LimitsAssumption DEF GateInv, TypeInv, TypeOK, Times
<1>5. ASSUME Evaluates(r) PROVE PassRecent(lastPass[a])
  <2>1. snap.lastRead \in Nat /\ snap.passedAt \in Nat BY <1>1, <1>2, <1>5 DEF MaybeTimes, Times
  <2>2. clock <= snap.lastRead + window
    BY <1>1, <1>4, <1>5, <2>1 DEF ContractTooOld
  <2>3. snap.lastRead <= snap.passedAt + PassGrace /\ lastPass[a] # None /\ snap.passedAt <= lastPass[a]
    BY <1>1, <1>3, <1>5 DEF RowFresh
  <2>4. lastPass[a] \in Nat BY <1>4, <2>3 DEF MaybeTimes, Times
  <2>5. clock <= lastPass[a] + window + PassGrace BY <1>4, <2>1, <2>2, <2>3, <2>4
  <2>6. QED BY <1>4, <2>3, <2>5 DEF PassRecent
<1>6. UNCHANGED <<clock, row, lastPass>> BY DEF PassQuietly, history
<1>7. SlotsKeep(lastPass')
  <2>1. req' = [req EXCEPT ![r] = [@ EXCEPT !.pc = "gated", !.snap = None, !.evaluated = Evaluates(r)]]
    BY DEF PassQuietly
  <2>2. req \in [Requests -> Slots] BY DEF GateInv, TypeInv, TypeOK
  <2>3. req'[r].pc = "gated" /\ req'[r].evaluated = Evaluates(r) /\ req'[r].agent = a
    BY <2>1, <2>2 DEF Slots
  <2>4. \A q \in Requests \ {r} : req'[q] = req[q] BY <2>1, <2>2
  <2>5. QED BY <1>2, <1>5, <1>6, <2>3, <2>4 DEF SlotsKeep, Holding
<1>8. QED BY <1>2, <1>6, <1>7, FreshSlotStep

\* A copy of a fresh row is fresh.
LEMMA FreshArrive ==
  ASSUME GateInv, TypeInv', NEW r \in Requests, NEW a \in Agents, NEW p \in Paths,
         Arrive(r, a, p)
  PROVE  FreshInv'
<1>1. /\ UNCHANGED <<clock, row, lastPass>>
      /\ req' = [req EXCEPT ![r] = [pc |-> "loaded", agent |-> a, path |-> p,
                                    snap |-> row[a], evaluated |-> FALSE]]
  BY DEF Arrive, history
<1>2. req \in [Requests -> Slots] BY DEF GateInv, TypeInv, TypeOK
<1>3. /\ req'[r].pc = "loaded" /\ req'[r].agent = a /\ req'[r].snap = row[a]
      /\ req'[r].evaluated = FALSE
      /\ \A q \in Requests \ {r} : req'[q] = req[q]
  BY <1>1, <1>2
<1>4. \A b \in Agents : RowFresh(row[b], b) /\ (lastPass[b] # None => lastPass[b] <= clock)
  BY DEF GateInv, FreshInv
<1>5. \A b \in Agents : /\ RowFresh(row[b], b)'
                        /\ (lastPass[b] # None => lastPass[b] <= clock)'
  BY <1>1, <1>4 DEF RowFresh
<1>6. ASSUME NEW q \in Requests, Holding(q)'
      PROVE  /\ RowFresh(req[q].snap, req[q].agent)'
             /\ (row[req[q].agent].passedAt \in {req[q].snap.passedAt, None, clock})'
  <2>1. CASE q = r BY <2>1, <1>1, <1>3, <1>4 DEF RowFresh
  <2>2. CASE q # r
    <3>1. req'[q] = req[q] /\ Holding(q) BY <1>3, <1>6, <2>2 DEF Holding
    <3>2. /\ RowFresh(req[q].snap, req[q].agent)
          /\ row[req[q].agent].passedAt \in {req[q].snap.passedAt, None, clock}
      BY <3>1 DEF GateInv, FreshInv
    <3>3. QED BY <1>1, <3>1, <3>2 DEF RowFresh
  <2>3. QED BY <2>1, <2>2
<1>7. WriteNeedsFreshPass' BY <1>1, <1>3 DEF GateInv, FreshInv, WriteNeedsFreshPass
<1>8. QED BY <1>5, <1>6, <1>7 DEF FreshInv

\* A contract read keeps a recent pass and drops a stale one.
LEMMA FreshRefresh ==
  ASSUME GateInv, TypeInv', NEW r \in Requests, Refresh(r)
  PROVE  FreshInv'
<1>1. req[r].pc = "loaded" BY DEF Refresh
<1>2. PICK a \in Agents, snap \in Rows : a = req[r].agent /\ snap = req[r].snap
  BY <1>1, LoadedSlot DEF GateInv
<1> DEFINE p == IF PassExpired(snap) THEN None ELSE snap.passedAt
           new == [snap EXCEPT !.lastRead = clock, !.count = 0, !.passedAt = p]
           saved == [Save(row[a], snap, new) EXCEPT !.reads = row[a].reads + 1]
<1>3. clock \in Nat /\ PassGrace \in Nat /\ clock \in MaybeTimes /\ row[a] \in Rows
      /\ None \notin Nat /\ lastPass[a] \in MaybeTimes
  BY LimitsAssumption, NamesAssumption DEF GateInv, TypeInv, TypeOK, Times, MaybeTimes
<1>4. p \in MaybeTimes BY DEF Rows, MaybeTimes
<1>5. new \in Rows /\ new.lastRead = clock /\ new.passedAt = p
  <2> HIDE DEF p
  <2>1. 0 \in 0..PivotLimit BY LimitsAssumption
  <2>2. QED BY <1>3, <1>4, <2>1 DEF Rows
<1>6. row' = [row EXCEPT ![a] = saved] /\ UNCHANGED <<clock, lastPass>> /\ Leave(r)
  BY <1>2 DEF Refresh
<1>7. /\ Save(row[a], snap, new) \in Rows
      /\ Save(row[a], snap, new).passedAt = IF p = snap.passedAt THEN row[a].passedAt ELSE p
      /\ Save(row[a], snap, new).lastRead = IF clock = snap.lastRead THEN row[a].lastRead ELSE clock
  <2> HIDE DEF new
  <2>1. QED BY <1>3, <1>5, SaveRow
<1> DEFINE n == row'[a]
<1>8. /\ n \in Rows
      /\ n.passedAt = IF p = snap.passedAt THEN row[a].passedAt ELSE p
      /\ n.lastRead = IF clock = snap.lastRead THEN row[a].lastRead ELSE clock
  <2>1. n \in Rows BY DEF TypeInv, TypeOK
  <2>2. row \in [Agents -> Rows] BY DEF GateInv, TypeInv, TypeOK
  <2>3. n = saved BY <1>6, <2>2
  <2>4. saved.passedAt = Save(row[a], snap, new).passedAt
        /\ saved.lastRead = Save(row[a], snap, new).lastRead
    BY <1>7 DEF Rows
  <2>5. QED BY <1>7, <2>1, <2>3, <2>4
<1>9. /\ RowFresh(snap, a) /\ RowFresh(row[a], a)
      /\ row[a].passedAt \in {snap.passedAt, None, clock}
  BY <1>1, <1>2 DEF GateInv, FreshInv, Holding
<1>10. row' = [row EXCEPT ![a] = n] BY <1>6
<1> HIDE DEF new, saved, n
<1>11. PICK m \in Rows : m = n BY <1>8
<1>12. RowFresh(m, a)
  <2>1. m.lastRead # None => m.lastRead <= clock
    BY <1>3, <1>8, <1>9, <1>11 DEF RowFresh, Rows, MaybeTimes, Times
  <2>2. m.passedAt # None => m.passedAt = row[a].passedAt /\ p = snap.passedAt
    BY <1>8, <1>11
  <2>3. m.passedAt # None /\ m.lastRead # None => m.lastRead <= m.passedAt + PassGrace
    <3> SUFFICES ASSUME m.passedAt # None, m.lastRead # None
                 PROVE  m.lastRead <= m.passedAt + PassGrace
      OBVIOUS
    <3>1. m.passedAt \in Nat /\ m.lastRead \in Nat BY DEF Rows, MaybeTimes, Times
    <3>2. m.passedAt = clock \/ m.passedAt = snap.passedAt BY <1>9, <2>2
    <3>3. CASE m.passedAt = clock BY <1>3, <2>1, <3>1, <3>3
    <3>4. CASE m.passedAt = snap.passedAt
      <4>1. ~(clock - snap.passedAt > PassGrace) BY <2>2, <3>4, <3>1 DEF PassExpired
      <4>2. QED BY <1>3, <2>1, <3>1, <3>4, <4>1
    <3>5. QED BY <3>2, <3>3, <3>4
  <2>4. m.passedAt # None => m.passedAt <= clock /\ lastPass[a] # None /\ m.passedAt <= lastPass[a]
    BY <1>9, <2>2 DEF RowFresh
  <2>5. QED BY <2>1, <2>3, <2>4 DEF RowFresh
<1>13. RowFresh(m, a)' BY <1>6, <1>12 DEF RowFresh
<1>14. m.passedAt \in {row[a].passedAt, None, clock} BY <1>8, <1>11, <1>9
<1>15. SlotsKeep(lastPass') BY <1>6, LeaveKeeps DEF GateInv
<1>16. QED BY <1>6, <1>10, <1>11, <1>13, <1>14, <1>15, FreshStep

\* An accepted reply is a pass of this very tick.
LEMMA FreshAccept ==
  ASSUME GateInv, TypeInv', NEW r \in Requests, NEW x \in Answers, Accept(r, x)
  PROVE  FreshInv'
<1>1. req[r].pc = "unfrozen" BY DEF Accept, Asked, FreshEnough, At
<1>2. PICK a \in Agents, snap \in Rows : a = req[r].agent /\ snap = req[r].snap
  BY <1>1, LoadedSlot DEF GateInv
<1>3. NoRepeats(req[r].snap.hashes) BY <1>1 DEF GateInv, HashInv, Holding
<1> DEFINE new == [snap EXCEPT !.hashes = Remember(snap.hashes, x), !.passedAt = clock, !.count = 0]
<1>4. new \in Rows /\ new.passedAt = clock /\ new.lastRead = snap.lastRead /\ snap.passedAt = None
  BY <1>2, <1>3, AcceptFacts DEF GateInv
<1>5. /\ clock \in Nat /\ PassGrace \in Nat /\ clock # None /\ row[a] \in Rows
      /\ Windows \subseteq Nat /\ Windows # {}
      /\ row \in [Agents -> Rows] /\ req \in [Requests -> Slots]
      /\ lastPass \in [Agents -> MaybeTimes]
  BY LimitsAssumption, NamesAssumption DEF GateInv, TypeInv, TypeOK, Times
<1>6. /\ row' = [row EXCEPT ![a] = Save(row[a], snap, new)]
      /\ lastPass' = [lastPass EXCEPT ![a] = clock] /\ clock' = clock
      /\ req' = [req EXCEPT ![r] = [@ EXCEPT !.pc = "gated", !.snap = None, !.evaluated = TRUE]]
  BY <1>2 DEF Accept
<1> HIDE DEF new
<1>7. PICK n \in Rows : n = Save(row[a], snap, new) BY <1>4, <1>5, SaveRow
<1>8. n.passedAt = clock /\ n.lastRead = row[a].lastRead
  BY <1>4, <1>5, <1>7, SaveRow
<1>9. RowFresh(row[a], a) BY DEF GateInv, FreshInv
<1>10. RowFresh(n, a)'
  BY <1>5, <1>6, <1>8, <1>9 DEF RowFresh, Rows, MaybeTimes, Times
<1>11. SlotsKeep(lastPass')
  <2>1. PassRecent(lastPass'[a]) BY <1>5, <1>6 DEF PassRecent
  <2>2. req'[r].pc = "gated" /\ req'[r].agent = a BY <1>2, <1>5, <1>6 DEF Slots
  <2>3. \A q \in Requests \ {r} : req'[q] = req[q] BY <1>5, <1>6
  <2>4. QED BY <2>1, <2>2, <2>3 DEF SlotsKeep, Holding
<1>12. row' = [row EXCEPT ![a] = n] BY <1>6, <1>7
<1>13. n.passedAt \in {row[a].passedAt, None, clock} BY <1>8
<1>14. QED BY <1>6, <1>10, <1>11, <1>12, <1>13, FreshStep

\* A pivot writes the pivot count only.
LEMMA FreshPivot ==
  ASSUME GateInv, TypeInv', NEW r \in Requests, NEW x \in Answers \cup {Short}, Pivot(r, x)
  PROVE  FreshInv'
<1>1. req[r].pc = "unfrozen" BY DEF Pivot, BadReply, Asked, FreshEnough, At
<1>2. PICK a \in Agents, snap \in Rows : a = req[r].agent /\ snap = req[r].snap
  BY <1>1, LoadedSlot DEF GateInv
<1> DEFINE new == [snap EXCEPT !.count = snap.count + 1]
<1>3. row[a] \in Rows /\ row \in [Agents -> Rows] BY DEF GateInv, TypeInv, TypeOK
<1>4. new \in Rows /\ new.passedAt = snap.passedAt /\ new.lastRead = snap.lastRead
  <2>1. snap.count < PivotLimit BY <1>2 DEF Pivot, PivotsLeft
  <2>2. snap.count + 1 \in 0..PivotLimit BY <2>1, LimitsAssumption DEF Rows
  <2>3. QED BY <2>2 DEF Rows
<1>5. /\ row' = [row EXCEPT ![a] = Save(row[a], snap, new)]
      /\ UNCHANGED <<clock, lastPass>> /\ Leave(r)
  BY <1>2 DEF Pivot
<1> HIDE DEF new
<1>6. PICK n \in Rows : n = Save(row[a], snap, new) BY <1>3, <1>4, SaveRow
<1>7. n.passedAt = row[a].passedAt /\ n.lastRead = row[a].lastRead
  BY <1>3, <1>4, <1>6, SaveRow
<1>8. RowFresh(n, a)' BY <1>5, <1>7 DEF RowFresh, GateInv, FreshInv
<1>9. SlotsKeep(lastPass') BY <1>5, LeaveKeeps DEF GateInv
<1>10. row' = [row EXCEPT ![a] = n] BY <1>5, <1>6
<1>11. n.passedAt \in {row[a].passedAt, None, clock} BY <1>7
<1>12. QED BY <1>5, <1>8, <1>9, <1>10, <1>11, FreshStep

\* A human's clear forgets the pass, or keeps the committed one.
LEMMA FreshClearCommit ==
  ASSUME GateInv, TypeInv', ClearCommit
  PROVE  FreshInv'
<1>1. clearing # None BY DEF ClearCommit
<1>2. PICK a \in Agents, snap \in Rows :
        a = escalations[clearing.esc].agent /\ snap = clearing.snap
  BY <1>1, ClearFacts DEF GateInv
<1> DEFINE new == [snap EXCEPT !.hashes = <<>>, !.count = 0, !.passedAt = None]
<1>3. row[a] \in Rows /\ row \in [Agents -> Rows] BY DEF GateInv, TypeInv, TypeOK
<1>4. new \in Rows /\ new.passedAt = None /\ new.lastRead = snap.lastRead
  BY <1>1, <1>2, ClearFacts DEF GateInv, Rows
<1>5. /\ row' = [row EXCEPT ![a] = Save(row[a], snap, new)]
      /\ UNCHANGED <<clock, lastPass, req>>
  BY <1>2 DEF ClearCommit
<1> HIDE DEF new
<1>6. PICK n \in Rows : n = Save(row[a], snap, new) BY <1>3, <1>4, SaveRow
<1>7. n.passedAt \in {row[a].passedAt, None} /\ n.lastRead = row[a].lastRead
  BY <1>3, <1>4, <1>6, SaveRow
<1>8. RowFresh(n, a)' BY <1>5, <1>7 DEF RowFresh, GateInv, FreshInv
<1>9. SlotsKeep(lastPass') BY <1>5 DEF SlotsKeep, Holding
<1>10. row' = [row EXCEPT ![a] = n] BY <1>5, <1>6
<1>11. n.passedAt \in {row[a].passedAt, None, clock} BY <1>7
<1>12. QED BY <1>5, <1>8, <1>9, <1>10, <1>11, FreshStep

\* What leaves rows, slots, passes and the clock alone leaves FreshInv alone.
LEMMA FreshUnchanged ==
  ASSUME FreshInv, UNCHANGED <<clock, row, req, lastPass>>
  PROVE  FreshInv'
BY DEF FreshInv, RowFresh, Holding, WriteNeedsFreshPass

\* The clock advances only while no request holds a copy or a verdict.
LEMMA FreshTick ==
  ASSUME GateInv, TypeInv', Tick
  PROVE  FreshInv'
<1>1. /\ clock' = clock + 1 /\ UNCHANGED <<row, req, lastPass>>
      /\ \A r \in Requests : req[r].pc = "idle"
  BY DEF Tick, Quiet, history
<1>2. clock \in Nat /\ row \in [Agents -> Rows] /\ lastPass \in [Agents -> MaybeTimes]
  BY DEF GateInv, TypeInv, TypeOK, Times
<1>3. ASSUME NEW a \in Agents
      PROVE  RowFresh(row[a], a)' /\ (lastPass[a] # None => lastPass[a] <= clock)'
  <2>1. RowFresh(row[a], a) /\ (lastPass[a] # None => lastPass[a] <= clock)
    BY DEF GateInv, FreshInv
  <2>2. row[a] \in Rows /\ lastPass[a] \in MaybeTimes BY <1>2
  <2>3. row[a].passedAt \in MaybeTimes /\ row[a].lastRead \in MaybeTimes BY <2>2 DEF Rows
  <2>4. QED BY <1>1, <1>2, <2>1, <2>2, <2>3 DEF RowFresh, MaybeTimes, Times
<1>4. \A r \in Requests : ~Holding(r)' BY <1>1 DEF Holding
<1>5. \A r \in Requests : ~req'[r].evaluated BY <1>1 DEF GateInv, TypeInv, SlotsOK
<1>6. QED BY <1>3, <1>4, <1>5 DEF FreshInv, WriteNeedsFreshPass

-----------------------------------------------------------------------------
(* The memory of replies *)

\* A step that gives one row a well-formed memory, and no slot a new copy.
LEMMA HashStep ==
  ASSUME TypeInv, HashInv, NEW a \in Agents, NEW n \in Rows, row' = [row EXCEPT ![a] = n],
         NoRepeats(n.hashes),
         \A q \in Requests : Holding(q)' => Holding(q) /\ req'[q].snap = req[q].snap
  PROVE  HashInv'
<1>1. row \in [Agents -> Rows] BY DEF TypeInv, TypeOK
<1>2. ASSUME NEW b \in Agents PROVE NoRepeats(row'[b].hashes)
  <2>1. CASE b = a BY <1>1, <2>1
  <2>2. CASE b # a
    <3>1. row'[b] = row[b] BY <1>1, <2>2
    <3>2. QED BY <3>1 DEF HashInv
  <2>3. QED BY <2>1, <2>2
<1>3. \A r \in Requests : Holding(r)' => NoRepeats(req'[r].snap.hashes)
  BY DEF HashInv
<1>4. QED BY <1>2, <1>3 DEF HashInv, NoRepeats

\* Saving a memory that is well formed over one that is.
LEMMA SaveHashes ==
  ASSUME NEW cur \in Rows, NEW old \in Rows, NEW new \in Rows,
         NoRepeats(cur.hashes), NoRepeats(new.hashes)
  PROVE  NoRepeats(Save(cur, old, new).hashes)
BY SaveRow

\* A request that leaves holds no copy any more.
LEMMA LeaveHolds ==
  ASSUME TypeInv, NEW r \in Requests, Leave(r)
  PROVE  \A q \in Requests : Holding(q)' => Holding(q) /\ req'[q].snap = req[q].snap
BY IdleSlot DEF Leave, Holding, TypeInv, TypeOK

\* The steps of a request that leave the rows alone.
LEMMA HashQuiet ==
  ASSUME GateInv, NEW r \in Requests,
         \/ RefuseFrozen(r) \/ RefuseStale(r) \/ RefuseOnboard(r) \/ Write(r) \/ Prompt(r)
         \/ \E x \in Answers \cup {Short} : Escalate(r, x)
         \/ PassFreezeCheck(r) \/ PassQuietly(r) \/ Admit(r)
         \/ \E a \in Agents, p \in Paths : Arrive(r, a, p)
  PROVE  HashInv'
<1>1. req \in [Requests -> Slots] /\ row' = row
  BY DEF RefuseFrozen, RefuseStale, RefuseOnboard, Write, Prompt, Escalate, PassFreezeCheck,
         PassQuietly, Admit, Arrive, GateInv, TypeInv, TypeOK
<1>2. ASSUME NEW q \in Requests, Holding(q)'
      PROVE  \/ Holding(q) /\ req'[q].snap = req[q].snap
             \/ \E a \in Agents : req'[q].snap = row[a]
  <2>1. CASE Leave(r) BY <1>2, <2>1, LeaveHolds DEF GateInv
  <2>2. CASE PassFreezeCheck(r)
    <3>1. req' = [req EXCEPT ![r].pc = "unfrozen"] /\ req[r].pc = "loaded"
      BY <2>2 DEF PassFreezeCheck, GoTo, At
    <3>2. QED BY <1>1, <1>2, <3>1 DEF Holding, Slots
  <2>3. CASE PassQuietly(r) \/ Admit(r)
    <3>1. /\ \A z \in Requests \ {r} : req'[z] = req[z]
          /\ req'[r].pc \in {"gated", "admitted"}
      BY <1>1, <2>3 DEF PassQuietly, Admit, GoTo, Slots
    <3>2. QED BY <1>2, <3>1 DEF Holding
  <2>4. ASSUME NEW a \in Agents, NEW p \in Paths, Arrive(r, a, p)
        PROVE  \/ Holding(q) /\ req'[q].snap = req[q].snap
               \/ req'[q].snap = row[a]
    <3>1. req' = [req EXCEPT ![r] = [pc |-> "loaded", agent |-> a, path |-> p,
                                     snap |-> row[a], evaluated |-> FALSE]]
      BY <2>4 DEF Arrive
    <3>2. req'[r].snap = row[a] /\ \A z \in Requests \ {r} : req'[z] = req[z]
      BY <1>1, <3>1
    <3>3. QED BY <1>2, <3>2 DEF Holding
  <2>5. QED BY <2>1, <2>2, <2>3, <2>4 DEF RefuseFrozen, RefuseStale, RefuseOnboard, Write,
                                          Prompt, Escalate
<1>3. ASSUME NEW q \in Requests, Holding(q)' PROVE NoRepeats(req'[q].snap.hashes)
  BY <1>2, <1>3 DEF GateInv, HashInv
<1>4. \A a \in Agents : NoRepeats(row'[a].hashes) BY <1>1 DEF GateInv, HashInv
<1>5. QED BY <1>3, <1>4 DEF HashInv, NoRepeats

\* The steps that save a row: a refresh and a pivot leave the memory alone,
\* an accepted reply extends the copy's, and a clear empties it.
LEMMA HashRefresh ==
  ASSUME GateInv, TypeInv', NEW r \in Requests, Refresh(r)
  PROVE  HashInv'
<1>1. req[r].pc = "loaded" /\ Leave(r) BY DEF Refresh
<1>2. PICK a \in Agents, snap \in Rows : a = req[r].agent /\ snap = req[r].snap
  BY <1>1, LoadedSlot DEF GateInv
<1> DEFINE p == IF PassExpired(snap) THEN None ELSE snap.passedAt
           new == [snap EXCEPT !.lastRead = clock, !.count = 0, !.passedAt = p]
           saved == [Save(row[a], snap, new) EXCEPT !.reads = row[a].reads + 1]
<1>3. row \in [Agents -> Rows] /\ clock \in MaybeTimes /\ 0 \in 0..PivotLimit
  BY LimitsAssumption DEF GateInv, TypeInv, TypeOK, MaybeTimes
<1>4. new \in Rows /\ new.hashes = snap.hashes
  <2>1. p \in MaybeTimes BY DEF Rows, MaybeTimes
  <2> HIDE DEF p
  <2>2. QED BY <1>3, <2>1 DEF Rows
<1>5. NoRepeats(snap.hashes) /\ NoRepeats(row[a].hashes)
  BY <1>1, <1>2 DEF GateInv, HashInv, Holding
<1>6. row' = [row EXCEPT ![a] = saved] BY <1>2 DEF Refresh
<1> HIDE DEF new
<1>7. Save(row[a], snap, new) \in Rows /\ NoRepeats(Save(row[a], snap, new).hashes)
  BY <1>3, <1>4, <1>5, SaveRow, SaveHashes
<1>8. saved.hashes = Save(row[a], snap, new).hashes BY <1>7 DEF Rows
<1>9. saved \in Rows
  <2>1. row' \in [Agents -> Rows] BY DEF TypeInv, TypeOK
  <2>2. row'[a] = saved BY <1>3, <1>6
  <2>3. QED BY <2>1, <2>2
<1> HIDE DEF saved
<1>10. NoRepeats(saved.hashes) BY <1>7, <1>8
<1>11. QED BY <1>1, <1>6, <1>9, <1>10, LeaveHolds, HashStep DEF GateInv

\* A pivot leaves the memory alone.
LEMMA HashPivot ==
  ASSUME GateInv, NEW r \in Requests, NEW x \in Answers \cup {Short}, Pivot(r, x)
  PROVE  HashInv'
<1>1. req[r].pc = "unfrozen" /\ Leave(r) BY DEF Pivot, BadReply, Asked, FreshEnough, At
<1>2. PICK a \in Agents, snap \in Rows : a = req[r].agent /\ snap = req[r].snap
  BY <1>1, LoadedSlot DEF GateInv
<1> DEFINE new == [snap EXCEPT !.count = snap.count + 1]
<1>3. row \in [Agents -> Rows] BY DEF GateInv, TypeInv, TypeOK
<1>4. new \in Rows /\ new.hashes = snap.hashes
  <2>1. snap.count < PivotLimit BY <1>2 DEF Pivot, PivotsLeft
  <2>2. snap.count + 1 \in 0..PivotLimit BY <2>1, LimitsAssumption DEF Rows
  <2>3. QED BY <2>2 DEF Rows
<1>5. NoRepeats(snap.hashes) /\ NoRepeats(row[a].hashes)
  BY <1>1, <1>2 DEF GateInv, HashInv, Holding
<1>6. row' = [row EXCEPT ![a] = Save(row[a], snap, new)] BY <1>2 DEF Pivot
<1> HIDE DEF new
<1>7. Save(row[a], snap, new) \in Rows /\ NoRepeats(Save(row[a], snap, new).hashes)
  BY <1>3, <1>4, <1>5, SaveRow, SaveHashes
<1>8. QED BY <1>1, <1>6, <1>7, LeaveHolds, HashStep DEF GateInv

\* An accepted reply extends the copy's memory.
LEMMA HashAccept ==
  ASSUME GateInv, NEW r \in Requests, NEW x \in Answers, Accept(r, x)
  PROVE  HashInv'
<1>1. req[r].pc = "unfrozen" BY DEF Accept, Asked, FreshEnough, At
<1>2. PICK a \in Agents, snap \in Rows : a = req[r].agent /\ snap = req[r].snap
  BY <1>1, LoadedSlot DEF GateInv
<1>3. NoRepeats(req[r].snap.hashes) /\ NoRepeats(row[a].hashes)
  BY <1>1 DEF GateInv, HashInv, Holding
<1> DEFINE new == [snap EXCEPT !.hashes = Remember(snap.hashes, x), !.passedAt = clock, !.count = 0]
<1>4. new \in Rows /\ NoRepeats(new.hashes) BY <1>2, <1>3, AcceptFacts DEF GateInv
<1>5. /\ row' = [row EXCEPT ![a] = Save(row[a], snap, new)]
      /\ req' = [req EXCEPT ![r] = [@ EXCEPT !.pc = "gated", !.snap = None, !.evaluated = TRUE]]
  BY <1>2 DEF Accept
<1>6. row \in [Agents -> Rows] /\ req \in [Requests -> Slots]
  BY DEF GateInv, TypeInv, TypeOK
<1> HIDE DEF new
<1>7. Save(row[a], snap, new) \in Rows /\ NoRepeats(Save(row[a], snap, new).hashes)
  BY <1>3, <1>4, <1>6, SaveRow, SaveHashes
<1>8. \A q \in Requests : Holding(q)' => Holding(q) /\ req'[q].snap = req[q].snap
  BY <1>5, <1>6 DEF Holding, Slots
<1>9. QED BY <1>5, <1>7, <1>8, HashStep DEF GateInv

\* A human's clear empties the memory.
LEMMA HashClear ==
  ASSUME GateInv, ClearCommit
  PROVE  HashInv'
<1>1. clearing # None BY DEF ClearCommit
<1>2. PICK a \in Agents, snap \in Rows :
        a = escalations[clearing.esc].agent /\ snap = clearing.snap
  BY <1>1, ClearFacts DEF GateInv
<1> DEFINE new == [snap EXCEPT !.hashes = <<>>, !.count = 0, !.passedAt = None]
<1>3. row \in [Agents -> Rows] BY DEF GateInv, TypeInv, TypeOK
<1>4. new \in Rows /\ new.hashes = <<>> BY <1>1, <1>2, ClearFacts DEF GateInv, Rows
<1>5. NoRepeats(<<>>) BY LimitsAssumption DEF NoRepeats
<1>6. NoRepeats(row[a].hashes) BY DEF GateInv, HashInv
<1>7. row' = [row EXCEPT ![a] = Save(row[a], snap, new)] /\ req' = req
  BY <1>2 DEF ClearCommit
<1> HIDE DEF new
<1>8. Save(row[a], snap, new) \in Rows /\ NoRepeats(Save(row[a], snap, new).hashes)
  BY <1>3, <1>4, <1>5, <1>6, SaveRow, SaveHashes
<1>9. QED BY <1>7, <1>8, HashStep DEF GateInv, Holding

-----------------------------------------------------------------------------
(* The theorems *)

\* The inductive invariant holds initially ...
LEMMA GateInit == Init => GateInv
<1> SUFFICES ASSUME Init PROVE GateInv OBVIOUS
<1>1. TypeInv BY TypeInit
<1>2. \A a \in Agents : row[a] = FreshRow /\ lastPass[a] = None
  BY DEF Init
<1>3. \A r \in Requests : req[r] = Idle BY DEF Init
<1>4. HashInv
  BY <1>2, <1>3, LimitsAssumption DEF HashInv, Holding, FreshRow, Idle, NoRepeats
<1>5. FreshInv
  BY <1>2, <1>3 DEF FreshInv, Holding, FreshRow, Idle, RowFresh, WriteNeedsFreshPass
<1>6. QED BY <1>1, <1>4, <1>5 DEF GateInv

\* ... and every step keeps it.
LEMMA GateNext == GateInv /\ [Next]_vars => GateInv'
<1> SUFFICES ASSUME GateInv, [Next]_vars PROVE GateInv' OBVIOUS
<1> USE DEF GateInv
<1>1. ASSUME NEW r \in Requests, RequestStep(r) PROVE GateInv'
  <2>1. ASSUME NEW a \in Agents, NEW p \in Paths, Arrive(r, a, p) PROVE GateInv'
    BY <2>1, TypeArrive, HashQuiet, FreshArrive
  <2>2. CASE Refresh(r) BY <2>2, TypeRefresh, HashRefresh, FreshRefresh
  <2>3. CASE RefuseFrozen(r) \/ RefuseStale(r) \/ RefuseOnboard(r) \/ Write(r)
    BY <2>3, TypeLeave, HashQuiet, FreshLeave
  <2>4. CASE PassFreezeCheck(r) \/ Admit(r) BY <2>4, TypeGoTo, HashQuiet, FreshGoTo
  <2>5. CASE PassQuietly(r) BY <2>5, TypeGoTo, HashQuiet, FreshPassQuietly
  <2>6. CASE Prompt(r) BY <2>6, TypePrompt, HashQuiet, FreshLeave
  <2>7. ASSUME NEW x \in Answers, Accept(r, x) PROVE GateInv'
    <3>1. NoRepeats(req[r].snap.hashes)
      BY <2>7 DEF HashInv, Holding, Accept, Asked, FreshEnough, At
    <3>2. TypeInv' BY <2>7, <3>1, TypeAccept
    <3>3. QED BY <2>7, <3>2, HashAccept, FreshAccept
  <2>8. ASSUME NEW x \in Answers \cup {Short}, Pivot(r, x) PROVE GateInv'
    BY <2>8, TypePivot, HashPivot, FreshPivot
  <2>9. ASSUME NEW x \in Answers \cup {Short}, Escalate(r, x) PROVE GateInv'
    BY <2>9, TypeEscalate, HashQuiet, FreshLeave
  <2>10. QED BY <1>1, <2>1, <2>2, <2>3, <2>4, <2>5, <2>6, <2>7, <2>8, <2>9
            DEF RequestStep, Evaluate
<1>2. CASE HumanStep \/ Tick
  <2>1. ASSUME NEW t \in Tasks, ClearLoad(t) PROVE GateInv'
    <3>1. UNCHANGED <<clock, row, req, lastPass>> BY <2>1 DEF ClearLoad, history
    <3>2. QED BY <2>1, <3>1, TypeClearLoad, FreshUnchanged DEF HashInv, Holding, NoRepeats
  <2>2. CASE ClearCommit BY <2>2, TypeClearCommit, HashClear, FreshClearCommit
  <2>3. CASE ResetAll \/ Toggle \/ SetWindow \/ OnboardComplete \/ OnboardReset
    <3>1. UNCHANGED <<clock, row, req, lastPass>>
      BY <2>3 DEF ResetAll, Toggle, SetWindow, OnboardComplete, OnboardReset, history
    <3>2. QED BY <2>3, <3>1, TypeSettings, FreshUnchanged DEF HashInv, Holding, NoRepeats
  <2>4. CASE Tick
    <3>1. UNCHANGED <<row, req>> BY <2>4 DEF Tick
    <3>2. QED BY <2>4, <3>1, TypeSettings, FreshTick DEF HashInv, Holding, NoRepeats
  <2>5. QED BY <1>2, <2>1, <2>2, <2>3, <2>4 DEF HumanStep
<1>3. CASE UNCHANGED vars
  <2>1. UNCHANGED <<clock, gateOn, window, completedAt, row, escalations, attempts, req,
                    clearing, lastPass, streak>>
    BY <1>3 DEF vars, settings, history
  <2>2. QED BY <2>1, FreshUnchanged
          DEF HashInv, Holding, NoRepeats, TypeInv, TypeOK, SlotsOK, ClearingOK
<1>4. QED BY <1>1, <1>2, <1>3 DEF Next

\* The inductive invariant holds in every reachable state.
THEOREM GateInvariant == Spec => []GateInv
BY GateInit, GateNext, PTL DEF Spec

\* The rows, logs and request slots keep their types: above all, the pivot
\* count never passes its limit, though two requests save it at once.
THEOREM TypeCorrect == Spec => []TypeOK
<1>1. GateInv => TypeOK BY DEF GateInv, TypeInv
<1>2. QED BY <1>1, GateInvariant, PTL

\* A write that was subject to the question follows a recent pass, for every
\* number of agents, threads and humans and every setting of the windows.
THEOREM FreshPassHolds == Spec => []WriteNeedsFreshPass
<1>1. GateInv => WriteNeedsFreshPass BY DEF GateInv, FreshInv
<1>2. QED BY <1>1, GateInvariant, PTL

\* The remembered replies of an agent stay few and distinct.
THEOREM HashesHold == Spec => []HashesDistinct
<1>1. GateInv => HashesDistinct BY DEF GateInv, HashInv, HashesDistinct, NoRepeats
<1>2. QED BY <1>1, GateInvariant, PTL

-----------------------------------------------------------------------------
(* The gate implements AgentPause *)

\* The refinement mapping.
Paused == {a \in Agents : is_agent_frozen(a)}
Admitted == [r \in Requests |-> IF req[r].pc = "admitted" THEN req[r].agent ELSE None]

\* A step of request r to a slot that is not admitted, from one that is not.
LEMMA AdmittedSame ==
  ASSUME TypeInv, \A q \in Requests : req'[q] = req[q] \/ (req[q].pc # "admitted" /\ req'[q].pc # "admitted")
  PROVE  Admitted' = Admitted
BY DEF Admitted

\* Agents are frozen by the open escalations alone.
LEMMA PausedSame == ASSUME escalations' = escalations PROVE Paused' = Paused
BY DEF Paused, is_agent_frozen, OpenOf, Open

\* The steps of a request that neither admit, write nor escalate.
LEMMA RefusalStutters ==
  ASSUME TypeInv, NEW r \in Requests,
         \/ \E a \in Agents, p \in Paths : Arrive(r, a, p)
         \/ Refresh(r) \/ RefuseFrozen(r) \/ PassFreezeCheck(r) \/ RefuseStale(r)
         \/ PassQuietly(r) \/ Prompt(r) \/ \E x \in Answers : Accept(r, x)
         \/ \E x \in Answers \cup {Short} : Pivot(r, x)
         \/ RefuseOnboard(r)
  PROVE  UNCHANGED Pause!vars
<1>1. req \in [Requests -> Slots] BY DEF TypeInv, TypeOK
<1>2. UNCHANGED <<gateOn, escalations>>
  BY DEF Arrive, Refresh, RefuseFrozen, PassFreezeCheck, RefuseStale, PassQuietly, Prompt,
         Accept, Pivot, RefuseOnboard, settings
<1>3. req[r].pc # "admitted" /\ (\E s : req' = [req EXCEPT ![r] = s] /\ s.pc # "admitted")
  <2>1. ASSUME NEW a \in Agents, NEW p \in Paths, Arrive(r, a, p)
        PROVE  req[r].pc # "admitted" /\ (\E s : req' = [req EXCEPT ![r] = s] /\ s.pc # "admitted")
    <3>1. PICK s : /\ req' = [req EXCEPT ![r] = s] /\ req[r].pc = "idle"
                   /\ s = [pc |-> "loaded", agent |-> a, path |-> p, snap |-> row[a],
                           evaluated |-> FALSE]
      BY <2>1 DEF Arrive
    <3>2. s.pc = "loaded" BY <3>1
    <3>3. QED BY <3>1, <3>2
  <2>2. CASE Leave(r) /\ req[r].pc # "admitted" BY <2>2, IdleSlot DEF Leave
  <2>3. CASE PassFreezeCheck(r)
    <3>1. req' = [req EXCEPT ![r].pc = "unfrozen"] /\ req[r].pc = "loaded"
      BY <2>3 DEF PassFreezeCheck, GoTo, At
    <3>2. req' = [req EXCEPT ![r] = [req[r] EXCEPT !.pc = "unfrozen"]] BY <3>1
    <3>3. [req[r] EXCEPT !.pc = "unfrozen"].pc # "admitted" BY <1>1 DEF Slots
    <3>4. QED BY <3>1, <3>2, <3>3
  <2>4. CASE PassQuietly(r) \/ \E x \in Answers : Accept(r, x)
    <3>1. PICK v : req' = [req EXCEPT ![r] = [req[r] EXCEPT !.pc = "gated", !.snap = None,
                                                             !.evaluated = v]]
      BY <2>4 DEF PassQuietly, Accept
    <3>2. [req[r] EXCEPT !.pc = "gated", !.snap = None, !.evaluated = v].pc # "admitted"
      BY <1>1 DEF Slots
    <3>3. req[r].pc # "admitted" BY <2>4 DEF PassQuietly, Accept, Asked, FreshEnough, At
    <3>4. QED BY <3>1, <3>2, <3>3
  <2>5. QED BY <2>1, <2>2, <2>3, <2>4
          DEF Refresh, RefuseFrozen, RefuseStale, Prompt, Pivot, RefuseOnboard, BadReply, Asked,
              FreshEnough, At
<1>4. Admitted' = Admitted
  <2>1. \A q \in Requests : req'[q] = req[q] \/ (req[q].pc # "admitted" /\ req'[q].pc # "admitted")
    BY <1>1, <1>3
  <2>2. QED BY <2>1, AdmittedSame
<1>5. Paused' = Paused BY <1>2, PausedSame
<1>6. QED BY <1>2, <1>4, <1>5 DEF Pause!vars, Paused, Admitted

\* Admit and Write are the abstract Admit and Finish.
LEMMA AdmitMaps ==
  ASSUME TypeInv, NEW r \in Requests, Admit(r)
  PROVE  \E a \in Agents : Pause!Admit(r, a)
<1>1. req \in [Requests -> Slots] BY DEF TypeInv, TypeOK
<1>2. req' = [req EXCEPT ![r].pc = "admitted"] /\ req[r].pc = "gated" /\ ~Freezes(r)
      /\ UNCHANGED <<gateOn, escalations>>
  BY DEF Admit, GoTo, At, settings
<1>3. PICK a \in Agents : a = req[r].agent BY <1>2 DEF TypeInv, SlotsOK
<1>4. Admitted[r] = None BY <1>2 DEF Admitted
<1>5. Admitted' = [Admitted EXCEPT ![r] = a]
  <2>1. req'[r].pc = "admitted" /\ req'[r].agent = a BY <1>1, <1>2, <1>3 DEF Slots
  <2>2. \A q \in Requests \ {r} : req'[q] = req[q] BY <1>1, <1>2
  <2>3. QED BY <2>1, <2>2 DEF Admitted
<1>6. gateOn => a \notin Paused BY <1>2, <1>3 DEF Freezes, Paused
<1>7. Paused' = Paused BY <1>2, PausedSame
<1>8. Pause!Admit(r, a)
  BY <1>2, <1>4, <1>5, <1>6, <1>7 DEF Pause!Admit, Paused, Admitted
<1>9. QED BY <1>3, <1>8

\* A write is the abstract Finish.
LEMMA WriteMaps ==
  ASSUME TypeInv, NEW r \in Requests, Write(r)
  PROVE  Pause!Finish(r)
<1>1. req \in [Requests -> Slots] BY DEF TypeInv, TypeOK
<1>2. req' = [req EXCEPT ![r] = Idle] /\ req[r].pc = "admitted" /\ UNCHANGED <<gateOn, escalations>>
  BY DEF Write, Leave, At, settings
<1>3. Admitted[r] # None BY <1>2, NamesAssumption DEF Admitted, TypeInv, SlotsOK
<1>4. Admitted' = [Admitted EXCEPT ![r] = None]
  <2>1. req'[r].pc = "idle" BY <1>1, <1>2, IdleSlot
  <2>2. \A q \in Requests \ {r} : req'[q] = req[q] BY <1>1, <1>2
  <2>3. QED BY <2>1, <2>2 DEF Admitted
<1>5. Paused' = Paused BY <1>2, PausedSame
<1>6. QED BY <1>2, <1>3, <1>4, <1>5 DEF Pause!Finish, Paused, Admitted

\* An escalation pauses its agent and nobody else.
LEMMA EscalateMaps ==
  ASSUME TypeInv, NEW r \in Requests, NEW x \in Answers \cup {Short}, Escalate(r, x)
  PROVE  Pause!Pause(req[r].agent) /\ req[r].agent \in Agents
<1>1. PICK a \in Agents : a = req[r].agent
  BY LoadedSlot DEF Escalate, BadReply, Asked, FreshEnough, At
<1>2. PICK e \in EscalationRows : escalations' = Append(escalations, e) /\ e.agent = a /\ e.open
  <2>1. TaskOfPath(req[r].path) \in Tasks \cup {None} BY DEF TaskOfPath
  <2>2. [agent |-> a, task |-> TaskOfPath(req[r].path), open |-> TRUE] \in EscalationRows
    BY <2>1 DEF EscalationRows
  <2>3. QED BY <1>1, <2>2 DEF Escalate
<1>3. UNCHANGED gateOn /\ Leave(r) /\ req[r].pc = "unfrozen"
  BY DEF Escalate, BadReply, Asked, FreshEnough, At, settings
<1>4. escalations \in Seq(EscalationRows) BY DEF TypeInv, TypeOK
<1>5. /\ DOMAIN escalations' = DOMAIN escalations \cup {Len(escalations) + 1}
      /\ escalations'[Len(escalations) + 1] = e
      /\ \A i \in DOMAIN escalations : escalations'[i] = escalations[i]
      /\ Len(escalations) + 1 \notin DOMAIN escalations
  BY <1>2, <1>4
<1>6. Paused' = Paused \cup {a}
  <2>1. ASSUME NEW b \in Agents PROVE is_agent_frozen(b)' <=> is_agent_frozen(b) \/ b = a
    BY <1>2, <1>5 DEF is_agent_frozen, OpenOf, Open
  <2>2. QED BY <2>1 DEF Paused
<1>7. Admitted' = Admitted
  <2>1. \A q \in Requests : req'[q] = req[q] \/ (req[q].pc # "admitted" /\ req'[q].pc # "admitted")
    BY <1>3, IdleSlot DEF Leave, TypeInv, TypeOK
  <2>2. QED BY <2>1, AdmittedSame
<1>8. QED BY <1>1, <1>3, <1>6, <1>7 DEF Pause!Pause, Paused, Admitted

\* A clear resumes the agent, or leaves it paused by another escalation.
LEMMA ClearMaps ==
  ASSUME TypeInv, ClearCommit
  PROVE  (\E a \in Agents : Pause!Resume(a)) \/ UNCHANGED Pause!vars
<1>1. clearing # None /\ UNCHANGED <<gateOn, req>> BY DEF ClearCommit, settings
<1>2. PICK a \in Agents : a = escalations[clearing.esc].agent BY <1>1, ClearFacts
<1>3. escalations \in Seq(EscalationRows) /\ clearing.esc \in DOMAIN escalations
  BY <1>1, ClearFacts DEF TypeInv, TypeOK
<1>4. escalations' = [escalations EXCEPT ![clearing.esc] = [escalations[clearing.esc] EXCEPT !.open = FALSE]]
  BY DEF ClearCommit
<1>5. PICK e \in DOMAIN escalations : e = clearing.esc BY <1>3
<1>6. /\ DOMAIN escalations' = DOMAIN escalations
      /\ escalations'[e].agent = a /\ escalations'[e].open = FALSE
      /\ \A i \in DOMAIN escalations \ {e} : escalations'[i] = escalations[i]
  <2>1. escalations[e] \in EscalationRows BY <1>3, <1>5
  <2>2. QED BY <1>2, <1>3, <1>4, <1>5, <2>1 DEF EscalationRows
<1>7. \A b \in Agents \ {a} : is_agent_frozen(b)' <=> is_agent_frozen(b)
  BY <1>2, <1>5, <1>6 DEF is_agent_frozen, OpenOf, Open
<1>8. is_agent_frozen(a)' => is_agent_frozen(a)
  BY <1>6 DEF is_agent_frozen, OpenOf, Open
<1>9. Paused' = Paused \/ Paused' = Paused \ {a} BY <1>7, <1>8 DEF Paused
<1>10. Admitted' = Admitted BY <1>1 DEF Admitted
<1>11. QED BY <1>1, <1>9, <1>10 DEF Pause!Resume, Pause!vars, Paused, Admitted

\* What the other steps of humans and the clock do to the pauses.
LEMMA HumansMap ==
  ASSUME TypeInv,
         \/ \E t \in Tasks : ClearLoad(t)
         \/ ResetAll \/ Toggle \/ SetWindow \/ OnboardComplete \/ OnboardReset \/ Tick
  PROVE  Pause!ResumeAll \/ Pause!Enforce \/ UNCHANGED Pause!vars
<1>1. CASE ResetAll
  <2>1. Paused' = {}
    <3>1. escalations' = [e \in DOMAIN escalations |-> [escalations[e] EXCEPT !.open = FALSE]]
      BY <1>1 DEF ResetAll
    <3>2. \A e \in DOMAIN escalations : escalations[e] \in EscalationRows
      BY DEF TypeInv, TypeOK
    <3>3. \A e \in DOMAIN escalations' : escalations'[e].open = FALSE
      BY <3>1, <3>2 DEF EscalationRows
    <3>4. QED BY <3>3 DEF Paused, is_agent_frozen, OpenOf, Open
  <2>2. Admitted' = Admitted /\ gateOn' = gateOn BY <1>1 DEF Admitted, ResetAll, settings
  <2>3. QED BY <2>1, <2>2 DEF Pause!ResumeAll, Paused, Admitted
<1>2. CASE Toggle
  <2>1. gateOn' = ~gateOn /\ UNCHANGED <<req, escalations>> BY <1>2 DEF Toggle
  <2>2. Paused' = Paused /\ Admitted' = Admitted BY <2>1, PausedSame DEF Admitted
  <2>3. QED BY <2>1, <2>2 DEF Pause!Enforce, Paused, Admitted
<1>3. CASE UNCHANGED <<gateOn, req, escalations>>
  <2>1. Paused' = Paused /\ Admitted' = Admitted BY <1>3, PausedSame DEF Admitted
  <2>2. QED BY <1>3, <2>1 DEF Pause!vars, Paused, Admitted
<1>4. QED BY <1>1, <1>2, <1>3 DEF ClearLoad, SetWindow, OnboardComplete, OnboardReset, Tick, settings

\* The initial states of the gate are those of AgentPause.
LEMMA PauseInit == Init => Pause!Init
<1> SUFFICES ASSUME Init PROVE Pause!Init OBVIOUS
<1>1. gateOn = TRUE BY DEF Init
<1>2. Paused = {} BY DEF Init, Paused, is_agent_frozen, OpenOf
<1>3. Admitted = [r \in Requests |-> None] BY DEF Init, Admitted, Idle
<1>4. QED BY <1>1, <1>2, <1>3 DEF Pause!Init, Paused, Admitted

\* Every step of the gate is one of AgentPause, or stutters there.
LEMMA PauseNext == TypeInv /\ [Next]_vars => [Pause!Next]_(Pause!vars)
<1> SUFFICES ASSUME TypeInv, [Next]_vars PROVE Pause!Next \/ UNCHANGED Pause!vars OBVIOUS
<1>1. ASSUME NEW r \in Requests, RequestStep(r) PROVE Pause!Next \/ UNCHANGED Pause!vars
  <2>1. CASE Admit(r) BY <2>1, AdmitMaps DEF Pause!Next
  <2>2. CASE Write(r) BY <2>2, WriteMaps DEF Pause!Next
  <2>3. ASSUME NEW x \in Answers \cup {Short}, Escalate(r, x)
        PROVE Pause!Next \/ UNCHANGED Pause!vars
    BY <2>3, EscalateMaps DEF Pause!Next
  <2>4. QED BY <1>1, <2>1, <2>2, <2>3, RefusalStutters DEF RequestStep, Evaluate
<1>2. CASE HumanStep \/ Tick
  <2>1. CASE ClearCommit BY <2>1, ClearMaps DEF Pause!Next
  <2>2. QED BY <1>2, <2>1, HumansMap DEF HumanStep, Pause!Next
<1>3. CASE UNCHANGED vars
  <2>1. UNCHANGED <<gateOn, req, escalations>> BY <1>3 DEF vars, settings
  <2>2. Paused' = Paused /\ Admitted' = Admitted BY <2>1, PausedSame DEF Admitted
  <2>3. QED BY <2>1, <2>2 DEF Pause!vars, Paused, Admitted
<1>4. QED BY <1>1, <1>2, <1>3 DEF Next

\* Every behaviour of the gate is one of AgentPause: while the gate is on, no
\* frozen agent starts a write, whatever the requests and the humans interleave.
THEOREM GateImplementsPause == Spec => PauseSpec
<1>1. GateInv => TypeInv BY DEF GateInv
<1>2. QED BY <1>1, GateInvariant, PauseInit, PauseNext, PTL DEF Spec, PauseSpec, Pause!Spec
=============================================================================
