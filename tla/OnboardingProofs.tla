-------------------------- MODULE OnboardingProofs --------------------------
(***************************************************************************)
(* Proofs about what a project is onboarded with.                          *)
(*                                                                         *)
(* Onboarding, for any number of requests, tickets and texts: the types,   *)
(* that overlapping requests leave a whole document, and that no ticket of *)
(* an agent comes before a completion.                                     *)
(*                                                                         *)
(* DocIndex, for both pipelines and any documents and texts: a build that  *)
(* nothing disturbs leaves an index whose every link lands.                *)
(***************************************************************************)
EXTENDS Onboarding, DocIndex, TLAPS

-----------------------------------------------------------------------------
(* The types *)

\* A nonempty set of positions has a least one.
LEMMA LeastPosition ==
  ASSUME NEW M \in SUBSET (1 .. 7), M # {}
  PROVE  \E i \in M : \A j \in M : i <= j
<1>1. PICK x \in M : TRUE
  OBVIOUS
<1>2. \A i \in M : i \in 1 .. 7
  OBVIOUS
<1>3. CASE 1 \in M \/ 2 \in M \/ 3 \in M
  BY <1>2, <1>3
<1>4. CASE 1 \notin M /\ 2 \notin M /\ 3 \notin M
  <2>1. \A i \in M : i \in {4, 5, 6, 7}
    BY <1>2, <1>4
  <2>2. CASE 4 \in M \/ 5 \in M
    BY <2>1, <2>2
  <2>3. CASE 4 \notin M /\ 5 \notin M
    BY <1>1, <2>1, <2>3
  <2> QED BY <2>2, <2>3
<1> QED BY <1>3, <1>4

LEMMA OrderIsSequence ==
  /\ DOMAIN ONBOARD_STEP_ORDER = 1 .. 7
  /\ \A i \in 1 .. 7 : ONBOARD_STEP_ORDER[i] \in Steps
<1>1. DOMAIN ONBOARD_STEP_ORDER = 1 .. 7
  BY DEF ONBOARD_STEP_ORDER
<1> QED BY <1>1 DEF Steps, Range

\* The next step is one of the steps, or none.
LEMMA HintRange == \A s : _next_step(s) \in Steps \cup {None}
<1> SUFFICES ASSUME NEW s PROVE _next_step(s) \in Steps \cup {None}
  OBVIOUS
<1> DEFINE missing == {i \in DOMAIN ONBOARD_STEP_ORDER : ~Has(s, ONBOARD_STEP_ORDER[i])}
           least == CHOOSE i \in missing : \A j \in missing : i <= j
<1>1. missing \subseteq 1 .. 7
  BY OrderIsSequence
<1>2. missing # {} => least \in 1 .. 7
  <2> HIDE DEF missing
  <2> QED BY <1>1, LeastPosition
<1>3. _next_step(s) = IF missing = {} THEN None ELSE ONBOARD_STEP_ORDER[least]
  BY Zenon DEF _next_step
<1> HIDE DEF missing, least
<1> QED BY <1>2, <1>3, OrderIsSequence

LEMMA NextStepRange == NextStep(state) \in Steps \cup {None}
  BY HintRange DEF NextStep

\* The documents that handlers write are documents.
LEMMA DocumentRange ==
  ASSUME state \in State
  PROVE  /\ Blank \in State
         /\ \A step \in PlainSteps : [state EXCEPT !.acked = @ \cup {step}] \in State
         /\ \A text \in Texts, content \in BOOLEAN :
              /\ [state EXCEPT !.plan = text, !.plan_content = IF content THEN text ELSE @] \in State
              /\ Manifest(text, content) \in State
              /\ \A t \in Tickets : [Manifest(text, content) EXCEPT !.absorption = t] \in State
         /\ \A how \in {"natural", "forced"} : [state EXCEPT !.close = how] \in State
<1>1. Blank \in State
  BY DEF State, Blank
<1>2. ASSUME NEW step \in PlainSteps PROVE [state EXCEPT !.acked = @ \cup {step}] \in State
  BY DEF State
<1>3. ASSUME NEW text \in Texts, NEW content \in BOOLEAN
      PROVE  [state EXCEPT !.plan = text, !.plan_content = IF content THEN text ELSE @] \in State
  BY DEF State
<1>4. ASSUME NEW text \in Texts, NEW content \in BOOLEAN
      PROVE  Manifest(text, content) \in State
  BY DEF State, Manifest
<1>5. ASSUME NEW text \in Texts, NEW content \in BOOLEAN, NEW t \in Tickets
      PROVE  [Manifest(text, content) EXCEPT !.absorption = t] \in State
  BY <1>4 DEF State
<1>6. ASSUME NEW how \in {"natural", "forced"} PROVE [state EXCEPT !.close = how] \in State
  BY DEF State
<1> QED BY <1>1, <1>2, <1>3, <1>4, <1>5, <1>6

LEMMA NewTicketIsUnborn == Unborn # {} => NewTicket \in Unborn
  BY DEF NewTicket

\* What a request may be about to commit, whichever handler took it: the
\* document it writes, the tickets it makes and those it closes.
Writes(new) ==
  \/ \E step \in PlainSteps : new = [state EXCEPT !.acked = @ \cup {step}]
  \/ \E text \in Texts, content \in BOOLEAN :
       \/ new = [state EXCEPT !.plan = text, !.plan_content = IF content THEN text ELSE @]
       \/ new = Manifest(text, content)
  \/ state.md # None /\ new = [state EXCEPT !.close = "forced"]
  \/ new = Blank

Completes(new, t) == \E text \in Texts, content \in BOOLEAN :
  new = [Manifest(text, content) EXCEPT !.absorption = t]

Closes(new) == new = None \/ (state.md # None /\ new = [state EXCEPT !.close = "natural"])

Asked(q) == \E by \in Callers :
  \/ \E new \in State : Writes(new) /\ q = Request(by, new, {}, {})
  \/ \E new \in State, t \in Unborn : Completes(new, t) /\ q = Request(by, new, {t}, {})
  \/ \E t \in Unborn : /\ by = "agent" => OperationallyComplete(state)
                       /\ q = Request(by, None, {t}, {})
  \/ \E new \in State \cup {None}, t \in Tickets :
       /\ Closes(new) /\ ticket[t] # None /\ q = Request(by, new, {}, {t})

\* A step is a hint, a commit or a decision.
LEMMA StepShape ==
  ASSUME state \in State, [Next]_vars
  PROVE  \/ UNCHANGED vars
         \/ get_onboard_state
         \/ \E w \in Workers : Commit(w)
         \/ \E w \in Workers : \E q : Asked(q) /\ Decide(w, q)
<1>b. "guide" \in Callers /\ "agent" \in Callers /\ "human" \in Callers
  BY DEF Callers
<1>1. ASSUME NEW w \in Workers, NEW by \in Callers, NEW step, ack_onboard_step(w, by, step)
      PROVE  \E q : Asked(q) /\ Decide(w, q)
  <2> DEFINE new == [state EXCEPT !.acked = @ \cup {step}]
  <2>1. new \in State /\ Writes(new) /\ Decide(w, Request(by, new, {}, {}))
    BY <1>1, DocumentRange DEF ack_onboard_step, Writes
  <2> HIDE DEF new
  <2> QED BY <2>1 DEF Asked
<1>2. ASSUME NEW w \in Workers, NEW by \in Callers, NEW text \in Texts, NEW content \in BOOLEAN,
             AckPlan(w, by, text, content)
      PROVE  \E q : Asked(q) /\ Decide(w, q)
  <2> DEFINE new == [state EXCEPT !.plan = text, !.plan_content = IF content THEN text ELSE @]
  <2>1. new \in State /\ Writes(new) /\ Decide(w, Request(by, new, {}, {}))
    BY <1>2, DocumentRange DEF AckPlan, Writes
  <2> HIDE DEF new
  <2> QED BY <2>1 DEF Asked
<1>3. ASSUME NEW w \in Workers, NEW by \in Callers, NEW text \in Texts, NEW content \in BOOLEAN,
             complete_onboard(w, by, text, content)
      PROVE  \E q : Asked(q) /\ Decide(w, q)
  <2>1. CASE state.md = None /\ state.absorption = None
    <3> DEFINE new == [Manifest(text, content) EXCEPT !.absorption = NewTicket]
    <3>1. /\ NewTicket \in Unborn /\ NewTicket \in Tickets
          /\ Decide(w, Request(by, new, {NewTicket}, {}))
      BY <1>3, <2>1, NewTicketIsUnborn DEF complete_onboard, Unborn
    <3>2. new \in State /\ Completes(new, NewTicket)
      BY <3>1, DocumentRange DEF Completes
    <3> HIDE DEF new
    <3> QED BY <3>1, <3>2 DEF Asked
  <2>2. CASE ~(state.md = None /\ state.absorption = None)
    <3>1. Decide(w, Request(by, Manifest(text, content), {}, {}))
      BY <1>3, <2>2 DEF complete_onboard
    <3>2. Manifest(text, content) \in State /\ Writes(Manifest(text, content))
      BY DocumentRange DEF Writes
    <3> QED BY <3>1, <3>2 DEF Asked
  <2> QED BY <2>1, <2>2
<1>4. ASSUME NEW w \in Workers, NEW by \in Callers, force_finish_onboard(w, by)
      PROVE  \E q : Asked(q) /\ Decide(w, q)
  <2> DEFINE new == [state EXCEPT !.close = "forced"]
  <2>1. new \in State /\ Writes(new) /\ Decide(w, Request(by, new, {}, {}))
    BY <1>4, DocumentRange DEF force_finish_onboard, OperationallyComplete, Writes
  <2> HIDE DEF new
  <2> QED BY <2>1 DEF Asked
<1>5. ASSUME NEW w \in Workers, NEW by \in Callers, reset_onboard_state(w, by)
      PROVE  \E q : Asked(q) /\ Decide(w, q)
  <2>1. Blank \in State /\ Writes(Blank) /\ Decide(w, Request(by, Blank, {}, {}))
    BY <1>5, DocumentRange DEF reset_onboard_state, Writes
  <2> QED BY <2>1 DEF Asked
<1>6. ASSUME NEW w \in Workers, NEW by \in Callers, create_task(w, by)
      PROVE  \E q : Asked(q) /\ Decide(w, q)
  <2>1. /\ NewTicket \in Unborn /\ (by = "agent" => OperationallyComplete(state))
        /\ Decide(w, Request(by, None, {NewTicket}, {}))
    BY <1>6, NewTicketIsUnborn DEF create_task, OnboardGate
  <2> QED BY <2>1 DEF Asked
<1>7. ASSUME NEW w \in Workers, NEW t \in Tickets, CloseTicket(w, t)
      PROVE  \E q : Asked(q) /\ Decide(w, q)
  <2> DEFINE closed == [state EXCEPT !.close = "natural"]
             new == IF StampsClose(state) THEN closed ELSE None
  <2>1. ticket[t] # None /\ Decide(w, Request("human", new, {}, {t}))
    BY <1>7 DEF CloseTicket
  <2>2. new \in State \cup {None} /\ Closes(new)
    BY DocumentRange DEF Closes, StampsClose
  <2> HIDE DEF new
  <2> QED BY <1>b, <2>1, <2>2 DEF Asked
<1>8. ASSUME NEW w \in Workers, Follow(w)
      PROVE  \E q : Asked(q) /\ Decide(w, q)
  BY <1>b, <1>1, <1>2, <1>3, <1>8 DEF Follow
<1>9. ASSUME NEW w \in Workers, NEW by \in {"agent", "human"}, Other(w, by)
      PROVE  \E q : Asked(q) /\ Decide(w, q)
  <2>1. by \in Callers
    BY DEF Callers
  <2>2. CASE \E step \in PlainSteps : ack_onboard_step(w, by, step)
    BY <1>1, <2>1, <2>2
  <2>3. CASE \E x \in Texts, content \in BOOLEAN : AckPlan(w, by, x, content)
    BY <1>2, <2>1, <2>3
  <2>4. CASE \E x \in Texts, content \in BOOLEAN : complete_onboard(w, by, x, content)
    BY <1>3, <2>1, <2>4
  <2>5. CASE force_finish_onboard(w, by) \/ reset_onboard_state(w, by) \/ create_task(w, by)
    BY <1>4, <1>5, <1>6, <2>1, <2>5
  <2> QED BY <1>9, <2>2, <2>3, <2>4, <2>5 DEF Other
<1> QED BY <1>7, <1>8, <1>9 DEF Next

-----------------------------------------------------------------------------
(* The invariant *)

\* The parts of a document that go together.
Paired(s) ==
  /\ s.completed <=> s.md # None
  /\ s.close # None => s.md # None
  /\ s.absorption # None => s.md # None

\* What a request is about to commit is whole too: the ticket its document
\* names exists or comes with it, and so do those that it closes.
UnitIsWhole(q) ==
  /\ \A t \in q.closes : ticket[t] # None
  /\ q.new # None => /\ Paired(q.new)
                     /\ q.new.absorption # None =>
                          ticket[q.new.absorption] # None \/ q.new.absorption \in q.makes

\* An agent that is about to create a ticket was let through, or completes.
UnitWaits(q) == q.by = "agent" /\ q.makes # {} =>
  opened \/ (q.new # None /\ OperationallyComplete(q.new))

Inv ==
  /\ TypeOK /\ DocumentIsWhole /\ AgentsWaitForGate
  /\ OperationallyComplete(state) => opened
  /\ \A w \in Workers : UnitIsWhole(unit[w]) /\ UnitWaits(unit[w])

LEMMA IdleFields == /\ Idle.by = None /\ Idle.new = None /\ Idle.makes = {} /\ Idle.closes = {}
                    /\ Idle \notin Units
  BY NoneAssumption DEF Idle, Request, Units

LEMMA RequestFields == \A by, new, makes, closes :
  LET q == Request(by, new, makes, closes) IN
  q.by = by /\ q.new = new /\ q.makes = makes /\ q.closes = closes
  BY DEF Request

\* The fields of what a request may ask for.
LEMMA AskedRange ==
  ASSUME NEW q, Asked(q)
  PROVE  q \in Units
<1>1. Unborn \subseteq Tickets
  BY DEF Unborn
<1> QED BY <1>1 DEF Asked, Request, Units

\* The documents that handlers write are whole when the one they read is.
LEMMA WritesWhole ==
  ASSUME state \in State, DocumentIsWhole, NEW new \in State, Writes(new)
  PROVE  /\ Paired(new)
         /\ new.absorption # None => ticket[new.absorption] # None
<1>1. CASE \E step \in PlainSteps : new = [state EXCEPT !.acked = @ \cup {step}]
  <2>1. new.md = state.md /\ new.completed = state.completed /\ new.close = state.close
        /\ new.absorption = state.absorption
    BY <1>1 DEF State
  <2> QED BY <2>1 DEF DocumentIsWhole, Paired
<1>2. ASSUME NEW text \in Texts, NEW content \in BOOLEAN,
             new = [state EXCEPT !.plan = text, !.plan_content = IF content THEN text ELSE @]
      PROVE  Paired(new) /\ (new.absorption # None => ticket[new.absorption] # None)
  <2>1. new.md = state.md /\ new.completed = state.completed /\ new.close = state.close
        /\ new.absorption = state.absorption
    BY <1>2 DEF State
  <2> QED BY <2>1 DEF DocumentIsWhole, Paired
<1>3. ASSUME NEW text \in Texts, NEW content \in BOOLEAN, new = Manifest(text, content)
      PROVE  Paired(new) /\ (new.absorption # None => ticket[new.absorption] # None)
  <2>1. new.md = text /\ new.completed = TRUE /\ new.absorption = state.absorption
    BY <1>3 DEF Manifest, State
  <2>2. text # None
    BY OnboardingAssumption
  <2> QED BY <2>1, <2>2 DEF DocumentIsWhole, Paired
<1>4. CASE state.md # None /\ new = [state EXCEPT !.close = "forced"]
  <2>1. new.md = state.md /\ new.completed = state.completed /\ new.absorption = state.absorption
    BY <1>4 DEF State
  <2> QED BY <1>4, <2>1 DEF DocumentIsWhole, Paired
<1>5. CASE new = Blank
  BY <1>5 DEF Blank, Paired
<1> QED BY <1>1, <1>2, <1>3, <1>4, <1>5 DEF Writes

LEMMA CompletesWhole ==
  ASSUME state \in State, DocumentIsWhole, NEW new \in State, NEW t \in Tickets, Completes(new, t)
  PROVE  Paired(new) /\ new.absorption = t /\ OperationallyComplete(new)
<1>1. PICK text \in Texts, content \in BOOLEAN : new = [Manifest(text, content) EXCEPT !.absorption = t]
  BY DEF Completes
<1>2. new.md = text /\ new.completed = TRUE /\ new.absorption = t
  BY <1>1 DEF Manifest, State
<1>3. text # None
  BY OnboardingAssumption
<1> QED BY <1>2, <1>3 DEF Paired, OperationallyComplete

LEMMA ClosesWhole ==
  ASSUME state \in State, DocumentIsWhole, NEW new \in State, Closes(new)
  PROVE  /\ Paired(new)
         /\ new.absorption # None => ticket[new.absorption] # None
<1>1. new # None
  BY NoneAssumption
<1>2. state.md # None /\ new = [state EXCEPT !.close = "natural"]
  BY <1>1 DEF Closes
<1>3. new.md = state.md /\ new.completed = state.completed /\ new.absorption = state.absorption
  BY <1>2 DEF State
<1> QED BY <1>2, <1>3 DEF DocumentIsWhole, Paired

\* A decision is whole, and an agent's waits for the gate.
LEMMA AskedWhole ==
  ASSUME Inv, NEW q, Asked(q)
  PROVE  UnitIsWhole(q) /\ UnitWaits(q)
<1>1. PICK by \in Callers :
        \/ \E new \in State : Writes(new) /\ q = Request(by, new, {}, {})
        \/ \E new \in State, t \in Unborn : Completes(new, t) /\ q = Request(by, new, {t}, {})
        \/ \E t \in Unborn : /\ by = "agent" => OperationallyComplete(state)
                             /\ q = Request(by, None, {t}, {})
        \/ \E new \in State \cup {None}, t \in Tickets :
             /\ Closes(new) /\ ticket[t] # None /\ q = Request(by, new, {}, {t})
  BY DEF Asked
<1>2. state \in State /\ DocumentIsWhole /\ (OperationallyComplete(state) => opened)
  BY DEF Inv, TypeOK
<1>3. Unborn \subseteq Tickets
  BY DEF Unborn
<1>4. ASSUME NEW new \in State, Writes(new), q = Request(by, new, {}, {})
      PROVE  UnitIsWhole(q) /\ UnitWaits(q)
  BY <1>2, <1>4, WritesWhole, RequestFields DEF UnitIsWhole, UnitWaits
<1>5. ASSUME NEW new \in State, NEW t \in Unborn, Completes(new, t), q = Request(by, new, {t}, {})
      PROVE  UnitIsWhole(q) /\ UnitWaits(q)
  <2>1. Paired(new) /\ new.absorption = t /\ OperationallyComplete(new) /\ new # None
    BY <1>2, <1>3, <1>5, CompletesWhole, NoneAssumption
  <2> QED BY <1>5, <2>1, RequestFields DEF UnitIsWhole, UnitWaits
<1>6. ASSUME NEW t \in Unborn, by = "agent" => OperationallyComplete(state),
             q = Request(by, None, {t}, {})
      PROVE  UnitIsWhole(q) /\ UnitWaits(q)
  BY <1>2, <1>6, RequestFields DEF UnitIsWhole, UnitWaits
<1>7. ASSUME NEW new \in State \cup {None}, NEW t \in Tickets, Closes(new), ticket[t] # None,
             q = Request(by, new, {}, {t})
      PROVE  UnitIsWhole(q) /\ UnitWaits(q)
  BY <1>2, <1>7, ClosesWhole, RequestFields DEF UnitIsWhole, UnitWaits
<1> QED BY <1>1, <1>4, <1>5, <1>6, <1>7

\* No row goes back to none; what a commit inserts has the one who asked for it.
LEMMA BornRange ==
  ASSUME Inv, NEW w \in Workers, NEW t \in Tickets
  PROVE  /\ Born(t, unit[w]) \in Rows \cup {None}
         /\ ticket[t] # None \/ t \in unit[w].makes => Born(t, unit[w]) # None
         /\ \/ unit[w] = Idle
            \/ t \in unit[w].makes /\ Born(t, unit[w]).by = unit[w].by
            \/ t \notin unit[w].makes /\ Born(t, unit[w]) # None
                 /\ ticket[t] # None /\ Born(t, unit[w]).by = ticket[t].by
            \/ Born(t, unit[w]) = None
<1>1. ticket[t] \in Rows \cup {None} /\ unit[w] \in Units \cup {Idle} /\ None \notin Rows
  BY NoneAssumption DEF Inv, TypeOK
<1>2. \A u \in unit[w].closes : ticket[u] # None
  BY DEF Inv, UnitIsWhole
<1>3. CASE unit[w] = Idle
  BY <1>1, <1>3, IdleFields DEF Born
<1>4. CASE unit[w] \in Units /\ t \in unit[w].makes
  <2>1. unit[w].by \in Callers /\ Born(t, unit[w]) = [status |-> "open", by |-> unit[w].by]
    BY <1>4 DEF Born, Units
  <2> QED BY <1>1, <1>4, <2>1 DEF Rows
<1>5. CASE unit[w] \in Units /\ t \notin unit[w].makes /\ t \in unit[w].closes
  <2>1. ticket[t] \in Rows /\ Born(t, unit[w]) = [ticket[t] EXCEPT !.status = "done"]
    BY <1>1, <1>2, <1>5 DEF Born
  <2>2. [ticket[t] EXCEPT !.status = "done"] \in Rows
        /\ [ticket[t] EXCEPT !.status = "done"].by = ticket[t].by
    BY <2>1 DEF Rows
  <2> QED BY <1>1, <1>5, <2>1, <2>2
<1>6. CASE unit[w] \in Units /\ t \notin unit[w].makes /\ t \notin unit[w].closes
  BY <1>1, <1>6 DEF Born
<1> QED BY <1>1, <1>3, <1>4, <1>5, <1>6

LEMMA InvInit == Init => Inv
<1> SUFFICES ASSUME Init PROVE Inv
  OBVIOUS
<1>1. TypeOK
  <2>1. state \in State
    BY DEF Init, Blank, State
  <2>2. ticket \in [Tickets -> Rows \cup {None}] /\ unit \in [Workers -> Units \cup {Idle}]
    BY DEF Init
  <2>3. others \in 0 .. MaxOthers
    BY OnboardingAssumption DEF Init
  <2>4. hint \in Steps \cup {None} /\ opened \in BOOLEAN
    BY DEF Init
  <2> QED BY <2>1, <2>2, <2>3, <2>4 DEF TypeOK
<1>2. DocumentIsWhole /\ ~OperationallyComplete(state)
  BY DEF Init, Blank, DocumentIsWhole, OperationallyComplete
<1>3. AgentsWaitForGate
  BY DEF Init, AgentsWaitForGate
<1>4. \A w \in Workers : UnitIsWhole(unit[w]) /\ UnitWaits(unit[w])
  BY IdleFields DEF Init, UnitIsWhole, UnitWaits
<1> QED BY <1>1, <1>2, <1>3, <1>4 DEF Inv

LEMMA InvHint == Inv /\ get_onboard_state => Inv'
  BY NextStepRange DEF Inv, TypeOK, DocumentIsWhole, AgentsWaitForGate, get_onboard_state,
                       UnitIsWhole, UnitWaits, Paired, OperationallyComplete

LEMMA InvDecide ==
  ASSUME Inv, NEW w \in Workers, NEW q, Asked(q), Decide(w, q)
  PROVE  Inv'
<1>0. /\ UNCHANGED <<state, ticket, hint, opened>> /\ others' \in 0 .. MaxOthers
      /\ unit' = [unit EXCEPT ![w] = q]
  BY OnboardingAssumption DEF Decide, Turn, Inv, TypeOK
<1>1. TypeOK'
  BY <1>0, AskedRange DEF Inv, TypeOK
<1>2. DocumentIsWhole' /\ AgentsWaitForGate' /\ (OperationallyComplete(state) => opened)'
  BY <1>0 DEF Inv, DocumentIsWhole, AgentsWaitForGate, OperationallyComplete
<1>3. ASSUME NEW v \in Workers
      PROVE  (UnitIsWhole(unit[v]) /\ UnitWaits(unit[v]))'
  <2>1. unit'[v] = q \/ unit'[v] = unit[v]
    BY <1>0 DEF Inv, TypeOK
  <2>2. UnitIsWhole(unit'[v]) /\ UnitWaits(unit'[v])
    BY <2>1, AskedWhole DEF Inv
  <2> QED BY <1>0, <2>2 DEF UnitIsWhole, UnitWaits, Paired, OperationallyComplete
<1> QED BY <1>1, <1>2, <1>3 DEF Inv

LEMMA InvCommit ==
  ASSUME Inv, NEW w \in Workers, Commit(w)
  PROVE  Inv'
<1> DEFINE q == unit[w]
<1>0. /\ state' = IF q.new = None THEN state ELSE q.new
      /\ ticket' = [t \in Tickets |-> Born(t, q)]
      /\ hint' = IF q.by = "guide" THEN _next_step(q.new) ELSE hint
      /\ opened' = (opened \/ OperationallyComplete(state'))
      /\ unit' = [unit EXCEPT ![w] = Idle] /\ UNCHANGED others /\ q # Idle
  BY DEF Commit
<1>1. q \in Units /\ UnitIsWhole(q) /\ UnitWaits(q)
  BY <1>0 DEF Inv, TypeOK
<1>2. \A t \in Tickets : /\ ticket'[t] = Born(t, q) /\ ticket'[t] \in Rows \cup {None}
                         /\ ticket[t] # None \/ t \in q.makes => ticket'[t] # None
  BY <1>0, BornRange
<1>3. TypeOK'
  <2>1. state' \in State
    BY <1>0, <1>1 DEF Inv, TypeOK, Units
  <2>2. ticket' \in [Tickets -> Rows \cup {None}]
    BY <1>0, <1>2
  <2>3. hint' \in Steps \cup {None}
    BY <1>0, HintRange DEF Inv, TypeOK
  <2>4. opened' \in BOOLEAN
    BY <1>0 DEF Inv, TypeOK, OperationallyComplete
  <2>5. unit' \in [Workers -> Units \cup {Idle}] /\ others' \in 0 .. MaxOthers
    BY <1>0 DEF Inv, TypeOK
  <2> QED BY <2>1, <2>2, <2>3, <2>4, <2>5 DEF TypeOK
<1>4. DocumentIsWhole'
  <2>1. CASE q.new = None
    <3>1. state' = state /\ (state.absorption # None => state.absorption \in Tickets)
      BY <1>0, <2>1 DEF Inv, TypeOK, State
    <3> QED BY <1>2, <3>1 DEF Inv, DocumentIsWhole
  <2>2. CASE q.new # None
    <3>1. state' = q.new /\ (q.new.absorption # None => q.new.absorption \in Tickets)
      BY <1>0, <1>1, <2>2 DEF Units, State
    <3> QED BY <1>1, <1>2, <2>2, <3>1 DEF UnitIsWhole, Paired, DocumentIsWhole
  <2> QED BY <2>1, <2>2
<1>5. AgentsWaitForGate'
  <2> SUFFICES ASSUME NEW t \in Tickets, ticket'[t] # None, ticket'[t].by = "agent" PROVE opened'
    BY DEF AgentsWaitForGate
  <2>1. \/ t \in q.makes /\ ticket'[t].by = q.by
        \/ ticket[t] # None /\ ticket'[t].by = ticket[t].by
    BY <1>0, <1>2, BornRange
  <2>2. CASE t \in q.makes /\ ticket'[t].by = q.by
    BY <1>0, <1>1, <2>2 DEF UnitWaits
  <2>3. CASE ticket[t] # None /\ ticket'[t].by = ticket[t].by
    BY <1>0, <2>3 DEF Inv, AgentsWaitForGate
  <2> QED BY <2>1, <2>2, <2>3
<1>6. (OperationallyComplete(state) => opened)'
  BY <1>0 DEF OperationallyComplete
<1>7. ASSUME NEW v \in Workers
      PROVE  (UnitIsWhole(unit[v]) /\ UnitWaits(unit[v]))'
  <2>1. CASE unit'[v] = Idle
    BY <2>1, IdleFields DEF UnitIsWhole, UnitWaits
  <2>2. CASE unit'[v] # Idle
    <3>1. unit'[v] = unit[v] /\ unit[v] \in Units
      BY <1>0, <2>2 DEF Inv, TypeOK
    <3>2. UnitIsWhole(unit[v]) /\ UnitWaits(unit[v])
      BY DEF Inv
    <3>3. /\ \A t \in unit[v].closes : t \in Tickets
          /\ unit[v].new # None /\ unit[v].new.absorption # None => unit[v].new.absorption \in Tickets
      BY <3>1 DEF Units, State
    <3>4. UnitIsWhole(unit[v])'
      BY <1>2, <3>1, <3>2, <3>3 DEF UnitIsWhole, Paired
    <3>5. UnitWaits(unit[v])'
      BY <1>0, <3>1, <3>2 DEF UnitWaits, OperationallyComplete
    <3> QED BY <3>4, <3>5
  <2> QED BY <2>1, <2>2
<1> QED BY <1>3, <1>4, <1>5, <1>6, <1>7 DEF Inv

LEMMA InvStep == Inv /\ [Next]_vars => Inv'
<1> SUFFICES ASSUME Inv, [Next]_vars PROVE Inv'
  OBVIOUS
<1>0. state \in State
  BY DEF Inv, TypeOK
<1>1. CASE UNCHANGED vars
  BY <1>1 DEF vars, Inv, TypeOK, DocumentIsWhole, AgentsWaitForGate, UnitIsWhole, UnitWaits,
              Paired, OperationallyComplete
<1> QED BY <1>0, <1>1, StepShape, InvHint, InvDecide, InvCommit

LEMMA InvAlways == Spec => []Inv
  BY InvInit, InvStep, PTL DEF Spec

-----------------------------------------------------------------------------
(* The theorems *)

\* Every variable has its type: what any request is about to write back is a
\* document, and the hint is one of the steps or none.
THEOREM TypeCorrect == Spec => []TypeOK
<1>1. Inv => TypeOK
  BY DEF Inv
<1> QED BY <1>1, InvAlways, PTL

\* However many requests overlap, the document is one that some handler wrote,
\* and the ticket it names exists (commit of the handlers of onboard.py).
THEOREM WholeDocument == Spec => []DocumentIsWhole
<1>1. Inv => DocumentIsWhole
  BY DEF Inv
<1> QED BY <1>1, InvAlways, PTL

\* No ticket of an agent comes before a completion (the gate of _resolve_actor),
\* whatever the others reset or write back.
THEOREM GateHolds == Spec => []AgentsWaitForGate
<1>1. Inv => AgentsWaitForGate
  BY DEF Inv
<1> QED BY <1>1, InvAlways, PTL

-----------------------------------------------------------------------------
(* The documentation index *)

\* What a build collects.
LEMMA IndexedNames ==
  /\ Indexed \subseteq Names /\ \A n \in Indexed : Exists(n)
  /\ flavor # "repo" => Indexed \subseteq Live \cup Progress
  /\ flavor = "repo" => Indexed \subseteq Live \cup Progress \cup {TOC, TEMP, LIBRARY}
  BY DEF Indexed, walk_md, walk_progress, walk_library, collect_docs, Names, Docs

LEMMA Contents ==
  /\ \A d \in Docs : Content(d) = md[d] /\ (Rendered(d) <=> html[d] # Absent)
  /\ Content(TOC) = tocMd /\ Content(LIBRARY) = bundle
  /\ Rendered(TOC) <=> tocHtml # Absent
  /\ Rendered(TEMP) <=> tempHtml
  /\ Rendered(LIBRARY) <=> bundle # Absent
<1>1. \A d \in Docs : d # TOC /\ d # TEMP /\ d # LIBRARY
  BY NamesAssumption
<1>2. TOC # TEMP /\ TOC # LIBRARY /\ TEMP # LIBRARY /\ TOC \notin Docs /\ TEMP \notin Docs /\ LIBRARY \notin Docs
  BY NamesAssumption DEF TOC, TEMP, LIBRARY
<1>3. ASSUME NEW d \in Docs
      PROVE  Content(d) = md[d] /\ (Rendered(d) <=> html[d] # Absent)
  BY <1>1, <1>3 DEF Content, Rendered
<1>4. Content(TOC) = tocMd /\ Content(LIBRARY) = bundle
  BY <1>2 DEF Content
<1>5. (Rendered(TOC) <=> tocHtml # Absent) /\ (Rendered(TEMP) <=> tempHtml)
  BY <1>2 DEF Rendered
<1>6. Rendered(LIBRARY) <=> bundle # Absent
  BY <1>2, <1>4 DEF Rendered, Exists
<1> QED BY <1>3, <1>4, <1>5, <1>6

\* The variables' types, as far as they matter, and that no build is quiet but one that runs.
Filed ==
  /\ md \in [Docs -> Bodies \cup {Absent}] /\ html \in [Docs -> Bodies \cup {Absent}]
  /\ build = [at |-> build.at, entries |-> build.entries, todo |-> build.todo, quiet |-> build.quiet]
  /\ build.quiet \in BOOLEAN /\ tempHtml \in BOOLEAN /\ slips \in Nat
  /\ build.quiet => build.at # "idle"

\* A page of the index all of whose links land.
Good(page) == page.links = "html" /\ page.docs = Listed /\ page.missing = {}

\* Until the pages are written: what the build lists is there and, if its link promises a
\* page, is still to be rendered or rendered from what it says.
Sound(n) ==
  /\ n \in Docs => md[n] # Absent
  /\ n \in Promised => n \in build.todo \/ html[n] = md[n]
  /\ n = TOC => n \in build.todo \/ tocHtml # Absent
  /\ n = TEMP => n \in build.todo \/ tempHtml
  /\ n = LIBRARY => bundle # Absent

\* Where the listed names come from.
InPlace == Listed \subseteq IF flavor = "repo" THEN Live \cup Progress \cup {TOC, TEMP, LIBRARY}
                                             ELSE Live \cup Progress

Before == build.at \in {"render", "md", "html"} \/ (flavor = "repo" /\ build.at = "json")

Quiet == build.quiet =>
  /\ InPlace
  /\ build.at # "render" => /\ build.todo = {}
                            /\ \A d \in Listed \cap Promised : html[d] = md[d]
  /\ flavor # "repo" => build.at \in {"render", "md", "html", "json"}
  /\ Before => \A n \in Listed : Sound(n)
  /\ flavor # "repo" /\ build.at = "json" => Good(tocHtml)
  /\ flavor = "repo" /\ build.at = "page" => Good(temp)
  /\ flavor = "repo" /\ build.at = "unlink" => Good(tocHtml)

Fresh == Filed /\ Quiet

LEMMA PromisedDocs == Promised \subseteq Docs
  BY DEF Promised, Docs

\* A build that is disturbed, that ends, or that is none promises nothing.
LEMMA NotQuiet ==
  ASSUME Filed', build'.quiet = FALSE
  PROVE  Fresh'
  BY DEF Fresh, Quiet

LEMMA NoBuildFields ==
  /\ NoBuild.quiet = FALSE /\ NoBuild.at = "idle"
  /\ NoBuild = [at |-> NoBuild.at, entries |-> NoBuild.entries, todo |-> NoBuild.todo, quiet |-> NoBuild.quiet]
  BY DEF NoBuild

LEMMA FreshInit == IndexInit => Fresh
<1> SUFFICES ASSUME IndexInit PROVE Fresh
  OBVIOUS
<1>1. /\ build.quiet = FALSE /\ build.at = "idle"
      /\ build = [at |-> build.at, entries |-> build.entries, todo |-> build.todo,
                  quiet |-> build.quiet]
  BY NoBuildFields DEF IndexInit
<1>2. md \in [Docs -> Bodies \cup {Absent}] /\ html \in [Docs -> Bodies \cup {Absent}]
  BY DEF IndexInit
<1>3. tempHtml \in BOOLEAN /\ slips \in Nat
  BY DEF IndexInit
<1> QED BY <1>1, <1>2, <1>3 DEF Fresh, Filed, Quiet

\* Going on to the next output.
LEMMA GoFields ==
  ASSUME Filed, NEW place, Go(place)
  PROVE  /\ build'.at = place /\ build'.entries = build.entries /\ build'.todo = build.todo
         /\ build'.quiet = build.quiet
         /\ build' = [at |-> build'.at, entries |-> build'.entries, todo |-> build'.todo,
                      quiet |-> build'.quiet]
         /\ Listed' = Listed
<1>1. /\ build'.at = place /\ build'.entries = build.entries /\ build'.todo = build.todo
      /\ build'.quiet = build.quiet
      /\ build' = [at |-> build'.at, entries |-> build'.entries, todo |-> build'.todo,
                   quiet |-> build'.quiet]
  BY DEF Go, Filed
<1> QED BY <1>1 DEF Listed

LEMMA FreshCollect ==
  ASSUME Fresh, NEW render \in BOOLEAN, Collect(render)
  PROVE  Fresh'
<1>1. /\ build' = [at |-> "render", entries |-> {doc_entry(n) : n \in Indexed},
                   todo |-> IF render THEN Renderable(Indexed) ELSE {}, quiet |-> render]
      /\ UNCHANGED <<flavor, files>>
  BY DEF Collect, AfterCollect
<1>2. slips' \in Nat
  BY DEF Collect, Slip, Fresh, Filed
<1>3. Filed'
  BY <1>1, <1>2 DEF Fresh, Filed, files
<1>4. CASE ~render
  BY <1>1, <1>3, <1>4, NotQuiet
<1>5. CASE render
  <2>1. Listed' = Indexed
    <3>1. build'.entries = {doc_entry(n) : n \in Indexed}
      BY <1>1
    <3>2. \A n : doc_entry(n)[1] = n
      BY DEF doc_entry
    <3> QED BY <3>1, <3>2 DEF Listed
  <2>2. build'.todo = Renderable(Indexed) /\ build'.at = "render"
    BY <1>1, <1>5
  <2>3. InPlace'
    BY <1>1, <2>1, IndexedNames DEF InPlace
  <2>4. ASSUME NEW n \in Indexed
        PROVE  Sound(n)'
    <3>1. n \in Docs => md'[n] # Absent
      BY <1>1, IndexedNames, Contents DEF Exists, files
    <3>2. n \in Promised => n \in build'.todo
      BY <2>2, IndexAssumption, NamesAssumption DEF Promised, Renderable, Docs
    <3>3. n \in {TOC, TEMP} => n \in build'.todo
      BY <2>2, NamesAssumption DEF Renderable, Docs, TOC, TEMP, LIBRARY
    <3>4. n = LIBRARY => bundle' # Absent
      BY <1>1, IndexedNames, Contents DEF Exists, files
    <3>5. Promised' = Promised
      BY <1>1 DEF Promised
    <3> QED BY <3>1, <3>2, <3>3, <3>4, <3>5 DEF Sound
  <2> QED BY <1>3, <2>1, <2>2, <2>3, <2>4 DEF Fresh, Quiet
<1> QED BY <1>4, <1>5

LEMMA FreshRender ==
  ASSUME Fresh, NEW n \in Names, Render(n)
  PROVE  Fresh' /\ build'.at = "render"
<1>1. /\ build.at = "render" /\ n \in build.todo /\ slips' \in Nat
      /\ UNCHANGED <<flavor, md, tocMd, tocJson, temp, bundle>>
  BY DEF Render, Slip, Fresh, Filed
<1>2. CASE Exists(n) /\ Write(n) /\ build' = [build EXCEPT !.todo = @ \ {n}]
  <2>1. /\ build'.at = "render" /\ build'.entries = build.entries /\ build'.quiet = build.quiet
        /\ build'.todo = build.todo \ {n}
        /\ build' = [at |-> build'.at, entries |-> build'.entries, todo |-> build'.todo,
                     quiet |-> build'.quiet]
    BY <1>1, <1>2 DEF Fresh, Filed
  <2>2. /\ html' = IF n \in Docs THEN [html EXCEPT ![n] = md[n]] ELSE html
        /\ tocHtml' = IF n = TOC THEN tocMd ELSE tocHtml
        /\ tempHtml' = (tempHtml \/ n = TEMP)
    BY <1>2 DEF Write
  <2>3. html' \in [Docs -> Bodies \cup {Absent}] /\ tempHtml' \in BOOLEAN
    BY <2>2 DEF Fresh, Filed
  <2>4. Filed'
    BY <1>1, <2>1, <2>3 DEF Fresh, Filed
  <2>5. Listed' = Listed /\ Promised' = Promised /\ (InPlace => InPlace')
    BY <1>1, <2>1 DEF Listed, Promised, InPlace
  <2>6. ASSUME NEW m, Sound(m)
        PROVE  Sound(m)'
    <3>1. m \in Promised => m \in build'.todo \/ html'[m] = md'[m]
      BY <1>1, <2>1, <2>2, <2>6, PromisedDocs DEF Sound, Fresh, Filed
    <3>2. m = TOC => m \in build'.todo \/ tocHtml' # Absent
      BY <1>2, <2>1, <2>2, <2>6, Contents DEF Sound, Exists
    <3>3. m = TEMP => m \in build'.todo \/ tempHtml'
      BY <2>1, <2>2, <2>6 DEF Sound
    <3> QED BY <1>1, <2>5, <2>6, <3>1, <3>2, <3>3 DEF Sound
  <2>7. Quiet'
    BY <1>1, <2>1, <2>5, <2>6 DEF Fresh, Quiet, Before
  <2> QED BY <2>1, <2>4, <2>7 DEF Fresh
<1>3. CASE build' = [build EXCEPT !.todo = @ \ {n}, !.quiet = FALSE] /\ UNCHANGED <<html, tocHtml, tempHtml>>
  <2>1. /\ build'.at = "render" /\ build'.quiet = FALSE
        /\ build' = [at |-> build'.at, entries |-> build'.entries, todo |-> build'.todo,
                     quiet |-> build'.quiet]
    BY <1>1, <1>3 DEF Fresh, Filed
  <2>2. Filed'
    BY <1>1, <1>3, <2>1 DEF Fresh, Filed
  <2> QED BY <2>1, <2>2, NotQuiet
<1> QED BY <1>2, <1>3 DEF Render

LEMMA FreshRenderDone ==
  ASSUME Fresh, RenderDone
  PROVE  Fresh' /\ build'.at # "idle"
<1>1. build.at = "render" /\ build.todo = {} /\ Go(FirstOutput) /\ UNCHANGED <<flavor, files, slips>>
  BY DEF RenderDone
<1>2. PICK place : place = FirstOutput /\ place \in {"json", "md"} /\ (flavor # "repo" => place = "md")
  BY DEF FirstOutput
<1>3. /\ build'.at = place /\ build'.todo = {} /\ build'.quiet = build.quiet /\ Listed' = Listed
      /\ build' = [at |-> build'.at, entries |-> build'.entries, todo |-> build'.todo,
                   quiet |-> build'.quiet]
  BY <1>1, <1>2, GoFields DEF Fresh
<1>4. Filed'
  BY <1>1, <1>2, <1>3 DEF Fresh, Filed, files
<1>5. Promised' = Promised /\ (InPlace => InPlace') /\ \A n : Sound(n) => Sound(n)'
  BY <1>1, <1>3 DEF Promised, InPlace, Sound, files
<1>6. ASSUME build.quiet, NEW d \in Listed \cap Promised
      PROVE  html'[d] = md'[d]
  BY <1>1, <1>6 DEF Fresh, Quiet, Before, Sound, files
<1>7. Quiet'
  BY <1>1, <1>2, <1>3, <1>5, <1>6 DEF Fresh, Quiet, Before
<1> QED BY <1>2, <1>3, <1>4, <1>7 DEF Fresh

\* An output that leaves the pages and their sources alone.
LEMMA FreshOutput ==
  ASSUME Fresh, NEW place, Go(place), UNCHANGED <<flavor, md, html, tocHtml, temp, tempHtml, bundle, slips>>,
         \/ flavor = "repo" /\ build.at = "json" /\ place = "md"
         \/ build.at = "md" /\ place = "html"
  PROVE  Fresh' /\ build'.at # "idle"
<1>1. /\ build'.at = place /\ build'.todo = build.todo /\ build'.quiet = build.quiet /\ Listed' = Listed
      /\ build' = [at |-> build'.at, entries |-> build'.entries, todo |-> build'.todo,
                   quiet |-> build'.quiet]
  BY GoFields DEF Fresh
<1>2. Filed'
  BY <1>1 DEF Fresh, Filed
<1>3. Promised' = Promised /\ (InPlace => InPlace') /\ \A n : Sound(n) => Sound(n)'
  BY <1>1 DEF Promised, InPlace, Sound
<1>4. Quiet'
  BY <1>1, <1>3 DEF Fresh, Quiet, Before
<1> QED BY <1>1, <1>2, <1>4 DEF Fresh

\* What was rendered is there to be linked.
LEMMA NothingMissing ==
  ASSUME Fresh, build.quiet, build.at = "html"
  PROVE  Good(HtmlPage(Listed))
<1>1. build.todo = {} /\ InPlace /\ \A n \in Listed : Sound(n)
  BY DEF Fresh, Quiet, Before
<1>2. ASSUME NEW n \in Listed, n \notin Promised, n \in Docs
      PROVE  flavor = "repo" /\ n \in Progress
  BY <1>1, <1>2, NamesAssumption DEF InPlace, Promised, Docs
<1>3. ASSUME NEW n \in Listed, ~Rendered(n)
      PROVE  flavor = "repo" /\ n \in Progress
  <2>1. CASE n \in Promised
    BY <1>1, <1>3, <2>1, Contents, PromisedDocs DEF Sound
  <2>2. CASE n \in Docs \ Promised
    BY <1>2, <2>2
  <2>3. CASE n \in {TOC, TEMP, LIBRARY}
    BY <1>1, <1>3, <2>3, Contents DEF Sound
  <2>4. Listed \subseteq Docs \cup {TOC, TEMP, LIBRARY}
    BY <1>1 DEF InPlace, Docs
  <2> QED BY <2>1, <2>2, <2>3, <2>4
<1>4. MissingHtml(Listed) = {}
  BY <1>3 DEF MissingHtml
<1> QED BY <1>4 DEF Good, HtmlPage

LEMMA FreshWriteHtml ==
  ASSUME Fresh, WriteHtml
  PROVE  Fresh' /\ build'.at # "idle"
<1>1. PICK place : /\ Go(place) /\ place = (IF flavor = "repo" THEN "page" ELSE "json")
  BY DEF WriteHtml
<1>2. /\ build'.at = place /\ build'.todo = build.todo /\ build'.quiet = build.quiet /\ Listed' = Listed
      /\ build' = [at |-> build'.at, entries |-> build'.entries, todo |-> build'.todo,
                   quiet |-> build'.quiet]
  BY <1>1, GoFields DEF Fresh
<1>3. /\ build.at = "html" /\ UNCHANGED <<flavor, md, html, tocMd, tocJson, tempHtml, bundle, slips>>
      /\ IF flavor = "repo" THEN temp' = HtmlPage(Listed) ELSE tocHtml' = HtmlPage(Listed)
  BY DEF WriteHtml
<1>4. Filed'
  BY <1>1, <1>2, <1>3 DEF Fresh, Filed
<1>5. Promised' = Promised /\ (InPlace => InPlace')
  BY <1>2, <1>3 DEF Promised, InPlace
<1>6. build.quiet => IF flavor = "repo" THEN Good(temp)' ELSE Good(tocHtml)'
  <2>1. build.quiet => Good(HtmlPage(Listed))
    BY <1>3, NothingMissing
  <2> QED BY <1>2, <1>3, <2>1 DEF Good
<1>7. Quiet'
  BY <1>1, <1>2, <1>3, <1>5, <1>6 DEF Fresh, Quiet, Before
<1> QED BY <1>1, <1>2, <1>4, <1>7 DEF Fresh

LEMMA FreshRenderPage ==
  ASSUME Fresh, RenderPage
  PROVE  Fresh' /\ build'.at # "idle"
<1>1. /\ build.at = "page" /\ tocHtml' = temp /\ Go("unlink")
      /\ UNCHANGED <<flavor, md, html, tocMd, tocJson, temp, tempHtml, bundle, slips>>
  BY DEF RenderPage
<1>2. /\ build'.at = "unlink" /\ build'.todo = build.todo /\ build'.quiet = build.quiet /\ Listed' = Listed
      /\ build' = [at |-> build'.at, entries |-> build'.entries, todo |-> build'.todo,
                   quiet |-> build'.quiet]
  BY <1>1, GoFields DEF Fresh
<1>3. Filed'
  BY <1>1, <1>2 DEF Fresh, Filed
<1>4. Promised' = Promised /\ (InPlace => InPlace') /\ (Good(temp) => Good(tocHtml)')
  BY <1>1, <1>2 DEF Promised, InPlace, Good
<1>5. Quiet'
  BY <1>1, <1>2, <1>4 DEF Fresh, Quiet, Before
<1> QED BY <1>2, <1>3, <1>5 DEF Fresh

LEMMA FreshEnds ==
  ASSUME Fresh, build' = NoBuild, md' = md, html' = html, tempHtml' = tempHtml, slips' \in Nat
  PROVE  Fresh'
<1>1. Filed'
  BY NoBuildFields DEF Fresh, Filed
<1> QED BY <1>1, NoBuildFields, NotQuiet

LEMMA FreshLibrary ==
  ASSUME Fresh, build_doc_library
  PROVE  Fresh'
<1>1. /\ \A d \in load_docs_from_toc : Exists(d)
      /\ bundle' = {doc_entry(d) : d \in load_docs_from_toc}
      /\ UNCHANGED <<flavor, md, html, tocMd, tocHtml, tocJson, temp, tempHtml, build, slips>>
  BY DEF build_doc_library
<1>2. load_docs_from_toc \subseteq Docs
  BY IndexAssumption DEF Docs, load_docs_from_toc
<1>3. \A d \in load_docs_from_toc : doc_entry(d) \in Docs \X Bodies
  BY <1>1, <1>2, Contents DEF doc_entry, Exists, Fresh, Filed
<1>4. bundle' # Absent
  BY <1>1, <1>3, NamesAssumption
<1>5. Filed' /\ Listed' = Listed /\ Promised' = Promised
  BY <1>1 DEF Fresh, Filed, Listed, Promised
<1>6. (InPlace => InPlace') /\ \A n : Sound(n) => Sound(n)'
  BY <1>1, <1>4, <1>5 DEF InPlace, Sound
<1>7. \A page : Good(page) => Good(page)'
  BY <1>5 DEF Good
<1>8. Quiet'
  BY <1>1, <1>5, <1>6, <1>7 DEF Fresh, Quiet, Before
<1> QED BY <1>5, <1>8 DEF Fresh

LEMMA FreshEdit ==
  ASSUME Fresh, NEW d \in Docs, NEW t \in Bodies \cup {Absent}, Edit(d, t)
  PROVE  Fresh'
<1>1. /\ build' = [build EXCEPT !.quiet = FALSE] /\ md' = [md EXCEPT ![d] = t]
      /\ UNCHANGED <<html, tempHtml>> /\ slips' = slips + 1
  BY DEF Edit, Slip
<1>2. /\ build'.quiet = FALSE
      /\ build' = [at |-> build'.at, entries |-> build'.entries, todo |-> build'.todo,
                   quiet |-> build'.quiet]
  BY <1>1 DEF Fresh, Filed
<1>3. Filed'
  BY <1>1, <1>2 DEF Fresh, Filed
<1> QED BY <1>2, <1>3, NotQuiet

\* Every step, and where a build ends that nothing disturbed.
LEMMA FreshStep ==
  ASSUME Fresh, [IndexNext]_indexVars
  PROVE  /\ Fresh'
         /\ build.quiet /\ build' = NoBuild /\ slips' = slips =>
              /\ UNCHANGED <<md, html, flavor>> /\ tocHtml' = tocHtml
              /\ IF flavor = "repo" THEN build.at = "unlink" ELSE build.at = "json"
<1>1. slips + 1 # slips /\ slips + 1 \in Nat /\ (build.quiet => build # NoBuild)
  BY NoBuildFields DEF Fresh, Filed
<1>2. CASE UNCHANGED indexVars
  <2>1. Fresh'
    BY <1>2 DEF indexVars, files, Fresh, Filed, Quiet, Before, InPlace, Good, Sound, Listed, Promised
  <2> QED BY <1>1, <1>2, <2>1 DEF indexVars
<1>3. ASSUME NEW render \in BOOLEAN, Collect(render)
      PROVE  Fresh' /\ build = NoBuild
  BY <1>3, FreshCollect DEF Collect
<1>4. ASSUME NEW n \in Names, Render(n)
      PROVE  Fresh' /\ build' # NoBuild
  BY <1>4, FreshRender, NoBuildFields
<1>5. CASE RenderDone \/ WriteMd \/ WriteHtml \/ RenderPage \/ (flavor = "repo" /\ WriteJson)
  <2>1. CASE WriteMd
    <3>1. /\ Go("html") /\ build.at = "md"
          /\ UNCHANGED <<flavor, md, html, tocHtml, temp, tempHtml, bundle, slips>>
      BY <2>1 DEF WriteMd
    <3> QED BY <3>1, FreshOutput, NoBuildFields
  <2>2. CASE flavor = "repo" /\ WriteJson
    <3>1. /\ Go("md") /\ build.at = "json"
          /\ UNCHANGED <<flavor, md, html, tocHtml, temp, tempHtml, bundle, slips>>
      BY <2>2 DEF WriteJson
    <3> QED BY <2>2, <3>1, FreshOutput, NoBuildFields
  <2> QED BY <1>5, <2>1, <2>2, FreshRenderDone, FreshWriteHtml, FreshRenderPage, NoBuildFields
<1>6. CASE Unlink
  <2>1. /\ build' = NoBuild /\ build.at = "unlink"
        /\ UNCHANGED <<flavor, md, html, tocHtml, tempHtml, slips>>
    BY <1>6 DEF Unlink
  <2>2. Fresh'
    BY <2>1, FreshEnds DEF Fresh, Filed
  <2>3. build.quiet => flavor = "repo"
    BY <2>1 DEF Fresh, Quiet
  <2> QED BY <2>1, <2>2, <2>3
<1>7. CASE flavor # "repo" /\ WriteJson
  <2>1. /\ build' = NoBuild /\ build.at = "json"
        /\ UNCHANGED <<flavor, md, html, tocHtml, tempHtml, slips>>
    BY <1>7 DEF WriteJson
  <2>2. Fresh'
    BY <2>1, FreshEnds DEF Fresh, Filed
  <2> QED BY <1>7, <2>1, <2>2
<1>8. CASE build_doc_library
  <2>1. build' = build
    BY <1>8 DEF build_doc_library
  <2> QED BY <1>1, <1>8, <2>1, FreshLibrary
<1>9. ASSUME NEW d \in Docs, NEW t \in Bodies \cup {Absent}, Edit(d, t)
      PROVE  Fresh' /\ slips' = slips + 1
  BY <1>9, FreshEdit DEF Edit, Slip
<1>10. CASE End
  <2>1. build' = NoBuild /\ slips' = slips + 1 /\ UNCHANGED <<md, html, tempHtml>>
    BY <1>10 DEF End, Slip, files
  <2> QED BY <1>1, <2>1, FreshEnds
<1> QED BY <1>1, <1>2, <1>3, <1>4, <1>5, <1>6, <1>7, <1>8, <1>9, <1>10, NoBuildFields DEF IndexNext, Build

\* A build that nothing disturbs leaves an index whose every link lands on a page rendered
\* from what the document says, in either pipeline and whatever earlier builds left behind.
THEOREM QuietBuildsAreFresh == IndexSpec => QuietBuildIsFresh
<1>1. Fresh /\ [IndexNext]_indexVars => Fresh'
  BY FreshStep
<1>2. ASSUME Fresh, [IndexNext]_indexVars, build.quiet, build' = NoBuild, slips' = slips
      PROVE  LET listed == Docs \cap tocHtml'.docs
             IN /\ tocHtml'.links = "html" /\ tocHtml'.missing = {}
                /\ \A d \in listed \cap Promised : html'[d] = md'[d]
  <2>1. /\ UNCHANGED <<md, html, flavor>> /\ tocHtml' = tocHtml
        /\ IF flavor = "repo" THEN build.at = "unlink" ELSE build.at = "json"
    BY <1>2, FreshStep
  <2>2. Good(tocHtml) /\ \A d \in Listed \cap Promised : html[d] = md[d]
    BY <1>2, <2>1 DEF Fresh, Quiet
  <2> QED BY <2>1, <2>2 DEF Good
<1>3. ASSUME Fresh, [IndexNext]_indexVars
      PROVE  [ build.quiet /\ build' = NoBuild /\ slips' = slips =>
                 LET listed == Docs \cap tocHtml'.docs
                 IN /\ tocHtml'.links = "html" /\ tocHtml'.missing = {}
                    /\ \A d \in listed \cap Promised : html'[d] = md'[d] ]_indexVars
  BY <1>2, <1>3
<1> QED BY <1>1, <1>3, FreshInit, PTL DEF IndexSpec, QuietBuildIsFresh
=============================================================================
