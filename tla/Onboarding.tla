----------------------------- MODULE Onboarding -----------------------------
(***************************************************************************)
(* The onboard workflow of one project: the steps that an agent registers  *)
(* with the board, the gate that keeps agents from writing until it is     *)
(* done, the absorption ticket that completing it creates, and the last    *)
(* step, stamped when the first ticket is closed.                          *)
(*                                                                         *)
(* All of it is one JSON document, projects.onboard_state.  Every handler  *)
(* copies the document, changes the copy and writes the whole of it back   *)
(* at the commit, and another request may commit in between.  Callers may  *)
(* write (module Access); a request that is refused changes nothing, and   *)
(* neither does a completion whose ticket the database refuses: its        *)
(* transaction is lost with the ticket.                                    *)
(***************************************************************************)
EXTENDS Naturals, FiniteSets, Sequences, SequencesExt

CONSTANTS
  Texts,      \* plans and manifests; the hash of one tells it from the others
  Tickets,    \* tickets of the project, created or not
  Workers,    \* request threads
  MaxOthers,  \* bound on the requests besides those of the guided agent
  None        \* SQL NULL: an absent key, or no ticket

ASSUME OnboardingAssumption ==
  /\ None \notin Texts \cup Tickets \cup {"natural", "forced"}
  /\ Workers # {} /\ MaxOthers \in Nat

VARIABLES
  state,   \* projects.onboard_state
  ticket,  \* tickets: status and who created them, None when not created
  unit,    \* what each request is about to commit
  hint,    \* next_step as the guided agent last heard it
  others,  \* requests made so far besides those of the guided agent
  opened   \* history: the gate has been open

vars == <<state, ticket, unit, hint, others, opened>>

-----------------------------------------------------------------------------
(* The document *)

\* The steps that are registered with a value and no more.
PlainSteps == {"framing_acknowledged", "tooling_hash", "doc_complexity", "compaction_practice"}

\* Mutant: the manifest is not among the steps.
OrderWithoutManifest == <<"framing_acknowledged", "tooling_hash", "doc_complexity",
                          "compaction_practice", "plan_hash", "first_close_complete">>

ONBOARD_STEP_ORDER == <<"framing_acknowledged", "tooling_hash", "doc_complexity",
                        "compaction_practice", "plan_hash", "agent_md_hash",
                        "first_close_complete">>

Steps == Range(ONBOARD_STEP_ORDER)

State == [acked : SUBSET PlainSteps, plan : Texts \cup {None}, plan_content : Texts \cup {None},
          md : Texts \cup {None}, md_content : Texts \cup {None}, completed : BOOLEAN,
          absorption : Tickets \cup {None}, close : {None, "natural", "forced"}]

Blank == [acked |-> {}, plan |-> None, plan_content |-> None, md |-> None, md_content |-> None,
          completed |-> FALSE, absorption |-> None, close |-> None]

Has(s, step) ==
  CASE step \in PlainSteps            -> step \in s.acked
    [] step = "plan_hash"             -> s.plan # None
    [] step = "agent_md_hash"         -> s.md # None
    [] step = "first_close_complete"  -> s.close # None

OperationallyComplete(s) == s.md # None /\ s.completed
FullyComplete(s) == OperationallyComplete(s) /\ s.close # None

\* The first step in the order that is missing.
_next_step(s) ==
  LET missing == {i \in DOMAIN ONBOARD_STEP_ORDER : ~Has(s, ONBOARD_STEP_ORDER[i])} IN
  IF missing = {} THEN None
  ELSE ONBOARD_STEP_ORDER[CHOOSE i \in missing : \A j \in missing : i <= j]

NextStep(s) == IF FullyComplete(s) THEN None ELSE _next_step(s)

\* Mutant: the plan is enough.
PlanOpensGate(s) == s.plan # None

\* _resolve_actor: what an agent's write to the tickets asks for.
OnboardGate(s) == OperationallyComplete(s)

\* What get_artefact answers for the plan and for the manifest.
Artefact(hash, content) == [hash |-> hash, content |-> content, captured |-> content # None]
Artefacts(s) == {a \in {Artefact(s.plan, s.plan_content), Artefact(s.md, s.md_content)} : a.hash # None}

-----------------------------------------------------------------------------
(* The unit of work *)

Callers == {"guide", "agent", "human"}

\* A request of one caller: the document it writes back (None for none), the
\* tickets that it inserts and those that it closes.
Request(by, new, makes, closes) == [by |-> by, new |-> new, makes |-> makes, closes |-> closes]

Idle == Request(None, None, {}, {})

Rows == [status : {"open", "done"}, by : Callers]

\* NULL is told from a document and from a row.
ASSUME NoneAssumption == None \notin State \cup Rows \cup Callers

Init ==
  /\ state = Blank
  /\ ticket = [t \in Tickets |-> None]
  /\ unit = [w \in Workers |-> Idle]
  /\ hint = None /\ others = 0 /\ opened = FALSE

\* The tickets that no row and no pending insert has; an insert takes one.
Unborn == {t \in Tickets : ticket[t] = None /\ \A w \in Workers : t \notin unit[w].makes}
NewTicket == CHOOSE t \in Unborn : TRUE

\* The guided agent waits for its answer; the others are counted.
Turn(by) ==
  IF by = "guide"
    THEN (\A w \in Workers : unit[w].by # "guide") /\ UNCHANGED others
    ELSE others < MaxOthers /\ others' = others + 1

\* A request has copied the document and changed the copy.
Decide(w, q) ==
  /\ unit[w] = Idle /\ Turn(q.by)
  /\ unit' = [unit EXCEPT ![w] = q]
  /\ UNCHANGED <<state, ticket, hint, opened>>

Born(t, q) ==
  IF t \in q.makes THEN [status |-> "open", by |-> q.by]
  ELSE IF t \in q.closes THEN [ticket[t] EXCEPT !.status = "done"] ELSE ticket[t]

Commit(w) ==
  /\ unit[w] # Idle
  /\ LET q == unit[w] IN
       /\ state' = IF q.new = None THEN state ELSE q.new
       /\ ticket' = [t \in Tickets |-> Born(t, q)]
       /\ hint' = IF q.by = "guide" THEN _next_step(q.new) ELSE hint
  /\ opened' = (opened \/ OperationallyComplete(state'))
  /\ unit' = [unit EXCEPT ![w] = Idle]
  /\ UNCHANGED others

-----------------------------------------------------------------------------
(* The handlers *)

ack_onboard_step(w, by, step) ==
  /\ step \in PlainSteps
  /\ Decide(w, Request(by, [state EXCEPT !.acked = @ \cup {step}], {}, {}))

\* The content comes along or not; without it the document keeps what it has.
AckPlan(w, by, text, content) ==
  Decide(w, Request(by, [state EXCEPT !.plan = text,
                                      !.plan_content = IF content THEN text ELSE @], {}, {}))

Manifest(text, content) ==
  [state EXCEPT !.md = text, !.completed = TRUE, !.md_content = IF content THEN text ELSE @]

\* The first completion creates the absorption ticket.
complete_onboard(w, by, text, content) ==
  IF state.md = None /\ state.absorption = None
    THEN /\ Unborn # {}
         /\ Decide(w, Request(by, [Manifest(text, content) EXCEPT !.absorption = NewTicket],
                              {NewTicket}, {}))
    ELSE Decide(w, Request(by, Manifest(text, content), {}, {}))

force_finish_onboard(w, by) ==
  /\ OperationallyComplete(state) /\ state.close = None
  /\ Decide(w, Request(by, [state EXCEPT !.close = "forced"], {}, {}))

reset_onboard_state(w, by) == Decide(w, Request(by, Blank, {}, {}))

\* Mutant: any first close is stamped.
StampsAnyClose(s) == s.close = None

\* patch_task: the first close after the completion is stamped.
StampsClose(s) == s.md # None /\ s.close = None

CloseTicket(w, t) ==
  /\ ticket[t] # None /\ ticket[t].status = "open"
  /\ Decide(w, Request("human",
       IF StampsClose(state) THEN [state EXCEPT !.close = "natural"] ELSE None, {}, {t}))

create_task(w, by) ==
  /\ by = "agent" => OnboardGate(state)
  /\ Unborn # {}
  /\ Decide(w, Request(by, None, {NewTicket}, {}))

-----------------------------------------------------------------------------
(* The agent that follows the hints *)

\* It asks for the state, or a write that the gate refuses tells it.
get_onboard_state ==
  /\ \A w \in Workers : unit[w].by # "guide"
  /\ hint' = NextStep(state)
  /\ UNCHANGED <<state, ticket, unit, others, opened>>

\* It does what the answer says.
Follow(w) ==
  \/ ack_onboard_step(w, "guide", hint)
  \/ hint = "plan_hash" /\ \E x \in Texts : AckPlan(w, "guide", x, TRUE)
  \/ hint = "agent_md_hash" /\ \E x \in Texts : complete_onboard(w, "guide", x, TRUE)

Other(w, by) ==
  \/ \E step \in PlainSteps : ack_onboard_step(w, by, step)
  \/ \E x \in Texts, content \in BOOLEAN : AckPlan(w, by, x, content) \/ complete_onboard(w, by, x, content)
  \/ force_finish_onboard(w, by) \/ reset_onboard_state(w, by)
  \/ create_task(w, by)

Next ==
  \/ get_onboard_state
  \/ \E w \in Workers :
       \/ Commit(w) \/ Follow(w)
       \/ \E by \in {"agent", "human"} : Other(w, by)
       \/ \E t \in Tickets : CloseTicket(w, t)

\* The server finishes the requests it took, and the agent does as it is told.
Fairness ==
  /\ \A w \in Workers : WF_vars(Commit(w))
  /\ WF_vars(get_onboard_state) /\ WF_vars(\E w \in Workers : Follow(w))

Spec == Init /\ [][Next]_vars /\ Fairness

-----------------------------------------------------------------------------
(* Properties *)

Units == [by : Callers, new : State \cup {None}, makes : SUBSET Tickets, closes : SUBSET Tickets]

(* Every variable has its type; in particular a request that writes the
   document back writes one that a handler can read. *)
TypeOK ==
  /\ state \in State
  /\ ticket \in [Tickets -> Rows \cup {None}]
  /\ unit \in [Workers -> Units \cup {Idle}]
  /\ hint \in Steps \cup {None} /\ others \in 0..MaxOthers /\ opened \in BOOLEAN

(* However requests overlap, the document is one that some handler wrote: the
   hash and the time of the completion come together, the last step is stamped
   and an absorption ticket recorded only beside them, and that ticket exists
   (complete_onboard, patch_task, force_finish_onboard, reset_onboard_state). *)
DocumentIsWhole ==
  /\ state.completed <=> state.md # None
  /\ state.close # None => state.md # None
  /\ state.absorption # None => state.md # None /\ ticket[state.absorption] # None

(* An agent's ticket comes after a completion, whatever was reset or written
   back since (the gate of _resolve_actor). *)
AgentsWaitForGate == \A t \in Tickets :
  (ticket[t] # None /\ ticket[t].by = "agent") => opened

(* The agent that does what next_step says gets the gate open, and it stays
   open once the other requests have ended, whatever they reset, registered
   out of order or overwrote ("Also enables resumable onboard from any saved
   state"). *)
GateOpens == <>[]OperationallyComplete(state)

(* What the artefact endpoint answers belongs together: a content that is said
   to be captured is that of the hash beside it.  (Refuted: README, Disagreements.) *)
ContentIsOfHash == \A a \in Artefacts(state) : a.captured => a.content = a.hash
=============================================================================
