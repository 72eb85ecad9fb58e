------------------------------ MODULE BoardViews ------------------------------
(***************************************************************************)
(* What a card of the board and the drawer's Related tab show of the       *)
(* tickets of TaskBoard and their edges, and what they must show of an     *)
(* edge when a ticket closes.                                              *)
(***************************************************************************)
EXTENDS TaskBoard

-----------------------------------------------------------------------------
(* The board *)

\* The chip "blocked: ..." names the blocker, whatever became of it.
_render_card(t) == [id |-> number[t], blocked |-> blockedBy[t]]

-----------------------------------------------------------------------------
(* The drawer *)

\* The other ends of the pairs that hold this ticket.
OtherEnds(t) == UNION {l \ {t} : l \in {k \in links : t \in k}}

task_relationships(t) ==
  [blocked_by |-> blockedBy[t],
   blocks     |-> {d \in Tasks : blockedBy[d] = t},
   related    |-> {d \in OtherEnds(t) : Exists(d)}]

-----------------------------------------------------------------------------
(* What the views promise *)

\* A closing ticket leaves no card with a chip that names it (VF-163).
ClosingUnblocks ==
  [][\A t \in Tasks :
       status[t] \notin Terminal \cup {None} /\ status'[t] \in Terminal
         => \A d \in Tasks : _render_card(d)'.blocked # t]_vars

\* An edge that a closing removes stays visible in the drawers of both tickets as a related
\* link (VF-163: "history preserved"), also when others link and close meanwhile; only a
\* link removed between the cascade and the commit would take it along.
EdgesLeaveLinks ==
  [][\A w \in Workers, t \in Tasks :
       Holds(w, "patch") /\ req[w].task = t /\ req'[w] # req[w] =>
         \A d \in task_relationships(t).blocks :
           _render_card(d)'.blocked # t =>
             d \in task_relationships(t)'.related /\ t \in task_relationships(d)'.related]_vars
=============================================================================
