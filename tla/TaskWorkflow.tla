---------------------------- MODULE TaskWorkflow ----------------------------
(***************************************************************************)
(* What the board promises about the life of one ticket, whatever the      *)
(* board does internally: a ticket moves along the ITIL-aligned            *)
(* transitions only, is closed as done only with a completion note of the  *)
(* current cycle, keeps that note while it is done, and loses it when it   *)
(* leaves done or cancelled.                                               *)
(***************************************************************************)
CONSTANTS Tasks, None, VALID_TRANSITIONS

Statuses == DOMAIN VALID_TRANSITIONS
Terminal == {"done", "cancelled"}

VARIABLES
  status,  \* of each ticket, None before it is created
  noted    \* whether it has a live completion note of the current cycle

vars == <<status, noted>>

Init == status = [t \in Tasks |-> None] /\ noted = [t \in Tasks |-> FALSE]

Create(t) ==
  /\ status[t] = None
  /\ \E s \in Statuses : status' = [status EXCEPT ![t] = s]
  /\ UNCHANGED noted

Move(t, to) ==
  /\ status[t] # None /\ to \in VALID_TRANSITIONS[status[t]]
  /\ to = "done" => noted[t]
  /\ status' = [status EXCEPT ![t] = to]
  /\ noted' = [noted EXCEPT ![t] = @ /\ status[t] \notin Terminal]

PostNote(t) ==
  /\ status[t] # None
  /\ noted' = [noted EXCEPT ![t] = TRUE]
  /\ UNCHANGED status

RetractNote(t) ==
  /\ status[t] \notin {None, "done"}
  /\ noted' = [noted EXCEPT ![t] = FALSE]
  /\ UNCHANGED status

Next == \E t \in Tasks :
  \/ Create(t) \/ PostNote(t) \/ RetractNote(t)
  \/ \E to \in Statuses : Move(t, to)

Spec == Init /\ [][Next]_vars
=============================================================================
