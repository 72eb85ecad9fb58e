------------------------------ MODULE AgentPause ------------------------------
(***************************************************************************)
(* What the drift gate promises: while the gate is enforced, a paused      *)
(* agent starts no write.  A write admitted before the pause may still     *)
(* land.  Pauses end one agent at a time, when a human clears a ticket, or *)
(* all at once.  A human's clear may leave the agent paused: then it is a  *)
(* stuttering step here.                                                   *)
(***************************************************************************)
CONSTANTS Agents, Requests, None

VARIABLES
  enforced,  \* whether pauses are enforced (off: observation mode)
  paused,    \* the paused agents
  admitted   \* the agent whose write each request thread is carrying out

vars == <<enforced, paused, admitted>>

Init ==
  /\ enforced = TRUE
  /\ paused = {}
  /\ admitted = [r \in Requests |-> None]

Admit(r, a) ==
  /\ admitted[r] = None
  /\ enforced => a \notin paused
  /\ admitted' = [admitted EXCEPT ![r] = a]
  /\ UNCHANGED <<enforced, paused>>

Finish(r) ==
  /\ admitted[r] # None
  /\ admitted' = [admitted EXCEPT ![r] = None]
  /\ UNCHANGED <<enforced, paused>>

Pause(a) ==
  /\ paused' = paused \cup {a}
  /\ UNCHANGED <<enforced, admitted>>

Resume(a) ==
  /\ paused' = paused \ {a}
  /\ UNCHANGED <<enforced, admitted>>

ResumeAll ==
  /\ paused' = {}
  /\ UNCHANGED <<enforced, admitted>>

Enforce ==
  /\ enforced' = ~enforced
  /\ UNCHANGED <<paused, admitted>>

Next ==
  \/ \E r \in Requests : Finish(r) \/ \E a \in Agents : Admit(r, a)
  \/ \E a \in Agents : Pause(a) \/ Resume(a)
  \/ ResumeAll \/ Enforce

Spec == Init /\ [][Next]_vars
=============================================================================
