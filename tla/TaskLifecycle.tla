--------------------------- MODULE TaskLifecycle ---------------------------
(***************************************************************************)
(* What the task table of uas/task_master.py promises, whatever runs       *)
(* behind it: a record is created queued, moves only along the transition  *)
(* table, and leaves the store only from a terminal state.  FleetRuns is   *)
(* shown to implement this specification.                                  *)
(***************************************************************************)

CONSTANT Tasks      \* the ids task_master ever mints

VARIABLE state      \* state[t]: the stored state, or "absent"/"deleted"

TaskStates ==
  {"queued", "in_progress", "awaiting_approval", "completed", "failed", "cancelled"}

TerminalStates == {"completed", "failed", "cancelled"}

\* ALLOWED_TASK_TRANSITIONS, as the set of edges leaving each stored state.
AllowedTransitions ==
  [s \in TaskStates |->
     CASE s = "queued" ->
            {"in_progress", "awaiting_approval", "completed", "failed", "cancelled"}
       [] s = "in_progress" -> {"awaiting_approval", "completed", "failed"}
       [] s = "awaiting_approval" -> {"in_progress", "completed", "failed", "cancelled"}
       [] OTHER -> {}]

Stored(t) == state[t] \in TaskStates

TypeOK == state \in [Tasks -> TaskStates \cup {"absent", "deleted"}]

Init == state = [t \in Tasks |-> "absent"]

\* A creation and the moves its handler makes before it first suspends are
\* one step of the table: a task is first seen queued, running, failed or
\* awaiting its approval.
Create(t, s) ==
  /\ state[t] = "absent"
  /\ s \in {"queued", "in_progress", "awaiting_approval", "failed"}
  /\ state' = [state EXCEPT ![t] = s]

Move(t, s) ==
  /\ Stored(t)
  /\ s \in AllowedTransitions[state[t]]
  /\ state' = [state EXCEPT ![t] = s]

Delete(t) ==
  /\ state[t] \in TerminalStates
  /\ state' = [state EXCEPT ![t] = "deleted"]

Next ==
  \E t \in Tasks :
    \/ \E s \in TaskStates : Create(t, s) \/ Move(t, s)
    \/ Delete(t)

Spec == Init /\ [][Next]_state
=============================================================================
