---------------------------- MODULE StateMachine ----------------------------
(***************************************************************************)
(* The lifecycle state machine of the supervisor (src/src/state_machine.cpp *)
(* and state_machine.hpp).  The state is an atomic value written only      *)
(* under the state machine's mutex; transition_to validates the move       *)
(* against the table and either stores the target or fails without any     *)
(* change.  Callers in the dispatcher ignore the boolean it returns.       *)
(***************************************************************************)

\* enum class State
States == {"IDLE", "STARTING", "RUNNING", "STOPPING"}

\* StateMachine::is_valid_transition: the only permitted moves.
IsValidTransition(from, to) ==
    \/ from = "IDLE"     /\ to = "STARTING"
    \/ from = "STARTING" /\ to \in {"RUNNING", "IDLE"}
    \/ from = "RUNNING"  /\ to \in {"STOPPING", "IDLE"}
    \/ from = "STOPPING" /\ to = "IDLE"

\* StateMachine::transition_to: the state after the call, which validates the
\* move and stores the target, or fails and leaves the state as it was.  A
\* handler that calls it twice in one critical section nests the calls.
TransitionTo(from, to) ==
    IF IsValidTransition(from, to) THEN to ELSE from

=============================================================================
