-------------------------- MODULE SessionLifecycle --------------------------
(***************************************************************************)
(* What the supervisor promises about sessions (spec.md §3, invariants 1   *)
(* and 4): a session starts by creating its log, header first, and         *)
(* spawning the child into it; the child is gone (reaped) before the       *)
(* footer is written; a new log is created only after the previous one got *)
(* its footer.  `cur` numbers the log files created so far and `phase` is  *)
(* where the newest one is in its life.                                    *)
(***************************************************************************)
EXTENDS Naturals

CONSTANT MaxSessions        \* how many logs a behaviour may create

VARIABLES cur, phase

Init == cur = 0 /\ phase = "none"

\* A log is created with its header and the child spawned writing into it.
Start ==
    /\ phase \in {"none", "closed"}
    /\ cur < MaxSessions
    /\ cur' = cur + 1
    /\ phase' = "running"

\* A log is created and closed again, or fails to be created, and no child
\* is left behind.
Abandon ==
    /\ phase \in {"none", "closed"}
    /\ cur < MaxSessions
    /\ cur' = cur + 1
    /\ phase' = "closed"

\* The child has exited and has been reaped by the supervisor; its log is
\* still open.
Reap == phase = "running" /\ phase' = "dead" /\ UNCHANGED cur

\* The footer is written and the log closed, and no child of this session
\* is left: it was reaped before, or in the same critical section.
Close == phase \in {"running", "dead"} /\ phase' = "closed" /\ UNCHANGED cur

Next == Start \/ Abandon \/ Reap \/ Close

Spec == Init /\ [][Next]_<<cur, phase>>

=============================================================================
