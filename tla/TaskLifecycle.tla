--------------------------- MODULE TaskLifecycle ---------------------------
(***************************************************************************)
(* What internal/executor/service.go promises of the state of a task, with *)
(* every operation one indivisible step: the guards that the operations    *)
(* check before they write, and nothing of how they read and write.        *)
(*                                                                         *)
(* A task in `lost` has been written by an operation that had not seen the *)
(* record it replaced; nothing is promised of it any more.                 *)
(***************************************************************************)
EXTENDS Naturals

CONSTANTS Task, MaxRetries

VARIABLES
  state,   \* the State of each task, "absent" before it is created
  retry,   \* its RetryCount
  lost     \* the tasks that have suffered a lost update

vars == <<state, retry, lost>>

Move(t, from, to) ==
  /\ t \notin lost
  /\ state[t] \in from
  /\ state' = [state EXCEPT ![t] = to]

Create(t) == Move(t, {"absent"}, "pending") /\ UNCHANGED <<retry, lost>>
Start(t)  == Move(t, {"pending", "failed"}, "in_progress") /\ UNCHANGED <<retry, lost>>
End(t)    == \/ Move(t, {"in_progress"}, "completed") /\ UNCHANGED <<retry, lost>>
             \/ Move(t, {"in_progress"}, "failed") /\ UNCHANGED <<retry, lost>>
Cancel(t) == Move(t, {"pending", "in_progress", "failed"}, "cancelled")
             /\ UNCHANGED <<retry, lost>>
Retry(t)  == /\ Move(t, {"failed"}, "pending")
             /\ retry[t] < MaxRetries
             /\ retry' = [retry EXCEPT ![t] = @ + 1]
             /\ UNCHANGED lost

\* A lost update: it may leave any state and any earlier retry count.
Overwrite(t) ==
  /\ state' = [state EXCEPT ![t] = state'[t]]
  /\ retry' = [retry EXCEPT ![t] = retry'[t]]
  /\ lost' = lost \cup {t}

Init == /\ state = [t \in Task |-> "absent"]
        /\ retry = [t \in Task |-> 0]
        /\ lost = {}

Next == \E t \in Task :
  Create(t) \/ Start(t) \/ End(t) \/ Cancel(t) \/ Retry(t) \/ Overwrite(t)

Spec == Init /\ [][Next]_vars
=============================================================================
