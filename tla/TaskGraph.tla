----------------------------- MODULE TaskGraph -----------------------------
(***************************************************************************)
(* The vocabulary of a decomposed task (internal/task): the states of its  *)
(* subtasks and what one call of TaskRunner.RunTask may leave of them.     *)
(*                                                                         *)
(* A plan `deps` is the function from the task's subtasks to the ids they  *)
(* name in DependsOn; an id that is no subtask of the plan is a dangling   *)
(* dependency.  `st` is the State field of every subtask of the plan.      *)
(* No operator here is recursive: the outcome of a run is characterised as *)
(* a least closed set, so that the modules above can be proved about.      *)
(***************************************************************************)

\* The states a task, a subtask or an action of this code is ever given
\* ("paused" is declared in types.go and assigned nowhere).
TaskState == {"pending", "in_progress", "completed", "failed", "cancelled"}

SubtaskState == {"pending", "in_progress", "completed", "failed"}

Completed(st) == {s \in DOMAIN st : st[s] = "completed"}
Failed(st)    == {s \in DOMAIN st : st[s] = "failed"}
Terminal(st)  == Completed(st) \cup Failed(st)

AllPending(plan) == [s \in DOMAIN plan |-> "pending"]

\* Every subtask outside `bad` whose dependencies lie in C is in C.
Closed(deps, bad, C) ==
  \A s \in DOMAIN deps \ bad : deps[s] \subseteq C => s \in C

\* The subtasks that can be reached from nothing along dependencies without
\* passing through `bad`: the least closed set.  A subtask on a cycle, behind
\* a dangling id or behind a bad subtask is not among them.
Reachable(deps, bad) ==
  {s \in DOMAIN deps : \A C \in SUBSET DOMAIN deps : Closed(deps, bad, C) => s \in C}

\* No subtask that is still to be run has all its dependencies completed.
Quiescent(deps, st) ==
  \A s \in DOMAIN deps \ Terminal(st) : ~(deps[s] \subseteq Completed(st))

\* What RunTask may turn `before` into when it returns without a context
\* error: terminal subtasks are kept, nothing is left half way, exactly the
\* subtasks reachable around the failed ones have completed, and a subtask
\* failed only after it was really run.
IsRunOutcome(deps, before, after) ==
  /\ \A s \in Terminal(before) : after[s] = before[s]
  /\ \A s \in DOMAIN deps : after[s] # "in_progress"
  /\ Completed(after) = Reachable(deps, Failed(after))
  /\ \A s \in Failed(after) : deps[s] \subseteq Completed(after)
=============================================================================
