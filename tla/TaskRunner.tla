----------------------------- MODULE TaskRunner -----------------------------
(***************************************************************************)
(* task.TaskRunner (internal/task/executor.go): one goroutine runs RunTask *)
(* over its own copy of a task, pass after pass, and RunSubtask over the   *)
(* actions of every subtask whose dependencies are recorded as completed.  *)
(* The context may be cancelled at any moment; an action may fail.         *)
(*                                                                         *)
(* Between two calls the task goes through executor.taskService, which     *)
(* lets a failed task be started again as it is (Start) or with its        *)
(* subtasks reset (Retry, then Start).                                     *)
(***************************************************************************)
EXTENDS Naturals, FiniteSets, TaskGraph, TLAPS

CONSTANTS
  N,            \* the number of subtasks; a subtask is its index in Subtasks
  Plans,        \* the plans a decomposer may produce
  NumActions    \* how many actions each subtask has

ASSUME NAssumption == N \in Nat
ASSUME PlansAssumption == Plans \subseteq [1..N -> SUBSET Nat]
ASSUME NumActionsAssumption == NumActions \in [1..N -> Nat]

VARIABLES
  deps,        \* Subtasks[i].DependsOn, fixed at creation
  st,          \* Subtasks[i].State
  act,         \* Subtasks[i].Actions[j].State
  completed,   \* the ids the local map `completed` holds true
  i,           \* the subtask the pass looks at; 0 between two passes
  j,           \* the action RunSubtask is at; 0 outside RunSubtask
  progressed,  \* the local variable of that name
  ctxDone,     \* the context of this call has been cancelled
  result,      \* what RunTask returned, or "running"
  before       \* history: Subtasks[i].State when this call began

vars == <<deps, st, act, completed, i, j, progressed, ctxDone, result, before>>

Subtask == 1..N
Result == {"running", "nil", "ctx", "deadlock"}
ActionState == {"pending", "in_progress", "completed", "failed"}

NoActionRun == [s \in Subtask |-> [a \in 1..NumActions[s] |-> "pending"]]

\* Small instance: every plan over three subtasks in which a subtask names at
\* most two ids, itself and one dangling id included; one subtask has no action.
SmallPlans == [1..3 -> {D \in SUBSET (1..4) : Cardinality(D) <= 2}]
FewActions == <<2, 1, 0>>

-----------------------------------------------------------------------------
Init ==
  /\ deps \in Plans
  /\ st = AllPending(deps) /\ before = st
  /\ act = NoActionRun
  /\ completed = {} /\ i = 0 /\ j = 0
  /\ progressed = FALSE /\ ctxDone = FALSE
  /\ result = "running"

\* The head of the outer loop: give up on a cancelled context, else a new pass.
BeginPass ==
  /\ result = "running" /\ i = 0
  /\ \/ ctxDone /\ result' = "ctx" /\ UNCHANGED <<i, progressed>>
     \/ ~ctxDone /\ i' = 1 /\ progressed' = FALSE /\ UNCHANGED result
  /\ UNCHANGED <<deps, st, act, completed, j, ctxDone, before>>

AtSubtask == result = "running" /\ i \in Subtask /\ j = 0

\* Mutant of SkipTerminal: meeting a subtask that has ended counts as progress.
SkipTerminalProgresses ==
  /\ AtSubtask /\ i \in Terminal(st)
  /\ completed' = IF st[i] = "completed" THEN completed \cup {i} ELSE completed \ {i}
  /\ i' = i + 1 /\ progressed' = TRUE
  /\ UNCHANGED <<deps, st, act, j, ctxDone, result, before>>

\* A completed or failed subtask is only recorded in `completed`.
SkipTerminal ==
  /\ AtSubtask /\ i \in Terminal(st)
  /\ completed' = IF st[i] = "completed" THEN completed \cup {i} ELSE completed \ {i}
  /\ i' = i + 1
  /\ UNCHANGED <<deps, st, act, j, progressed, ctxDone, result, before>>

SkipBlocked ==
  /\ AtSubtask /\ i \notin Terminal(st)
  /\ ~(deps[i] \subseteq completed)
  /\ i' = i + 1
  /\ UNCHANGED <<deps, st, act, completed, j, progressed, ctxDone, result, before>>

\* Mutant of EnterSubtask: a failed subtask is not skipped but run once more.
EnterSubtaskAgain ==
  /\ AtSubtask /\ i \notin Completed(st)
  /\ deps[i] \subseteq completed
  /\ st' = [st EXCEPT ![i] = "in_progress"]
  /\ j' = 1
  /\ UNCHANGED <<deps, act, completed, i, progressed, ctxDone, result, before>>

EnterSubtask ==
  /\ AtSubtask /\ i \notin Terminal(st)
  /\ deps[i] \subseteq completed
  /\ st' = [st EXCEPT ![i] = "in_progress"]
  /\ j' = 1
  /\ UNCHANGED <<deps, act, completed, i, progressed, ctxDone, result, before>>

\* Mutant of LeaveSubtask: a failed subtask is recorded as completed too.
LeaveSubtaskAlwaysRecords(outcome) ==
  /\ st' = [st EXCEPT ![i] = outcome]
  /\ completed' = completed \cup {i}
  /\ progressed' = TRUE
  /\ i' = i + 1 /\ j' = 0

\* RunSubtask returned: both outcomes record the subtask and count as progress.
LeaveSubtask(outcome) ==
  /\ st' = [st EXCEPT ![i] = outcome]
  /\ completed' = IF outcome = "completed" THEN completed \cup {i} ELSE completed \ {i}
  /\ progressed' = TRUE
  /\ i' = i + 1 /\ j' = 0

InSubtask == result = "running" /\ j > 0
InAction == InSubtask /\ j <= NumActions[i]

\* Mutant of AbortSubtask: a cancelled context leaves the subtask cancelled.
AbortSubtaskAsCancelled ==
  /\ InAction /\ act[i][j] # "in_progress" /\ ctxDone
  /\ LeaveSubtask("cancelled")
  /\ UNCHANGED <<deps, act, ctxDone, result, before>>

\* The context check before an action: the action itself stays pending.
AbortSubtask ==
  /\ InAction /\ act[i][j] # "in_progress" /\ ctxDone
  /\ LeaveSubtask("failed")
  /\ UNCHANGED <<deps, act, ctxDone, result, before>>

BeginAction ==
  /\ InAction /\ act[i][j] # "in_progress" /\ ~ctxDone
  /\ act' = [act EXCEPT ![i][j] = "in_progress"]
  /\ UNCHANGED <<deps, st, completed, i, j, progressed, ctxDone, result, before>>

\* registry.Execute; the context may have been cancelled meanwhile.
ActionSucceeds ==
  /\ InAction /\ act[i][j] = "in_progress"
  /\ act' = [act EXCEPT ![i][j] = "completed"]
  /\ j' = j + 1
  /\ UNCHANGED <<deps, st, completed, i, progressed, ctxDone, result, before>>

\* Mutant of ActionFails: the return after a failed action is missing.
ActionFailsGoesOn ==
  /\ InAction /\ act[i][j] = "in_progress"
  /\ act' = [act EXCEPT ![i][j] = "failed"]
  /\ j' = j + 1
  /\ UNCHANGED <<deps, st, completed, i, progressed, ctxDone, result, before>>

\* registry.Execute returns an error: unknown type, missing parameter,
\* the context.
ActionFails ==
  /\ InAction /\ act[i][j] = "in_progress"
  /\ act' = [act EXCEPT ![i][j] = "failed"]
  /\ LeaveSubtask("failed")
  /\ UNCHANGED <<deps, ctxDone, result, before>>

FinishSubtask ==
  /\ InSubtask /\ j > NumActions[i]
  /\ LeaveSubtask("completed")
  /\ UNCHANGED <<deps, act, ctxDone, result, before>>

\* Mutant of EndPass: a single pass decides, progress or not.
EndPassAtOnce ==
  /\ result = "running" /\ i = N + 1
  /\ result' = IF Terminal(st) = Subtask THEN "nil" ELSE "deadlock"
  /\ UNCHANGED <<deps, st, act, completed, i, j, progressed, ctxDone, before>>

\* The end of a pass: all done, no progress, or another pass.
EndPass ==
  /\ result = "running" /\ i = N + 1
  /\ \/ Terminal(st) = Subtask /\ result' = "nil" /\ UNCHANGED i
     \/ Terminal(st) # Subtask /\ ~progressed /\ result' = "deadlock" /\ UNCHANGED i
     \/ Terminal(st) # Subtask /\ progressed /\ i' = 0 /\ UNCHANGED result
  /\ UNCHANGED <<deps, st, act, completed, j, progressed, ctxDone, before>>

CancelContext ==
  /\ result = "running" /\ ~ctxDone
  /\ ctxDone' = TRUE
  /\ UNCHANGED <<deps, st, act, completed, i, j, progressed, result, before>>

-----------------------------------------------------------------------------
\* taskService marks the task failed in exactly these cases; a task left by a
\* context error is never handed to RunTask again (Start runs it in
\* context.Background()).
LeftFailed ==
  \/ result = "deadlock"
  \/ result = "nil" /\ Failed(st) # {}

NewCall ==
  /\ completed' = {} /\ i' = 0 /\ j' = 0
  /\ progressed' = FALSE /\ ctxDone' = FALSE
  /\ result' = "running"

\* Start of a failed task: RunTask again over the subtasks as they are.
StartAgain ==
  /\ LeftFailed /\ NewCall
  /\ before' = st
  /\ UNCHANGED <<deps, st, act>>

\* Retry, which resets subtasks and actions, and the Start that follows it.
RetryAndStart ==
  /\ LeftFailed /\ NewCall
  /\ st' = AllPending(deps) /\ before' = st'
  /\ act' = NoActionRun
  /\ UNCHANGED deps

RunStep ==
  \/ BeginPass \/ SkipTerminal \/ SkipBlocked \/ EnterSubtask
  \/ AbortSubtask \/ BeginAction \/ ActionSucceeds \/ ActionFails \/ FinishSubtask
  \/ EndPass

Next == RunStep \/ CancelContext \/ StartAgain \/ RetryAndStart

\* The goroutine that runs RunTask is never stopped for good by the scheduler.
Spec == Init /\ [][Next]_vars /\ WF_vars(RunStep)

-----------------------------------------------------------------------------
TypeOK ==
  /\ deps \in [Subtask -> SUBSET Nat]
  /\ st \in [Subtask -> SubtaskState]
  /\ before \in [Subtask -> SubtaskState]
  /\ DOMAIN act = Subtask
  /\ \A s \in Subtask : act[s] \in [1..NumActions[s] -> ActionState]
  /\ completed \subseteq Subtask
  /\ i \in 0..(N + 1) /\ j \in Nat
  /\ progressed \in BOOLEAN /\ ctxDone \in BOOLEAN
  /\ result \in Result

\* A subtask is touched only when every id it depends on is a completed
\* subtask of the same task: the order RunTask promises.
DependenciesFirst ==
  \A s \in Subtask : st[s] # "pending" => deps[s] \subseteq Completed(st)

\* Whatever the shape of the graph and whichever actions fail, a call that
\* returns nil or the deadlock error has completed exactly the subtasks that
\* can be reached around the failed ones, and tells the two cases apart: nil
\* when every subtask has ended, the error when one never can.
OutcomeExact ==
  result \in {"nil", "deadlock"} =>
    /\ IsRunOutcome(deps, before, st)
    /\ result = "nil" <=> Terminal(st) = Subtask

\* Actions run in order and stop at the first failure: those before a
\* started one have completed, and a completed subtask has no other.
ActionsInOrder ==
  \A s \in Subtask :
    /\ \A a \in 1..NumActions[s] :
         act[s][a] # "pending" => \A b \in 1..(a - 1) : act[s][b] = "completed"
    /\ st[s] = "completed" => \A a \in 1..NumActions[s] : act[s][a] = "completed"

\* Start accepts a failed task (service.go, Start), but RunTask finds every
\* subtask ended or blocked: without a Retry the second run changes nothing.
RestartIsFutile == Quiescent(deps, before) => st = before

\* RunTask returns: its passes cannot go on for ever.
Terminates == result = "running" ~> result # "running"

-----------------------------------------------------------------------------
(* Proofs for every number of subtasks, every plan and every number of       *)
(* actions.  The inductive invariant is Inv; its heart is Grounded (completed *)
(* subtasks were reached along dependencies, without a circle) and           *)
(* BlockedSoFar (in a pass without progress, everything looked at so far is  *)
(* ended or blocked), which meet at the end of a pass.                       *)

\* Where RunSubtask is, and that no other subtask is half way.
PositionOK ==
  /\ j > 0 => result = "running" /\ i \in Subtask /\ st[i] = "in_progress"
  /\ \A s \in Subtask : st[s] = "in_progress" => j > 0 /\ s = i

RecordedCompleted == completed \subseteq Completed(st)

\* A set closed under the dependencies of the completed subtasks has them all.
Grounded ==
  \A C \in SUBSET Subtask :
    (\A s \in Completed(st) : deps[s] \subseteq C => s \in C) => Completed(st) \subseteq C

\* Either the local map knows every completed subtask, or (a restarted task)
\* there is nothing to run, whatever it knows.
MapUpToDate == completed = Completed(st) \/ Quiescent(deps, st)

BlockedSoFar ==
  result = "running" /\ ~progressed =>
    \A s \in Subtask : s < i /\ s \notin Terminal(st) => ~(deps[s] \subseteq Completed(st))

KeepsTerminal == \A s \in Terminal(before) : st[s] = before[s]

ReturnOK ==
  /\ result = "nil" => Terminal(st) = Subtask
  /\ result = "deadlock" => Quiescent(deps, st) /\ Terminal(st) # Subtask

-----------------------------------------------------------------------------
\* TypeOK in two halves, because the provers of arithmetic and of Booleans differ.
FlagsOK == progressed \in BOOLEAN /\ ctxDone \in BOOLEAN

DataOK ==
  /\ deps \in [Subtask -> SUBSET Nat]
  /\ st \in [Subtask -> SubtaskState]
  /\ before \in [Subtask -> SubtaskState]
  /\ DOMAIN act = Subtask
  /\ \A s \in Subtask : act[s] \in [1..NumActions[s] -> ActionState]
  /\ completed \subseteq Subtask
  /\ i \in 0..(N + 1) /\ j \in Nat
  /\ j > 0 => i \in Subtask
  /\ result \in Result

LEMMA FlagsStep == FlagsOK /\ [Next]_vars => FlagsOK'
  BY DEF FlagsOK, Next, RunStep, vars, BeginPass, SkipTerminal, SkipBlocked, EnterSubtask,
         AbortSubtask, BeginAction, ActionSucceeds, ActionFails, FinishSubtask, EndPass,
         LeaveSubtask, CancelContext, StartAgain, RetryAndStart, NewCall

LEMMA DataStep == DataOK /\ [Next]_vars => DataOK'
<1> USE NAssumption, PlansAssumption, NumActionsAssumption
     DEF NAssumption, PlansAssumption, NumActionsAssumption
<1> SUFFICES ASSUME DataOK, [Next]_vars PROVE DataOK'
  OBVIOUS
<1> USE DEF DataOK, Subtask, SubtaskState, ActionState, Result
<1>1. CASE BeginPass BY <1>1 DEF BeginPass
<1>2. CASE SkipTerminal BY <1>2 DEF SkipTerminal, AtSubtask
<1>3. CASE SkipBlocked BY <1>3 DEF SkipBlocked, AtSubtask
<1>4. CASE EnterSubtask BY <1>4 DEF EnterSubtask, AtSubtask
<1>5. CASE AbortSubtask BY <1>5 DEF AbortSubtask, InAction, InSubtask, LeaveSubtask
<1>6. CASE BeginAction BY <1>6 DEF BeginAction, InAction, InSubtask
<1>7. CASE ActionSucceeds BY <1>7 DEF ActionSucceeds, InAction, InSubtask
<1>8. CASE ActionFails BY <1>8 DEF ActionFails, InAction, InSubtask, LeaveSubtask
<1>9. CASE FinishSubtask BY <1>9 DEF FinishSubtask, InSubtask, LeaveSubtask
<1>10. CASE EndPass BY <1>10 DEF EndPass
<1>11. CASE CancelContext BY <1>11 DEF CancelContext
<1>12. CASE StartAgain BY <1>12 DEF StartAgain, NewCall
<1>13. CASE RetryAndStart BY <1>13 DEF RetryAndStart, NewCall, AllPending, NoActionRun
<1>14. CASE UNCHANGED vars BY <1>14 DEF vars
<1> QED
  BY <1>1, <1>2, <1>3, <1>4, <1>5, <1>6, <1>7, <1>8, <1>9, <1>10, <1>11, <1>12,
     <1>13, <1>14 DEF Next, RunStep

LEMMA InitData == Init => DataOK
<1> SUFFICES ASSUME Init PROVE DataOK
  OBVIOUS
<1>1. deps \in [Subtask -> SUBSET Nat]
  BY PlansAssumption DEF Init, PlansAssumption, Subtask
<1> QED
  BY <1>1, NAssumption, NumActionsAssumption
  DEF Init, DataOK, AllPending, SubtaskState, ActionState, Result, NoActionRun,
      Subtask, NAssumption, NumActionsAssumption

\* Every variable keeps its type, whatever the plan and the number of actions.
THEOREM TypeCorrect == Spec => []TypeOK
<1>1. Init => FlagsOK
  BY DEF Init, FlagsOK
<1>2. Init => DataOK
  BY InitData
<1>3. DataOK /\ FlagsOK => TypeOK
  BY DEF TypeOK, DataOK, FlagsOK
<1> QED
  BY <1>1, <1>2, <1>3, FlagsStep, DataStep, PTL DEF Spec

-----------------------------------------------------------------------------
\* What depends on the subtasks and the local map alone, and what on the
\* position of the loop.
Data == /\ RecordedCompleted /\ DependenciesFirst /\ Grounded /\ MapUpToDate
        /\ KeepsTerminal /\ RestartIsFutile

Control == PositionOK /\ BlockedSoFar /\ ReturnOK

Inv == DataOK /\ Data /\ Control

\* The steps that only move the loop or work on an action.
LEMMA SameSubtasks ==
  ASSUME Data, UNCHANGED <<deps, st, completed, before>>
  PROVE  Data'
BY DEF Data, RecordedCompleted, DependenciesFirst, Grounded, MapUpToDate, KeepsTerminal,
       RestartIsFutile, Completed, Failed, Terminal, Quiescent

\* Entering a subtask leaves the sets of completed and of ended subtasks alone,
\* and cannot happen in a restarted task that has nothing to run.
LEMMA EnterData == ASSUME Inv, EnterSubtask PROVE Data'
<1> USE DEF Inv, DataOK, Data, Subtask, SubtaskState
<1>1. /\ i \in Subtask /\ st[i] \notin {"completed", "failed"}
      /\ st' = [st EXCEPT ![i] = "in_progress"]
      /\ UNCHANGED <<deps, completed, before>>
      /\ deps[i] \subseteq Completed(st)
  BY DEF EnterSubtask, AtSubtask, RecordedCompleted, Terminal, Completed, Failed
<1>2. /\ Completed(st') = Completed(st) /\ Failed(st') = Failed(st)
      /\ Terminal(st') = Terminal(st)
  BY <1>1 DEF Terminal, Completed, Failed
<1>3. RecordedCompleted' BY <1>1, <1>2 DEF RecordedCompleted
<1>4. DependenciesFirst' BY <1>1, <1>2 DEF DependenciesFirst
<1>5. Grounded' BY <1>1, <1>2 DEF Grounded
<1>6. ~Quiescent(deps, st) BY <1>1 DEF Quiescent, Terminal, Completed, Failed
<1>7. MapUpToDate' BY <1>1, <1>2, <1>6 DEF MapUpToDate
<1>8. KeepsTerminal' BY <1>1 DEF KeepsTerminal, Terminal, Completed, Failed
<1>9. RestartIsFutile' BY <1>1, <1>6 DEF RestartIsFutile
<1> QED BY <1>3, <1>4, <1>5, <1>7, <1>8, <1>9

\* Leaving a subtask with either outcome.  The new completed subtask is
\* grounded because its dependencies are.
LEMMA LeaveData ==
  ASSUME Inv, NEW outcome \in {"completed", "failed"}, j > 0, LeaveSubtask(outcome),
         UNCHANGED <<deps, before>>
  PROVE  Data'
<1> USE DEF Inv, DataOK, Data, Subtask, SubtaskState
<1>1. /\ i \in Subtask /\ st[i] = "in_progress"
      /\ st' = [st EXCEPT ![i] = outcome]
      /\ completed' = IF outcome = "completed" THEN completed \cup {i} ELSE completed \ {i}
      /\ deps[i] \subseteq Completed(st)
  BY DEF Control, PositionOK, LeaveSubtask, DependenciesFirst
<1>2. /\ i \notin Completed(st) /\ i \notin Terminal(st)
      /\ Completed(st') = IF outcome = "completed" THEN Completed(st) \cup {i} ELSE Completed(st)
  BY <1>1 DEF Completed, Failed, Terminal
<1>3. RecordedCompleted' BY <1>1, <1>2 DEF RecordedCompleted
<1>4. DependenciesFirst' BY <1>1, <1>2 DEF DependenciesFirst
<1>5. Grounded'
  <2> SUFFICES ASSUME NEW C \in SUBSET Subtask,
                      \A s \in Completed(st') : deps[s] \subseteq C => s \in C
               PROVE  Completed(st') \subseteq C
    BY <1>1 DEF Grounded
  <2>1. Completed(st) \subseteq C
    BY <1>2 DEF Grounded
  <2> QED
    BY <1>1, <1>2, <2>1
<1>6. ~Quiescent(deps, st) BY <1>1, <1>2 DEF Quiescent
<1>7. MapUpToDate' BY <1>1, <1>2, <1>6 DEF MapUpToDate
<1>8. KeepsTerminal' BY <1>1 DEF KeepsTerminal, Terminal, Completed, Failed
<1>9. RestartIsFutile' 
  BY <1>1, <1>6 DEF RestartIsFutile
<1> QED BY <1>3, <1>4, <1>5, <1>7, <1>8, <1>9

\* A new call, over the subtasks as they are or over reset ones.
LEMMA NewCallData == ASSUME Inv, StartAgain \/ RetryAndStart PROVE Data'
<1> USE DEF Inv, DataOK, Data, Subtask, SubtaskState
<1>1. CASE StartAgain
  <2>1. /\ UNCHANGED <<deps, st>> /\ before' = st /\ completed' = {}
        /\ Quiescent(deps, st)
    BY <1>1 DEF StartAgain, LeftFailed, NewCall, Control, ReturnOK, Quiescent
  <2> QED
    BY <2>1 DEF RecordedCompleted, DependenciesFirst, Grounded, MapUpToDate, KeepsTerminal,
                RestartIsFutile, Quiescent, Completed, Failed, Terminal
<1>2. CASE RetryAndStart
  <2>1. /\ deps' = deps /\ st' = [s \in Subtask |-> "pending"] /\ before' = st'
        /\ completed' = {}
    BY <1>2 DEF RetryAndStart, NewCall, AllPending
  <2>2. Completed(st') = {} /\ Terminal(st') = {}
    BY <2>1 DEF Completed, Failed, Terminal
  <2> QED
    BY <2>1, <2>2 DEF RecordedCompleted, DependenciesFirst, Grounded, MapUpToDate,
                KeepsTerminal, RestartIsFutile
<1> QED BY <1>1, <1>2

LEMMA DataPartStep == ASSUME Inv, [Next]_vars PROVE Data'
<1>1. CASE SkipTerminal
  <2>1. /\ UNCHANGED <<deps, st, before>> /\ i \in Terminal(st)
        /\ completed' = IF st[i] = "completed" THEN completed \cup {i} ELSE completed \ {i}
    BY <1>1 DEF SkipTerminal
  <2> QED
    BY <2>1 DEF Inv, Data, DataOK, RecordedCompleted, DependenciesFirst, Grounded, MapUpToDate,
                KeepsTerminal, RestartIsFutile, Completed, Failed, Terminal, Quiescent
<1>2. CASE AbortSubtask \/ ActionFails
  BY <1>2, LeaveData DEF AbortSubtask, ActionFails, InAction, InSubtask
<1>3. CASE FinishSubtask
  BY <1>3, LeaveData DEF FinishSubtask, InSubtask
<1>4. CASE BeginPass \/ SkipBlocked \/ BeginAction \/ ActionSucceeds \/ EndPass \/ CancelContext
  BY <1>4, SameSubtasks DEF Inv, BeginPass, SkipBlocked, BeginAction, ActionSucceeds, EndPass,
     CancelContext
<1>5. CASE UNCHANGED vars
  BY <1>5, SameSubtasks DEF Inv, vars
<1> QED
  BY <1>1, <1>2, <1>3, <1>4, <1>5, EnterData, NewCallData DEF Next, RunStep

LEMMA ControlPartStep == ASSUME Inv, [Next]_vars PROVE Control'
<1> USE NAssumption DEF NAssumption, Inv, DataOK, Subtask, Control
<1>1. CASE BeginPass
  BY <1>1 DEF BeginPass, PositionOK, BlockedSoFar, ReturnOK, Quiescent, Terminal, Completed, Failed
<1>2. CASE SkipTerminal
  BY <1>2 DEF SkipTerminal, AtSubtask, PositionOK, BlockedSoFar, ReturnOK
<1>3. CASE SkipBlocked
  <2>1. ~(deps[i] \subseteq Completed(st)) 
    BY <1>3 DEF SkipBlocked, AtSubtask, Data, MapUpToDate, Quiescent
  <2> QED
    BY <1>3, <2>1 DEF SkipBlocked, AtSubtask, PositionOK, BlockedSoFar, ReturnOK
<1>4. CASE EnterSubtask
  <2>1. /\ i \in Subtask /\ st[i] \notin {"completed", "failed"} /\ result = "running"
        /\ st' = [st EXCEPT ![i] = "in_progress"] /\ j = 0 /\ j' = 1
        /\ UNCHANGED <<deps, i, progressed, result>>
    BY <1>4 DEF EnterSubtask, AtSubtask, Terminal, Completed, Failed
  <2>2. Completed(st') = Completed(st) /\ Terminal(st') = Terminal(st)
    BY <2>1 DEF Terminal, Completed, Failed
  <2>3. PositionOK'
    BY <2>1 DEF PositionOK, SubtaskState
  <2>4. BlockedSoFar'
    BY <2>1, <2>2 DEF BlockedSoFar
  <2>5. ReturnOK'
    BY <2>1 DEF ReturnOK
  <2> QED
    BY <2>3, <2>4, <2>5
<1>5. CASE AbortSubtask \/ ActionFails \/ FinishSubtask
  <2>1. PICK outcome \in {"completed", "failed"} : 
          j > 0 /\ LeaveSubtask(outcome) /\ result = "running" /\ result' = result
    BY <1>5 DEF AbortSubtask, ActionFails, FinishSubtask, InAction, InSubtask
  <2> QED
    BY <2>1 DEF LeaveSubtask, PositionOK, BlockedSoFar, ReturnOK
<1>6. CASE BeginAction \/ ActionSucceeds
  BY <1>6 DEF BeginAction, ActionSucceeds, InAction, InSubtask, PositionOK, BlockedSoFar, ReturnOK
<1>7. CASE EndPass
  <2>1. Terminal(st) # Subtask /\ ~progressed => Quiescent(deps, st)
    BY <1>7 DEF EndPass, BlockedSoFar, Quiescent
  <2>2. j = 0
    BY <1>7 DEF EndPass, PositionOK
  <2> QED
    BY <1>7, <2>1, <2>2 DEF EndPass, PositionOK, BlockedSoFar, ReturnOK
<1>8. CASE CancelContext
  BY <1>8 DEF CancelContext, PositionOK, BlockedSoFar, ReturnOK
<1>9. CASE StartAgain
  <2>1. \A s \in Subtask : st[s] # "in_progress"
    BY <1>9 DEF StartAgain, LeftFailed, PositionOK
  <2> QED
    BY <1>9, <2>1 DEF StartAgain, NewCall, PositionOK, BlockedSoFar, ReturnOK
<1>10. CASE RetryAndStart
  BY <1>10 DEF RetryAndStart, NewCall, AllPending, PositionOK, BlockedSoFar, ReturnOK
<1>11. CASE UNCHANGED vars
  BY <1>11 DEF vars, PositionOK, BlockedSoFar, ReturnOK
<1> QED
  BY <1>1, <1>2, <1>3, <1>4, <1>5, <1>6, <1>7, <1>8, <1>9, <1>10, <1>11 DEF Next, RunStep

THEOREM Invariance == Spec => []Inv
<1>1. Init => Inv
  <2> SUFFICES ASSUME Init PROVE Inv
    OBVIOUS
  <2>1. DataOK /\ st = [s \in Subtask |-> "pending"] /\ before = st /\ completed = {} 
        /\ i = 0 /\ j = 0 /\ result = "running"
    BY InitData DEF Init, AllPending, DataOK
  <2>2. Completed(st) = {} /\ Terminal(st) = {}
    BY <2>1 DEF Completed, Failed, Terminal
  <2>3. Data
    BY <2>1, <2>2 DEF Data, RecordedCompleted, DependenciesFirst, Grounded, MapUpToDate,
       KeepsTerminal, RestartIsFutile
  <2>4. Control
    BY <2>1, <2>2 DEF Control, PositionOK, BlockedSoFar, ReturnOK, Subtask
  <2> QED BY <2>1, <2>3, <2>4 DEF Inv
<1>2. Inv /\ [Next]_vars => Inv'
  BY DataStep, DataPartStep, ControlPartStep DEF Inv
<1> QED BY <1>1, <1>2, PTL DEF Spec

-----------------------------------------------------------------------------
\* No subtask is started before everything it depends on has completed, for
\* every plan, cyclic ones and ones with dangling ids included.
THEOREM DependenciesFirstHolds == Spec => []DependenciesFirst
<1>1. Inv => DependenciesFirst
  BY DEF Inv, Data
<1> QED BY <1>1, Invariance, PTL

\* Start of a failed task without a Retry changes none of its subtasks.
THEOREM RestartIsFutileHolds == Spec => []RestartIsFutile
<1>1. Inv => RestartIsFutile
  BY DEF Inv, Data
<1> QED BY <1>1, Invariance, PTL

\* RunTask completes exactly what can be completed: the completed subtasks are
\* the least set closed under the dependencies of those that did not fail.
THEOREM OutcomeExactHolds == Spec => []OutcomeExact
<1>1. Inv => OutcomeExact
  <2> SUFFICES ASSUME Inv, result \in {"nil", "deadlock"}
               PROVE  /\ IsRunOutcome(deps, before, st)
                      /\ result = "nil" <=> Terminal(st) = Subtask
    BY DEF OutcomeExact
  <2> USE DEF Inv, DataOK, Subtask
  <2>1. DOMAIN deps = Subtask /\ DOMAIN st = Subtask
    OBVIOUS
  <2>2. result = "nil" <=> Terminal(st) = Subtask
    BY DEF Control, ReturnOK
  <2>3. \A s \in Terminal(before) : st[s] = before[s]
    BY DEF Data, KeepsTerminal
  <2>4. \A s \in Subtask : st[s] # "in_progress"
    BY DEF Control, PositionOK
  <2>5. \A s \in Failed(st) : deps[s] \subseteq Completed(st)
    BY <2>1 DEF Data, DependenciesFirst, Failed
  <2>6. Completed(st) \subseteq Reachable(deps, Failed(st))
    <3> SUFFICES ASSUME NEW C \in SUBSET Subtask, Closed(deps, Failed(st), C)
                 PROVE  Completed(st) \subseteq C
      BY <2>1 DEF Reachable, Completed
    <3>1. \A s \in Completed(st) : s \in Subtask \ Failed(st)
      BY <2>1 DEF Completed, Failed
    <3>2. \A s \in Completed(st) : deps[s] \subseteq C => s \in C
      BY <2>1, <3>1 DEF Closed
    <3> QED BY <3>2 DEF Data, Grounded
  <2>7. Reachable(deps, Failed(st)) \subseteq Completed(st)
    <3>1. Closed(deps, Failed(st), Completed(st))
      BY <2>1 DEF Control, ReturnOK, Closed, Quiescent, Terminal
    <3>2. Completed(st) \in SUBSET DOMAIN deps
      BY <2>1 DEF Completed
    <3> QED BY <3>1, <3>2 DEF Reachable
  <2> QED
    BY <2>1, <2>2, <2>3, <2>4, <2>5, <2>6, <2>7 DEF IsRunOutcome
<1> QED BY <1>1, Invariance, PTL

-----------------------------------------------------------------------------
\* What ActionsInOrder needs to be inductive: a subtask that is pending has run
\* no action, and one that is running has completed those before j and begun
\* none behind it.
ActionsAtJ ==
  \A s \in Subtask : \A a \in 1..NumActions[s] :
    /\ st[s] = "pending" => act[s][a] = "pending"
    /\ st[s] = "in_progress" =>
         /\ a < j => act[s][a] = "completed"
         /\ a = j => act[s][a] \in {"pending", "in_progress"}
         /\ a > j => act[s][a] = "pending"

ActionInv == ActionsAtJ /\ ActionsInOrder

LEMMA ActionStep == ASSUME Inv, ActionInv, [Next]_vars PROVE ActionInv'
<1> USE NAssumption, NumActionsAssumption
    DEF NAssumption, NumActionsAssumption, Inv, DataOK, Subtask, SubtaskState, ActionState,
        ActionInv
<1>1. CASE BeginPass \/ SkipTerminal \/ SkipBlocked \/ EndPass \/ CancelContext
  <2>1. UNCHANGED <<st, act, j>>
    BY <1>1 DEF BeginPass, SkipTerminal, SkipBlocked, EndPass, CancelContext
  <2>2. ActionsAtJ'
    BY <2>1 DEF ActionsAtJ
  <2>3. ActionsInOrder'
    BY <2>1 DEF ActionsAtJ, ActionsInOrder
  <2> QED BY <2>2, <2>3
<1>2. CASE EnterSubtask
  <2>1. /\ i \in Subtask /\ st[i] = "pending" /\ j = 0 /\ j' = 1
        /\ st' = [st EXCEPT ![i] = "in_progress"] /\ act' = act
        /\ \A s \in Subtask : st[s] # "in_progress"
    <3>1. /\ i \in Subtask /\ j = 0 /\ j' = 1 /\ i \notin Terminal(st)
          /\ st' = [st EXCEPT ![i] = "in_progress"] /\ act' = act
      BY <1>2 DEF EnterSubtask, AtSubtask
    <3>2. \A s \in Subtask : st[s] # "in_progress"
      BY <3>1 DEF Control, PositionOK
    <3>3. st[i] = "pending"
      BY <3>1, <3>2 DEF Terminal, Completed, Failed
    <3> QED BY <3>1, <3>2, <3>3
  <2>2. ActionsAtJ'
    BY <2>1 DEF ActionsAtJ
  <2>3. ActionsInOrder'
    BY <2>1 DEF ActionsAtJ, ActionsInOrder
  <2> QED BY <2>2, <2>3
<1>3. CASE AbortSubtask
  <2>1. /\ i \in Subtask /\ j > 0 /\ st' = [st EXCEPT ![i] = "failed"] /\ act' = act
        /\ \A s \in Subtask : st[s] = "in_progress" => s = i
    BY <1>3 DEF AbortSubtask, InAction, InSubtask, LeaveSubtask, Control, PositionOK
  <2>2. ActionsAtJ'
    BY <2>1 DEF ActionsAtJ
  <2>3. ActionsInOrder'
    BY <2>1 DEF ActionsAtJ, ActionsInOrder
  <2> QED BY <2>2, <2>3
<1>4. CASE BeginAction
  <2>1. /\ i \in Subtask /\ j \in 1..NumActions[i] /\ st[i] = "in_progress"
        /\ act' = [act EXCEPT ![i] = [act[i] EXCEPT ![j] = "in_progress"]]
        /\ st' = st /\ j' = j
        /\ \A s \in Subtask : st[s] = "in_progress" => s = i
    BY <1>4 DEF BeginAction, InAction, InSubtask, Control, PositionOK
  <2>2. ActionsAtJ'
    BY <2>1 DEF ActionsAtJ
  <2>3. ActionsInOrder'
    BY <2>1 DEF ActionsAtJ, ActionsInOrder
  <2> QED BY <2>2, <2>3
<1>5. CASE ActionSucceeds
  <2>1. /\ i \in Subtask /\ j \in 1..NumActions[i] /\ st[i] = "in_progress"
        /\ act' = [act EXCEPT ![i] = [act[i] EXCEPT ![j] = "completed"]]
        /\ st' = st /\ j' = j + 1
        /\ \A s \in Subtask : st[s] = "in_progress" => s = i
    BY <1>5 DEF ActionSucceeds, InAction, InSubtask, Control, PositionOK
  <2>2. ActionsAtJ'
    BY <2>1 DEF ActionsAtJ
  <2>3. ActionsInOrder'
    BY <2>1 DEF ActionsAtJ, ActionsInOrder
  <2> QED BY <2>2, <2>3
<1>6. CASE ActionFails
  <2>1. /\ i \in Subtask /\ j \in 1..NumActions[i] /\ st[i] = "in_progress"
        /\ act' = [act EXCEPT ![i] = [act[i] EXCEPT ![j] = "failed"]]
        /\ st' = [st EXCEPT ![i] = "failed"]
        /\ \A s \in Subtask : st[s] = "in_progress" => s = i
    BY <1>6 DEF ActionFails, InAction, InSubtask, LeaveSubtask, Control, PositionOK
  <2>2. ActionsAtJ'
    BY <2>1 DEF ActionsAtJ
  <2>3. ActionsInOrder'
    BY <2>1 DEF ActionsAtJ, ActionsInOrder
  <2> QED BY <2>2, <2>3
<1>7. CASE FinishSubtask
  <2>1. /\ i \in Subtask /\ j > NumActions[i] /\ st[i] = "in_progress"
        /\ st' = [st EXCEPT ![i] = "completed"] /\ act' = act
        /\ \A s \in Subtask : st[s] = "in_progress" => s = i
    BY <1>7 DEF FinishSubtask, InSubtask, LeaveSubtask, Control, PositionOK
  <2>2. ActionsAtJ'
    BY <2>1 DEF ActionsAtJ
  <2>3. ActionsInOrder'
    BY <2>1 DEF ActionsAtJ, ActionsInOrder
  <2> QED BY <2>2, <2>3
<1>8. CASE StartAgain
  <2>1. UNCHANGED <<st, act>> /\ \A s \in Subtask : st[s] # "in_progress"
    BY <1>8 DEF StartAgain, LeftFailed, Control, PositionOK
  <2>2. ActionsAtJ'
    BY <2>1 DEF ActionsAtJ
  <2>3. ActionsInOrder'
    BY <2>1 DEF ActionsAtJ, ActionsInOrder
  <2> QED BY <2>2, <2>3
<1>9. CASE RetryAndStart
  <2>1. st' = [s \in Subtask |-> "pending"] /\ act' = NoActionRun
    BY <1>9 DEF RetryAndStart, AllPending
  <2> QED
    BY <2>1 DEF NoActionRun, ActionsAtJ, ActionsInOrder
<1>10. CASE UNCHANGED vars
  BY <1>10 DEF vars, ActionsAtJ, ActionsInOrder
<1> QED
  BY <1>1, <1>2, <1>3, <1>4, <1>5, <1>6, <1>7, <1>8, <1>9, <1>10 DEF Next, RunStep

\* The actions of every subtask run in their order, over any number of calls,
\* failures and retries, and none is left out of a completed subtask.
THEOREM ActionsInOrderHolds == Spec => []ActionsInOrder
<1>1. Init => ActionInv
  BY InitData, NumActionsAssumption
  DEF Init, DataOK, AllPending, NoActionRun, ActionInv, ActionsAtJ, ActionsInOrder, Subtask,
      NumActionsAssumption
<1>2. Inv /\ ActionInv /\ [Next]_vars => ActionInv'
  BY ActionStep
<1>3. ActionInv => ActionsInOrder
  BY DEF ActionInv
<1> QED BY <1>1, <1>2, <1>3, Invariance, PTL DEF Spec
=============================================================================
