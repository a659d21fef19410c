----------------------- MODULE ExecutionEngineProofs -----------------------
(***************************************************************************)
(* Proofs about ExecutionEngine for every number of tasks, agents, slots   *)
(* and executions and every plan.  The inductive invariant Inv joins what  *)
(* the records look like (DataOK), who holds which slot (SlotsOwned), whom *)
(* the map of cancel functions names (RunningMapExact), and how far every  *)
(* execution has come (Progress).                                          *)
(***************************************************************************)
EXTENDS ExecutionEngine, FiniteSetTheorems, TLAPS

\* The records of the repository, the objects of executions, the executions.
RecordOf(t) == [state : TaskState, subs : [Subtask(t) -> SubtaskState]]
Object(t) == [state : {"in_progress", "completed", "failed"}, subs : [Subtask(t) -> SubtaskState]]
Execution(t) == [pc : {"loop", "subtask", "exit", "done"}, task : {t}, agent : Agent,
                 slot : Slot, i : Nat \ {0}, obj : Object(t)]

QueueOK ==
  /\ queue \subseteq [no : 1..MaxSubmits, task : Task, priority : Priority, at : 0..MaxSubmits]
  /\ submits \in 0..MaxSubmits /\ clock \in 0..submits

AgentsOK ==
  /\ agents \in [Agent -> 0..MaxSlots] /\ slots \in 0..MaxSlots /\ busy \in [Slot -> BOOLEAN]

\* Executions are dispatched in the order of their numbers.
ExecsOK ==
  /\ execs \in 0..MaxExecs /\ DOMAIN exec = Exec
  /\ \A x \in Exec : x <= execs => exec[x].task \in Task /\ exec[x] \in Execution(exec[x].task)
  /\ \A x \in Exec : x > execs => exec[x] = NoExec
  /\ cancelled \subseteq 1..execs

\* The stored record is of its task, and untouched while it is pending.
RecordsOK ==
  /\ stored \in [Task -> 0..MaxExecs] /\ DOMAIN rec = Task
  /\ \A t \in Task :
       /\ rec[t] \in RecordOf(t)
       /\ rec[t].state = "pending" => rec[t].subs = AllPending(Plan[t])
       /\ stored[t] # 0 => stored[t] <= execs /\ exec[stored[t]].task = t

FlagsOK == stopped \in BOOLEAN /\ ctxDone \in BOOLEAN /\ loop \in {"on", "off"}

DataOK == QueueOK /\ AgentsOK /\ ExecsOK /\ RecordsOK /\ running \in [Task -> 0..MaxExecs]

-----------------------------------------------------------------------------
\* A slot is busy while an execution holds it, and no two hold the same one.
SlotsOwned ==
  /\ \A x \in Exec : Live(x) => busy[exec[x].slot]
  /\ \A x, y \in Exec : Live(x) /\ Live(y) /\ exec[x].slot = exec[y].slot => x = y
  /\ \A s \in Slot : busy[s] => \E x \in Exec : Live(x) /\ exec[x].slot = s

\* The subtasks before `upTo` that have completed are those whose dependencies,
\* as far as they are subtasks, come earlier and have completed.
DoneBefore(t, subs, upTo) ==
  \A k \in Subtask(t) : k < upTo =>
    (subs[k] = "completed" <=> \A d \in Plan[t][k] \cap Subtask(t) : d < k /\ subs[d] = "completed")

UntouchedFrom(t, subs, from) == \A k \in Subtask(t) : k >= from => subs[k] = "pending"

\* How far the loop of an execution has come.
ProgressOf(e) ==
  /\ e.pc = "loop" =>
       /\ DoneBefore(e.task, e.obj.subs, e.i)
       /\ UntouchedFrom(e.task, e.obj.subs, e.i)
  /\ e.pc = "subtask" =>
       /\ DoneBefore(e.task, e.obj.subs, e.i)
       /\ UntouchedFrom(e.task, e.obj.subs, e.i + 1)
       /\ e.i \in Subtask(e.task) /\ e.obj.subs[e.i] = "in_progress"
       /\ DependenciesMet(e.task, e.obj.subs, e.i)
  /\ e.pc \in {"loop", "subtask"} => e.obj.state = "in_progress"
  /\ e.pc \in {"exit", "done"} /\ e.obj.state = "completed" =>
       DoneBefore(e.task, e.obj.subs, Len(Plan[e.task]) + 1)

Progress == \A x \in 1..execs : ProgressOf(exec[x])

Inv == DataOK /\ SlotsOwned /\ RunningMapExact /\ Progress

-----------------------------------------------------------------------------
\* Lemmas about the data.

LEMMA PlanSubtasks ==
  ASSUME NEW t \in Task
  PROVE  /\ Len(Plan[t]) \in Nat /\ Subtask(t) = 1..Len(Plan[t])
         /\ \A k \in Subtask(t) : Plan[t][k] \in SUBSET Nat
BY PlanAssumption DEF PlanAssumption, Subtask

\* An execution is live exactly from its dispatch to its end.
LEMMA LiveExecution ==
  ASSUME ExecsOK, NEW x \in Exec
  PROVE  /\ Live(x) => x \in 1..execs
         /\ Live(x) <=> x \in 1..execs /\ exec[x].pc # "done"
         /\ x \in 1..execs => /\ exec[x].task \in Task /\ exec[x].slot \in Slot
                              /\ exec[x].agent \in Agent /\ exec[x].i \in Nat \ {0}
                              /\ exec[x].obj \in Object(exec[x].task)
                              /\ exec[x].pc \in {"loop", "subtask", "exit", "done"}
<1>1. CASE x \in 1..execs
  BY <1>1 DEF ExecsOK, Execution, Live, Exec
<1>2. CASE x \notin 1..execs
  BY <1>2, BoundsAssumption DEF ExecsOK, Live, NoExec, Exec, BoundsAssumption
<1> QED BY <1>1, <1>2

\* What a reader of the repository sees is a record of the task.
LEMMA StoredRecord ==
  ASSUME DataOK, NEW t \in Task
  PROVE  /\ Stored(t) \in RecordOf(t)
         /\ Stored(t).state = "pending" => Stored(t).subs = AllPending(Plan[t])
<1>1. CASE stored[t] = 0
  BY <1>1 DEF DataOK, RecordsOK, Stored
<1>2. CASE stored[t] # 0
  <2>1. stored[t] \in 1..execs /\ stored[t] \in Exec /\ exec[stored[t]].task = t
    BY <1>2, BoundsAssumption DEF DataOK, RecordsOK, ExecsOK, Exec, BoundsAssumption
  <2>2. Stored(t) \in Object(t)
    BY <1>2, <2>1, LiveExecution DEF DataOK, Stored
  <2> QED
    BY <2>2 DEF Object, RecordOf, TaskState
<1> QED BY <1>1, <1>2

\* The steps of an execution, but for its dispatch and its end: the execution
\* goes on with its task and its slot, all others stay as they are.
QuietStep(x) == Aborted(x) \/ SkipSubtask(x) \/ BeginSubtask(x) \/ EndSubtask(x) \/ Finish(x)

Moves(x, pc, i, obj) ==
  exec' = [exec EXCEPT ![x] = [exec[x] EXCEPT !.pc = pc, !.i = i, !.obj = obj]]

LEMMA MovesFrom ==
  ASSUME DataOK, NEW x \in Exec, exec[x].pc \in {"loop", "subtask"}
  PROVE  /\ x \in 1..execs /\ exec[x] \in Execution(exec[x].task)
         /\ exec[x].task \in Task /\ exec[x].i \in Nat \ {0}
         /\ exec[x].obj \in Object(exec[x].task)
         /\ \A pc, obj : exec' = [exec EXCEPT ![x].pc = pc, ![x].obj = obj] =>
                           Moves(x, pc, exec[x].i, obj)
<1>1. Live(x)
  BY DEF Live
<1>2. x \in 1..execs /\ exec[x].i \in Nat \ {0} /\ exec[x].obj \in Object(exec[x].task)
      /\ exec[x].task \in Task
  BY <1>1, LiveExecution DEF DataOK
<1>3. exec[x] \in Execution(exec[x].task)
  BY <1>2 DEF DataOK, ExecsOK
<1>4. ASSUME NEW pc, NEW obj, exec' = [exec EXCEPT ![x].pc = pc, ![x].obj = obj]
      PROVE  Moves(x, pc, exec[x].i, obj)
  <2>1. [exec[x] EXCEPT !.pc = pc, !.obj = obj] =
          [exec[x] EXCEPT !.pc = pc, !.i = exec[x].i, !.obj = obj]
    BY <1>3 DEF Execution
  <2> QED BY <1>3, <1>4, <2>1 DEF Moves, DataOK, ExecsOK
<1> QED BY <1>2, <1>3, <1>4

LEMMA QuietMoves ==
  ASSUME DataOK, NEW x \in Exec, QuietStep(x)
  PROVE  /\ x \in 1..execs /\ exec[x].pc \in {"loop", "subtask"}
         /\ \E pc \in {"loop", "subtask", "exit"}, i \in Nat \ {0}, obj \in Object(exec[x].task) :
              Moves(x, pc, i, obj)
         /\ \/ stored' = stored
            \/ stored' = [stored EXCEPT ![exec[x].task] = x]
         /\ UNCHANGED <<queueVars, agentVars, busy, running, rec, execs, cancelled, controlVars>>
<1>0. exec[x].pc \in {"loop", "subtask"}
  BY DEF QuietStep, Aborted, SkipSubtask, BeginSubtask, EndSubtask, Finish, InLoop
<1>1. /\ x \in 1..execs /\ exec[x] \in Execution(exec[x].task)
      /\ exec[x].i \in Nat \ {0} /\ exec[x].obj \in Object(exec[x].task)
  BY <1>0, MovesFrom
<1>2. CASE Aborted(x)
  <2>1. Moves(x, "exit", exec[x].i, [exec[x].obj EXCEPT !.state = "failed"])
    BY <1>0, <1>2, MovesFrom DEF Aborted, Save
  <2>2. [exec[x].obj EXCEPT !.state = "failed"] \in Object(exec[x].task)
    BY <1>1 DEF Object
  <2> QED BY <1>0, <1>1, <1>2, <2>1, <2>2 DEF Aborted, Save
<1>3. CASE SkipSubtask(x)
  <2>1. Moves(x, "loop", exec[x].i + 1, exec[x].obj)
    BY <1>1, <1>3 DEF SkipSubtask, InLoop, Moves, Execution, DataOK, ExecsOK
  <2> QED BY <1>0, <1>1, <1>3, <2>1 DEF SkipSubtask, repoVars
<1>4. CASE BeginSubtask(x)
  <2>1. Moves(x, "subtask", exec[x].i, [exec[x].obj EXCEPT !.subs[exec[x].i] = "in_progress"])
    BY <1>0, <1>4, MovesFrom DEF BeginSubtask, Save
  <2>2. [exec[x].obj EXCEPT !.subs[exec[x].i] = "in_progress"] \in Object(exec[x].task)
    BY <1>1 DEF Object, SubtaskState
  <2> QED BY <1>0, <1>1, <1>4, <2>1, <2>2 DEF BeginSubtask, Save
<1>5. CASE EndSubtask(x)
  <2>1. Moves(x, "loop", exec[x].i + 1, [exec[x].obj EXCEPT !.subs[exec[x].i] = "completed"])
    BY <1>1, <1>5 DEF EndSubtask, Moves, Execution, DataOK, ExecsOK
  <2>2. [exec[x].obj EXCEPT !.subs[exec[x].i] = "completed"] \in Object(exec[x].task)
    BY <1>1 DEF Object, SubtaskState
  <2>3. exec[x].i + 1 \in Nat \ {0}
    BY <1>1
  <2> QED BY <1>0, <1>1, <1>5, <2>1, <2>2, <2>3 DEF EndSubtask, repoVars
<1>6. CASE Finish(x)
  <2>1. Moves(x, "exit", exec[x].i, [exec[x].obj EXCEPT !.state = "completed"])
    BY <1>0, <1>6, MovesFrom DEF Finish, Save
  <2>2. [exec[x].obj EXCEPT !.state = "completed"] \in Object(exec[x].task)
    BY <1>1 DEF Object
  <2> QED BY <1>0, <1>1, <1>6, <2>1, <2>2 DEF Finish, Save
<1> QED BY <1>2, <1>3, <1>4, <1>5, <1>6 DEF QuietStep

\* The end of an execution.
LEMMA ExitMoves ==
  ASSUME DataOK, NEW x \in Exec, Exit(x)
  PROVE  /\ x \in 1..execs /\ Live(x) /\ exec[x].task \in Task /\ exec[x].slot \in Slot
         /\ Moves(x, "done", exec[x].i, exec[x].obj)
<1>1. Live(x)
  BY DEF Live, Exit
<1>2. x \in 1..execs /\ exec[x].task \in Task /\ exec[x].slot \in Slot
  BY <1>1, LiveExecution DEF DataOK
<1>3. exec[x] \in Execution(exec[x].task)
  BY <1>2 DEF DataOK, ExecsOK
<1>4. [exec[x] EXCEPT !.pc = "done"] =
        [exec[x] EXCEPT !.pc = "done", !.i = exec[x].i, !.obj = exec[x].obj]
  BY <1>3 DEF Execution
<1> QED BY <1>1, <1>2, <1>3, <1>4 DEF Moves, Exit, DataOK, ExecsOK

\* The dispatch of an execution.
DispatchOf(item, a) ==
  /\ execs < MaxExecs /\ item \in queue /\ a \in Agent /\ agents[a] \in Slot /\ ~busy[agents[a]]
  /\ item.task \in Task /\ Stored(item.task).state = "pending"
  /\ execs + 1 \in Exec /\ execs' = execs + 1 /\ queue' = queue \ {item}
  /\ busy' = [busy EXCEPT ![agents[a]] = TRUE]
  /\ \E obj \in Object(item.task) :
       /\ obj.state = "in_progress" /\ obj.subs = AllPending(Plan[item.task])
       /\ exec' = [exec EXCEPT ![execs + 1] =
            [pc |-> "loop", task |-> item.task, agent |-> a, slot |-> agents[a], i |-> 1, obj |-> obj]]
  /\ stored' = [stored EXCEPT ![item.task] = execs + 1]
  /\ running' = [running EXCEPT ![item.task] = execs + 1]
  /\ cancelled' \subseteq cancelled \cup {execs + 1}
  /\ UNCHANGED <<submits, clock, agentVars, rec, controlVars>>

LEMMA DispatchMoves ==
  ASSUME DataOK, DispatchRun
  PROVE  \E item \in queue, a \in Agent : DispatchOf(item, a)
<1>1. PICK item \in Heads, a \in {b \in Agent : Idle(b)} :
        LET t == item.task
            s == agents[a]
            x == execs + 1
        IN /\ Stored(t).state = "pending"
           /\ queue' = queue \ {item}
           /\ busy' = [busy EXCEPT ![s] = TRUE]
           /\ execs' = x
           /\ exec' = [exec EXCEPT ![x] =
                [pc |-> "loop", task |-> t, agent |-> a, slot |-> s, i |-> 1,
                 obj |-> [Stored(t) EXCEPT !.state = "in_progress"]]]
           /\ stored' = [stored EXCEPT ![t] = x]
           /\ running' = [running EXCEPT ![t] = x]
           /\ cancelled' = IF ctxDone THEN cancelled \cup {x} ELSE cancelled
  BY DEF DispatchRun
<1>2. item \in queue /\ item.task \in Task
  BY DEF Heads, DataOK, QueueOK
<1>3. a \in Agent /\ agents[a] \in Slot /\ ~busy[agents[a]]
  BY DEF Idle, DataOK, AgentsOK, Slot
<1>4. execs < MaxExecs /\ execs + 1 \in Exec
  BY BoundsAssumption DEF DispatchRun, DataOK, ExecsOK, Exec, BoundsAssumption
<1>5. LET obj == [Stored(item.task) EXCEPT !.state = "in_progress"]
      IN  /\ obj \in Object(item.task) /\ obj.state = "in_progress"
          /\ obj.subs = AllPending(Plan[item.task])
  BY <1>1, <1>2, StoredRecord DEF RecordOf, Object
<1>6. DispatchOf(item, a)
  BY <1>1, <1>2, <1>3, <1>4, <1>5 DEF DispatchOf, DispatchRun
<1> QED BY <1>2, <1>3, <1>6

-----------------------------------------------------------------------------
\* The types.

LEMMA FlagsStep == FlagsOK /\ [Next]_vars => FlagsOK'
<1> SUFFICES ASSUME FlagsOK, [Next]_vars PROVE FlagsOK'
  OBVIOUS
<1> USE DEF FlagsOK
<1>1. CASE Stop \/ CancelContext \/ LeaveLoop
  BY <1>1 DEF Stop, CancelContext, LeaveLoop
<1>2. CASE UNCHANGED controlVars
  BY <1>2 DEF controlVars
<1>3. CASE Dispatch
  BY <1>2, <1>3 DEF Dispatch, DispatchSkip, DispatchRun
<1>4. CASE \E x \in Exec : ExecStep(x) \/ Timeout(x)
  BY <1>2, <1>4 DEF ExecStep, Aborted, SkipSubtask, BeginSubtask, EndSubtask, Finish, Exit, Timeout
<1>5. CASE \E t \in Task : ServiceCancel(t) \/ ServiceFail(t) \/ ServiceRetry(t)
  BY <1>2, <1>5 DEF ServiceCancel, ServiceFail, ServiceRetry, Store
<1>6. CASE \/ \E t \in Task, p \in Priority : Submit(t, p)
           \/ \E a \in Agent : RegisterAgent(a) \/ UnregisterAgent(a)
  BY <1>2, <1>6 DEF Submit, RegisterAgent, UnregisterAgent
<1>7. CASE UNCHANGED vars
  BY <1>2, <1>7 DEF vars
<1> QED BY <1>1, <1>3, <1>4, <1>5, <1>6, <1>7 DEF Next

\* The steps that leave executions and records alone.
LEMMA OutsideData ==
  ASSUME DataOK, RunningMapExact,
         \/ \E t \in Task, p \in Priority : Submit(t, p)
         \/ \E a \in Agent : RegisterAgent(a) \/ UnregisterAgent(a)
         \/ Stop \/ CancelContext \/ LeaveLoop \/ DispatchSkip
         \/ \E x \in Exec : Timeout(x)
  PROVE  DataOK'
<1> USE BoundsAssumption DEF BoundsAssumption
<1>1. CASE \E t \in Task, p \in Priority : Submit(t, p)
  <2>1. PICK t \in Task, p \in Priority : Submit(t, p)
    BY <1>1
  <2>2. submits' \in 1..MaxSubmits /\ clock' \in 0..submits' /\ clock' \in 0..MaxSubmits
    BY <2>1 DEF Submit, DataOK, QueueOK
  <2>3. QueueOK'
    BY <2>1, <2>2 DEF Submit, DataOK, QueueOK
  <2> QED
    BY <2>1, <2>3 DEF Submit, DataOK, agentVars, repoVars, execVars, AgentsOK, ExecsOK, RecordsOK
<1>2. CASE \E a \in Agent : RegisterAgent(a) \/ UnregisterAgent(a)
  <2>1. AgentsOK'
    BY <1>2 DEF RegisterAgent, UnregisterAgent, DataOK, AgentsOK
  <2>2. UNCHANGED <<queueVars, repoVars, execVars, running, cancelled>>
    BY <1>2 DEF RegisterAgent, UnregisterAgent
  <2>3. QueueOK'
    BY <2>2 DEF DataOK, QueueOK, queueVars
  <2>4. ExecsOK'
    BY <2>2 DEF DataOK, ExecsOK, execVars
  <2>5. RecordsOK'
    BY <2>2 DEF DataOK, RecordsOK, repoVars, execVars
  <2> QED BY <2>1, <2>2, <2>3, <2>4, <2>5 DEF DataOK
<1>3. CASE Stop \/ CancelContext \/ \E x \in Exec : Timeout(x)
  <2>1. \A t \in Task : running[t] # 0 => running[t] \in 1..execs
    BY LiveExecution DEF DataOK, RunningMapExact, Exec
  <2>2. \A x \in Exec : Live(x) => x \in 1..execs
    BY LiveExecution DEF DataOK
  <2>3. cancelled' \subseteq 1..execs
    <3>1. CASE Stop
      BY <2>1, <3>1 DEF Stop, DataOK, ExecsOK
    <3>2. CASE CancelContext
      BY <2>2, <3>2 DEF CancelContext, DataOK, ExecsOK
    <3>3. CASE \E x \in Exec : Timeout(x)
      BY <2>2, <3>3 DEF Timeout, DataOK, ExecsOK
    <3> QED BY <1>3, <3>1, <3>2, <3>3
  <2>4. UNCHANGED <<queueVars, agentVars, busy, running, repoVars, execVars>>
    BY <1>3 DEF Stop, CancelContext, Timeout
  <2> QED
    BY <2>3, <2>4 DEF DataOK, queueVars, agentVars, repoVars, execVars, QueueOK, AgentsOK,
       ExecsOK, RecordsOK
<1>4. CASE LeaveLoop
  BY <1>4 DEF LeaveLoop, DataOK, queueVars, agentVars, repoVars, execVars, QueueOK, AgentsOK,
     ExecsOK, RecordsOK
<1>5. CASE DispatchSkip
  BY <1>5 DEF DispatchSkip, DataOK, agentVars, repoVars, execVars, QueueOK, AgentsOK,
     ExecsOK, RecordsOK
<1> QED BY <1>1, <1>2, <1>3, <1>4, <1>5

LEMMA DispatchData == ASSUME DataOK, DispatchRun PROVE DataOK'
<1> USE BoundsAssumption DEF BoundsAssumption
<1>1. PICK item \in queue, a \in Agent : DispatchOf(item, a)
  BY DispatchMoves
<1>2. QueueOK'
  BY <1>1 DEF DispatchOf, DataOK, QueueOK
<1>3. AgentsOK'
  BY <1>1 DEF DispatchOf, DataOK, AgentsOK, agentVars
<1>4. ExecsOK'
  <2>1. PICK obj \in Object(item.task) :
          exec' = [exec EXCEPT ![execs + 1] =
            [pc |-> "loop", task |-> item.task, agent |-> a, slot |-> agents[a], i |-> 1, obj |-> obj]]
    BY <1>1 DEF DispatchOf
  <2>2. exec'[execs + 1].task = item.task /\ exec'[execs + 1] \in Execution(item.task)
    BY <1>1, <2>1 DEF DispatchOf, DataOK, ExecsOK, Execution
  <2>3. \A x \in Exec : x # execs + 1 => exec'[x] = exec[x]
    BY <2>1 DEF DataOK, ExecsOK
  <2>4. DOMAIN exec' = Exec /\ execs' \in 0..MaxExecs
    BY <1>1, <2>1 DEF DispatchOf, DataOK, ExecsOK
  <2>5. cancelled' \subseteq 1..execs'
    BY <1>1 DEF DispatchOf, DataOK, ExecsOK
  <2>6. ASSUME NEW x \in Exec, x <= execs'
        PROVE  exec'[x].task \in Task /\ exec'[x] \in Execution(exec'[x].task)
    <3>1. CASE x = execs + 1
      BY <1>1, <2>2, <3>1 DEF DispatchOf
    <3>2. CASE x # execs + 1
      BY <1>1, <2>3, <2>6, <3>2 DEF DispatchOf, DataOK, ExecsOK, Exec
    <3> QED BY <3>1, <3>2
  <2>7. \A x \in Exec : x > execs' => exec'[x] = NoExec
    BY <1>1, <2>3 DEF DispatchOf, DataOK, ExecsOK, Exec
  <2> QED BY <2>4, <2>5, <2>6, <2>7 DEF ExecsOK, Execution, Object, Slot
<1>5. RecordsOK' /\ running' \in [Task -> 0..MaxExecs]
  <2>1. exec'[execs + 1].task = item.task
    BY <1>1 DEF DispatchOf, DataOK, ExecsOK
  <2>2. \A x \in 1..execs : exec'[x].task = exec[x].task
    BY <1>1 DEF DispatchOf, DataOK, ExecsOK, Exec
  <2>3. /\ execs' = execs + 1 /\ execs + 1 \in 1..MaxExecs /\ item.task \in Task /\ rec' = rec
        /\ stored' = [stored EXCEPT ![item.task] = execs + 1]
        /\ running' = [running EXCEPT ![item.task] = execs + 1]
    BY <1>1 DEF DispatchOf, Exec
  <2>4. ASSUME NEW t \in Task, stored'[t] # 0
        PROVE  stored'[t] <= execs' /\ exec'[stored'[t]].task = t
    BY <2>1, <2>2, <2>3, <2>4 DEF DataOK, RecordsOK, ExecsOK
  <2> QED BY <2>3, <2>4 DEF DataOK, RecordsOK, RecordOf, Subtask
<1> QED BY <1>2, <1>3, <1>4, <1>5 DEF DataOK

\* The steps of an execution change its own object, which is then stored.
LEMMA MoveData ==
  ASSUME DataOK, NEW x \in 1..execs, NEW pc \in {"loop", "subtask", "exit", "done"},
         NEW i \in Nat \ {0}, NEW obj \in Object(exec[x].task), Moves(x, pc, i, obj),
         stored' = stored \/ stored' = [stored EXCEPT ![exec[x].task] = x],
         running' \in [Task -> 0..MaxExecs], busy' \in [Slot -> BOOLEAN],
         cancelled' \subseteq 1..execs,
         UNCHANGED <<queueVars, agentVars, rec, execs>>
  PROVE  DataOK'
<1> USE BoundsAssumption DEF BoundsAssumption
<1>1. x \in Exec /\ exec[x].task \in Task /\ exec[x] \in Execution(exec[x].task)
  BY DEF DataOK, ExecsOK, Exec
<1>2. /\ exec'[x] \in Execution(exec[x].task) /\ exec'[x].task = exec[x].task
      /\ DOMAIN exec' = Exec /\ \A y \in Exec : y # x => exec'[y] = exec[y]
  <2> DEFINE f == [exec[x] EXCEPT !.pc = pc, !.i = i, !.obj = obj]
  <2>1. f \in Execution(exec[x].task) /\ f.task = exec[x].task
    BY <1>1 DEF Execution
  <2>2. exec' = [exec EXCEPT ![x] = f] /\ DOMAIN exec = Exec
    BY DEF Moves, DataOK, ExecsOK
  <2> QED BY <1>1, <2>1, <2>2
<1>3. QueueOK' /\ AgentsOK'
  BY DEF DataOK, QueueOK, AgentsOK, queueVars, agentVars
<1>4. ExecsOK'
  <2>1. \A y \in Exec : y <= execs => exec'[y].task \in Task /\ exec'[y] \in Execution(exec'[y].task)
    BY <1>1, <1>2 DEF DataOK, ExecsOK
  <2>2. \A y \in Exec : y > execs => exec'[y] = NoExec
    BY <1>1, <1>2 DEF DataOK, ExecsOK
  <2> QED BY <1>2, <2>1, <2>2 DEF DataOK, ExecsOK, Execution, Object, Slot
<1>5. RecordsOK'
  <2>1. \A y \in 1..execs : exec'[y].task = exec[y].task
    BY <1>2 DEF DataOK, ExecsOK, Exec
  <2>2. \A t \in Task : stored'[t] # 0 => stored'[t] <= execs /\ exec'[stored'[t]].task = t
    BY <1>1, <2>1 DEF DataOK, RecordsOK, ExecsOK
  <2>3. stored' \in [Task -> 0..MaxExecs]
    BY <1>1 DEF DataOK, RecordsOK, Exec
  <2> QED BY <2>2, <2>3 DEF DataOK, RecordsOK, RecordOf, Subtask
<1> QED BY <1>3, <1>4, <1>5 DEF DataOK

LEMMA ExecData ==
  ASSUME DataOK, NEW x \in Exec, ExecStep(x)
  PROVE  DataOK'
<1>1. CASE QuietStep(x)
  <2>1. PICK pc \in {"loop", "subtask", "exit"}, i \in Nat \ {0}, obj \in Object(exec[x].task) :
          Moves(x, pc, i, obj)
    BY <1>1, QuietMoves
  <2>2. /\ x \in 1..execs /\ (stored' = stored \/ stored' = [stored EXCEPT ![exec[x].task] = x])
        /\ UNCHANGED <<queueVars, agentVars, busy, running, rec, execs, cancelled>>
    BY <1>1, QuietMoves
  <2>3. running' \in [Task -> 0..MaxExecs] /\ busy' \in [Slot -> BOOLEAN] /\ cancelled' \subseteq 1..execs
    BY <2>2 DEF DataOK, AgentsOK, ExecsOK
  <2>4. pc \in {"loop", "subtask", "exit", "done"}
    OBVIOUS
  <2> QED BY <2>1, <2>2, <2>3, <2>4, MoveData
<1>2. CASE Exit(x)
  <2>1. /\ x \in 1..execs /\ exec[x].task \in Task /\ exec[x].slot \in Slot
        /\ Moves(x, "done", exec[x].i, exec[x].obj)
    BY <1>2, ExitMoves
  <2>2. exec[x].i \in Nat \ {0} /\ exec[x].obj \in Object(exec[x].task)
    BY <2>1, LiveExecution DEF DataOK
  <2>3. running' \in [Task -> 0..MaxExecs] /\ busy' \in [Slot -> BOOLEAN] /\ cancelled' \subseteq 1..execs
    BY <1>2, <2>1, BoundsAssumption DEF Exit, DataOK, AgentsOK, ExecsOK, BoundsAssumption
  <2> QED BY <1>2, <2>1, <2>2, <2>3, MoveData DEF Exit, repoVars
<1> QED BY <1>1, <1>2 DEF ExecStep, QuietStep

LEMMA ServiceData ==
  ASSUME DataOK, NEW t \in Task, ServiceCancel(t) \/ ServiceFail(t) \/ ServiceRetry(t)
  PROVE  DataOK'
<1>1. PICK new : /\ Store(t, new) /\ new \in RecordOf(t)
                 /\ new.state = "pending" => new.subs = AllPending(Plan[t])
  <2>1. Stored(t) \in RecordOf(t)
    BY StoredRecord
  <2>2. CASE ServiceCancel(t)
    BY <2>1, <2>2 DEF ServiceCancel, RecordOf, TaskState
  <2>3. CASE ServiceFail(t)
    BY <2>1, <2>3 DEF ServiceFail, RecordOf, TaskState
  <2>4. CASE ServiceRetry(t)
    BY <2>4 DEF ServiceRetry, RecordOf, TaskState, AllPending, SubtaskState, Subtask
  <2> QED BY <2>2, <2>3, <2>4
<1>2. QueueOK' /\ AgentsOK' /\ ExecsOK'
  BY <1>1 DEF Store, DataOK, QueueOK, AgentsOK, ExecsOK, queueVars, agentVars, execVars
<1>3. stored' = [stored EXCEPT ![t] = 0] /\ rec' = [rec EXCEPT ![t] = new] /\ UNCHANGED <<exec, execs, running>>
  BY <1>1 DEF Store, execVars
<1>4. RecordsOK'
  <2>1. stored' \in [Task -> 0..MaxExecs] /\ DOMAIN rec' = Task
    BY <1>3, BoundsAssumption DEF DataOK, RecordsOK, BoundsAssumption
  <2>2. ASSUME NEW u \in Task
        PROVE  /\ rec'[u] \in RecordOf(u)
               /\ rec'[u].state = "pending" => rec'[u].subs = AllPending(Plan[u])
               /\ stored'[u] # 0 => stored'[u] <= execs' /\ exec'[stored'[u]].task = u
    BY <1>1, <1>3 DEF DataOK, RecordsOK
  <2> QED BY <2>1, <2>2 DEF RecordsOK, RecordOf, Subtask
<1> QED BY <1>2, <1>3, <1>4 DEF DataOK

LEMMA DataStep == ASSUME DataOK, RunningMapExact, [Next]_vars PROVE DataOK'
<1>1. CASE UNCHANGED vars
  BY <1>1 DEF vars, queueVars, agentVars, repoVars, execVars, DataOK, QueueOK, AgentsOK, ExecsOK,
     RecordsOK, RecordOf, Execution, Object, Subtask, Slot
<1> QED
  BY <1>1, OutsideData, DispatchData, ExecData, ServiceData DEF Next, Dispatch

-----------------------------------------------------------------------------
\* Slots and the map of cancel functions.

LEMMA MovesKeep ==
  ASSUME DataOK, NEW x \in 1..execs, NEW pc, NEW i, NEW obj, Moves(x, pc, i, obj)
  PROVE  /\ x \in Exec /\ exec'[x].pc = pc /\ exec'[x].i = i /\ exec'[x].obj = obj
         /\ exec'[x].task = exec[x].task /\ exec'[x].slot = exec[x].slot
         /\ \A y \in Exec : y # x => exec'[y] = exec[y]
<1>1. x \in Exec /\ exec[x] \in Execution(exec[x].task) /\ DOMAIN exec = Exec
  BY BoundsAssumption DEF DataOK, ExecsOK, Exec, BoundsAssumption
<1> DEFINE f == [exec[x] EXCEPT !.pc = pc, !.i = i, !.obj = obj]
<1>2. f.pc = pc /\ f.i = i /\ f.obj = obj /\ f.task = exec[x].task /\ f.slot = exec[x].slot
  BY <1>1 DEF Execution
<1>3. exec' = [exec EXCEPT ![x] = f]
  BY DEF Moves
<1> QED BY <1>1, <1>2, <1>3

LEMMA DispatchKeeps ==
  ASSUME DataOK, NEW item \in queue, NEW a \in Agent, DispatchOf(item, a)
  PROVE  \E n \in Exec :
           /\ n = execs + 1 /\ exec[n] = NoExec
           /\ exec'[n].pc = "loop" /\ exec'[n].task = item.task /\ exec'[n].slot = agents[a]
           /\ \A y \in Exec : y # n => exec'[y] = exec[y]
BY DEF DispatchOf, DataOK, ExecsOK, Exec

\* Everything else leaves executions, slots and the map as they are.
LEMMA OtherSteps ==
  ASSUME [Next]_vars, ~DispatchRun, \A x \in Exec : ~ExecStep(x)
  PROVE  UNCHANGED <<exec, execs, busy, running>>
<1>1. CASE \/ \E t \in Task, p \in Priority : Submit(t, p)
           \/ \E a \in Agent : RegisterAgent(a) \/ UnregisterAgent(a)
  BY <1>1 DEF Submit, RegisterAgent, UnregisterAgent, execVars
<1>2. CASE Stop \/ CancelContext \/ LeaveLoop \/ DispatchSkip \/ \E x \in Exec : Timeout(x)
  BY <1>2 DEF Stop, CancelContext, LeaveLoop, DispatchSkip, Timeout, execVars
<1>3. CASE \E t \in Task : ServiceCancel(t) \/ ServiceFail(t) \/ ServiceRetry(t)
  BY <1>3 DEF ServiceCancel, ServiceFail, ServiceRetry, Store, execVars
<1>4. CASE UNCHANGED vars
  BY <1>4 DEF vars, execVars
<1> QED BY <1>1, <1>2, <1>3, <1>4 DEF Next, Dispatch

LEMMA SlotsStep == ASSUME DataOK, SlotsOwned, [Next]_vars PROVE SlotsOwned'
<1>1. CASE DispatchRun
  <2>1. PICK item \in queue, a \in Agent : DispatchOf(item, a)
    BY <1>1, DispatchMoves
  <2>2. /\ agents[a] \in Slot /\ ~busy[agents[a]] /\ busy' = [busy EXCEPT ![agents[a]] = TRUE]
        /\ busy \in [Slot -> BOOLEAN]
    BY <2>1 DEF DispatchOf, DataOK, AgentsOK
  <2>3. PICK n \in Exec :
           /\ n = execs + 1 /\ exec[n] = NoExec
           /\ exec'[n].pc = "loop" /\ exec'[n].task = item.task /\ exec'[n].slot = agents[a]
           /\ \A y \in Exec : y # n => exec'[y] = exec[y]
    BY <2>1, DispatchKeeps
  <2>4. ~Live(n) /\ Live(n)' /\ \A y \in Exec : y # n => (Live(y)' <=> Live(y))
    BY <2>3 DEF Live, NoExec
  <2>5. \A y \in Exec : Live(y) => exec[y].slot \in Slot /\ exec[y].slot # agents[a]
    BY <2>2, LiveExecution DEF SlotsOwned, DataOK
  <2> QED BY <2>2, <2>3, <2>4, <2>5 DEF SlotsOwned
<1>2. CASE \E x \in Exec : QuietStep(x)
  <2>1. PICK x \in Exec : QuietStep(x)
    BY <1>2
  <2>2. PICK pc \in {"loop", "subtask", "exit"}, i \in Nat \ {0}, obj \in Object(exec[x].task) :
          Moves(x, pc, i, obj)
    BY <2>1, QuietMoves
  <2>3. x \in 1..execs /\ exec[x].pc \in {"loop", "subtask"} /\ busy' = busy
    BY <2>1, QuietMoves
  <2>4. \A y \in Exec : (Live(y)' <=> Live(y)) /\ exec'[y].slot = exec[y].slot
    BY <2>2, <2>3, MovesKeep DEF Live
  <2> QED BY <2>3, <2>4 DEF SlotsOwned
<1>3. CASE \E x \in Exec : Exit(x)
  <2>1. PICK x \in Exec : Exit(x)
    BY <1>3
  <2>2. /\ x \in 1..execs /\ Live(x) /\ exec[x].slot \in Slot
        /\ Moves(x, "done", exec[x].i, exec[x].obj)
        /\ busy' = [busy EXCEPT ![exec[x].slot] = FALSE] /\ busy \in [Slot -> BOOLEAN]
    BY <2>1, ExitMoves DEF Exit, DataOK, AgentsOK
  <2>3. ~Live(x)' /\ \A y \in Exec : y # x => (Live(y)' <=> Live(y)) /\ exec'[y] = exec[y]
    BY <2>2, MovesKeep DEF Live
  <2>4. \A y \in Exec : Live(y) => exec[y].slot \in Slot
    BY LiveExecution DEF DataOK
  <2> QED BY <2>2, <2>3, <2>4 DEF SlotsOwned
<1>4. CASE UNCHANGED <<exec, busy>>
  BY <1>4 DEF SlotsOwned, Live
<1> QED BY <1>1, <1>2, <1>3, <1>4, OtherSteps DEF ExecStep, QuietStep

LEMMA MapStep == ASSUME DataOK, RunningMapExact, [Next]_vars PROVE RunningMapExact'
<1> USE BoundsAssumption DEF BoundsAssumption
<1>0. \A x \in Exec : Live(x) => x \in 1..execs /\ exec[x].task \in Task
  BY LiveExecution DEF DataOK
<1>1. CASE DispatchRun
  <2>1. PICK item \in queue, a \in Agent : DispatchOf(item, a)
    BY <1>1, DispatchMoves
  <2>2. PICK n \in Exec :
           /\ n = execs + 1 /\ exec[n] = NoExec
           /\ exec'[n].pc = "loop" /\ exec'[n].task = item.task /\ exec'[n].slot = agents[a]
           /\ \A y \in Exec : y # n => exec'[y] = exec[y]
    BY <2>1, DispatchKeeps
  <2>3. /\ item.task \in Task /\ running' = [running EXCEPT ![item.task] = n]
        /\ running \in [Task -> 0..MaxExecs] /\ execs' = n /\ execs \in Nat
    BY <2>1, <2>2 DEF DispatchOf, DataOK, ExecsOK
  <2>4. ~Live(n) /\ Live(n)' /\ \A y \in Exec : y # n => (Live(y)' <=> Live(y))
    BY <2>2 DEF Live, NoExec
  <2>5. ASSUME NEW t \in Task, running'[t] # 0
        PROVE  (Live(running[t]) /\ exec[running[t]].task = t)'
    <3>1. CASE t = item.task
      BY <2>2, <2>3, <2>4, <3>1 DEF Live
    <3>2. CASE t # item.task
      <4>1. running'[t] = running[t] /\ running[t] \in Exec
        BY <2>3, <2>5, <3>2 DEF Exec
      <4>2. Live(running[t]) /\ exec[running[t]].task = t
        BY <2>5, <4>1 DEF RunningMapExact
      <4> QED BY <2>2, <2>4, <4>1, <4>2 DEF Live
    <3> QED BY <3>1, <3>2
  <2>6. ASSUME NEW x \in Exec, Live(x)'
        PROVE  (\/ running[exec[x].task] = x
                \/ \E y \in 1..execs \ {x} : exec[y].task = exec[x].task)'
    <3>1. CASE x = n
      BY <2>2, <2>3, <3>1
    <3>2. CASE x # n /\ exec[x].task = item.task
      <4>1. n \in 1..n /\ n # x
        BY <2>2, <2>3, <3>2
      <4>2. exec'[x].task = item.task
        BY <2>2, <3>2
      <4> QED BY <2>2, <2>3, <4>1, <4>2
    <3>3. CASE x # n /\ exec[x].task # item.task
      <4>1. Live(x) /\ exec'[x] = exec[x]
        BY <2>2, <2>4, <2>6, <3>3
      <4>2. CASE running[exec[x].task] = x
        BY <1>0, <2>3, <3>3, <4>1, <4>2
      <4>3. CASE \E y \in 1..execs \ {x} : exec[y].task = exec[x].task
        <5>1. PICK y \in 1..execs \ {x} : exec[y].task = exec[x].task
          BY <4>3
        <5>2. y \in 1..execs' \ {x} /\ y \in Exec /\ exec'[y] = exec[y]
          BY <2>2, <2>3, <5>1 DEF DataOK, ExecsOK, Exec
        <5> QED BY <4>1, <5>1, <5>2
      <4> QED BY <4>1, <4>2, <4>3 DEF RunningMapExact
    <3> QED BY <3>1, <3>2, <3>3
  <2> QED BY <2>5, <2>6 DEF RunningMapExact
<1>2. CASE \E x \in Exec : QuietStep(x)
  <2>1. PICK x \in Exec : QuietStep(x)
    BY <1>2
  <2>2. PICK pc \in {"loop", "subtask", "exit"}, i \in Nat \ {0}, obj \in Object(exec[x].task) :
          Moves(x, pc, i, obj)
    BY <2>1, QuietMoves
  <2>3. x \in 1..execs /\ exec[x].pc \in {"loop", "subtask"} /\ running' = running /\ execs' = execs
    BY <2>1, QuietMoves
  <2>4. \A y \in Exec : (Live(y)' <=> Live(y)) /\ exec'[y].task = exec[y].task
    BY <2>2, <2>3, MovesKeep DEF Live
  <2>5. \A t \in Task : running[t] # 0 => running[t] \in Exec
    BY DEF DataOK, Exec
  <2>6. \A y \in 1..execs : y \in Exec
    BY DEF DataOK, ExecsOK, Exec
  <2>7. ASSUME NEW t \in Task, running'[t] # 0
        PROVE  (Live(running[t]) /\ exec[running[t]].task = t)'
    <3>1. running'[t] = running[t] /\ running[t] \in Exec
      BY <2>3, <2>5, <2>7
    <3>2. Live(running[t]) /\ exec[running[t]].task = t
      BY <2>3, <2>7 DEF RunningMapExact
    <3> QED BY <2>4, <3>1, <3>2
  <2>8. ASSUME NEW z \in Exec, Live(z)'
        PROVE  (\/ running[exec[z].task] = z
                \/ \E y \in 1..execs \ {z} : exec[y].task = exec[z].task)'
    <3>1. Live(z) /\ exec'[z].task = exec[z].task
      BY <2>4, <2>8
    <3>2. CASE running[exec[z].task] = z
      BY <2>3, <3>1, <3>2
    <3>3. CASE \E y \in 1..execs \ {z} : exec[y].task = exec[z].task
      <4>1. PICK y \in 1..execs \ {z} : exec[y].task = exec[z].task
        BY <3>3
      <4>2. exec'[y].task = exec'[z].task
        BY <2>4, <2>6, <3>1, <4>1
      <4> QED BY <2>3, <4>1, <4>2
    <3> QED BY <3>1, <3>2, <3>3 DEF RunningMapExact
  <2> QED BY <2>7, <2>8 DEF RunningMapExact
<1>3. CASE \E x \in Exec : Exit(x)
  <2>1. PICK x \in Exec : Exit(x)
    BY <1>3
  <2>2. /\ x \in 1..execs /\ Live(x) /\ exec[x].task \in Task
        /\ Moves(x, "done", exec[x].i, exec[x].obj)
        /\ running' = [running EXCEPT ![exec[x].task] = 0] /\ running \in [Task -> 0..MaxExecs]
        /\ execs' = execs
    BY <2>1, ExitMoves DEF Exit, DataOK
  <2>3. ~Live(x)' /\ exec'[x].task = exec[x].task
        /\ \A y \in Exec : y # x => (Live(y)' <=> Live(y)) /\ exec'[y] = exec[y]
    BY <2>2, MovesKeep DEF Live
  <2>4. ASSUME NEW t \in Task, running'[t] # 0
        PROVE  (Live(running[t]) /\ exec[running[t]].task = t)'
    <3>1. t # exec[x].task /\ running'[t] = running[t] /\ running[t] \in Exec
      BY <2>2, <2>4 DEF Exec
    <3>2. Live(running[t]) /\ exec[running[t]].task = t
      BY <2>4, <3>1 DEF RunningMapExact
    <3> QED BY <2>3, <3>1, <3>2 DEF Live
  <2>5. ASSUME NEW z \in Exec, Live(z)'
        PROVE  (\/ running[exec[z].task] = z
                \/ \E y \in 1..execs \ {z} : exec[y].task = exec[z].task)'
    <3>1. z # x /\ Live(z) /\ exec'[z] = exec[z]
      BY <2>3, <2>5
    <3>2. CASE exec[z].task = exec[x].task
      <4>1. x \in 1..execs' \ {z} /\ exec'[x].task = exec'[z].task
        BY <2>2, <2>3, <3>1, <3>2
      <4> QED BY <4>1
    <3>3. CASE exec[z].task # exec[x].task /\ running[exec[z].task] = z
      BY <1>0, <2>2, <3>1, <3>3
    <3>4. CASE exec[z].task # exec[x].task /\ \E y \in 1..execs \ {z} : exec[y].task = exec[z].task
      <4>1. PICK y \in 1..execs \ {z} : exec[y].task = exec[z].task
        BY <3>4
      <4>2. y \in Exec /\ exec'[y].task = exec[y].task
        BY <2>3, <4>1 DEF DataOK, ExecsOK, Exec
      <4> QED BY <2>2, <3>1, <4>1, <4>2
    <3> QED BY <3>1, <3>2, <3>3, <3>4 DEF RunningMapExact
  <2> QED BY <2>4, <2>5 DEF RunningMapExact
<1>4. CASE UNCHANGED <<exec, execs, running>>
  BY <1>4 DEF RunningMapExact, Live
<1> QED BY <1>1, <1>2, <1>3, <1>4, OtherSteps DEF ExecStep, QuietStep

-----------------------------------------------------------------------------
\* The loop over the subtasks.

\* Skipping a subtask leaves the completed ones as they are.
LEMMA SkipProgress ==
  ASSUME DataOK, Progress, NEW x \in Exec, SkipSubtask(x)
  PROVE  ProgressOf(exec'[x])
<1> DEFINE e == exec[x] t == e.task subs == e.obj.subs
<1>1. /\ e.pc = "loop" /\ e.i \in Subtask(t) /\ ~DependenciesMet(t, subs, e.i) /\ x \in 1..execs
      /\ t \in Task /\ e.i \in Nat \ {0} /\ e.obj \in Object(t)
  BY MovesFrom DEF SkipSubtask, InLoop
<1>2. /\ exec'[x].pc = "loop" /\ exec'[x].task = t /\ exec'[x].obj = e.obj /\ exec'[x].i = e.i + 1
  BY <1>1, MovesFrom DEF SkipSubtask, Execution, DataOK, ExecsOK
<1>3. ProgressOf(e)
  BY <1>1 DEF Progress
<1>4. Subtask(t) \subseteq Nat /\ \A k \in Subtask(t) : Plan[t][k] \in SUBSET Nat
  BY <1>1, PlanSubtasks
<1>5. DoneBefore(t, subs, e.i + 1)
  <2>1. subs[e.i] # "completed"
    BY <1>1, <1>3 DEF ProgressOf, UntouchedFrom
  <2> QED BY <1>1, <1>3, <1>4, <2>1 DEF ProgressOf, DoneBefore, DependenciesMet
<1>6. UntouchedFrom(t, subs, e.i + 1)
  BY <1>1, <1>3, <1>4 DEF ProgressOf, UntouchedFrom
<1> QED BY <1>1, <1>2, <1>3, <1>5, <1>6 DEF ProgressOf

LEMMA BeginProgress ==
  ASSUME DataOK, Progress, NEW x \in Exec, BeginSubtask(x)
  PROVE  ProgressOf(exec'[x])
<1> DEFINE e == exec[x] t == e.task subs == e.obj.subs
<1>1. /\ e.pc = "loop" /\ e.i \in Subtask(t) /\ DependenciesMet(t, subs, e.i) /\ x \in 1..execs
      /\ t \in Task /\ e.i \in Nat \ {0} /\ e.obj \in Object(t)
  BY MovesFrom DEF BeginSubtask, InLoop
<1> DEFINE new == [subs EXCEPT ![e.i] = "in_progress"]
<1>2. /\ exec'[x].pc = "subtask" /\ exec'[x].task = t /\ exec'[x].i = e.i
      /\ exec'[x].obj.subs = new /\ exec'[x].obj.state = e.obj.state
  <2> DEFINE obj == [e.obj EXCEPT !.subs[e.i] = "in_progress"]
  <2>1. Moves(x, "subtask", e.i, obj)
    BY <1>1, MovesFrom DEF BeginSubtask, Save
  <2>2. obj.subs = new /\ obj.state = e.obj.state
    BY <1>1 DEF Object
  <2> HIDE DEF obj, new
  <2> QED BY <1>1, <2>1, <2>2, MovesKeep
<1>3. ProgressOf(e) /\ subs \in [Subtask(t) -> SubtaskState]
  BY <1>1 DEF Progress, Object
<1>4. Subtask(t) \subseteq Nat /\ \A k \in Subtask(t) : Plan[t][k] \in SUBSET Nat
  BY <1>1, PlanSubtasks
<1>5. \A k \in Subtask(t) : new[k] = "completed" <=> subs[k] = "completed"
  BY <1>1, <1>3 DEF ProgressOf, UntouchedFrom
<1>6. DoneBefore(t, new, e.i)
  BY <1>1, <1>3, <1>4, <1>5 DEF ProgressOf, DoneBefore
<1>7. UntouchedFrom(t, new, e.i + 1) /\ new[e.i] = "in_progress"
  BY <1>1, <1>3, <1>4 DEF ProgressOf, UntouchedFrom
<1>8. DependenciesMet(t, new, e.i)
  BY <1>1, <1>4, <1>5 DEF DependenciesMet
<1> QED BY <1>1, <1>2, <1>3, <1>6, <1>7, <1>8 DEF ProgressOf

\* A subtask that ends had its dependencies completed before it.
LEMMA EndProgress ==
  ASSUME DataOK, Progress, NEW x \in Exec, EndSubtask(x)
  PROVE  ProgressOf(exec'[x])
<1> DEFINE e == exec[x] t == e.task subs == e.obj.subs
<1>1. /\ e.pc = "subtask" /\ x \in 1..execs
      /\ t \in Task /\ e.i \in Nat \ {0} /\ e.obj \in Object(t)
  BY MovesFrom DEF EndSubtask
<1> DEFINE new == [subs EXCEPT ![e.i] = "completed"]
<1>2. /\ exec'[x].pc = "loop" /\ exec'[x].task = t /\ exec'[x].i = e.i + 1
      /\ exec'[x].obj.subs = new /\ exec'[x].obj.state = e.obj.state
  <2>1. exec[x] \in Execution(t)
    BY <1>1, MovesFrom
  <2> DEFINE obj == [e.obj EXCEPT !.subs[e.i] = "completed"]
  <2>2. Moves(x, "loop", e.i + 1, obj)
    BY <1>1, <2>1 DEF EndSubtask, Moves, Execution, DataOK, ExecsOK
  <2>3. obj.subs = new /\ obj.state = e.obj.state
    BY <1>1 DEF Object
  <2> HIDE DEF obj
  <2>4. /\ exec'[x].pc = "loop" /\ exec'[x].i = e.i + 1 /\ exec'[x].obj = obj
        /\ exec'[x].task = t
    BY <1>1, <2>2, MovesKeep
  <2> QED BY <2>3, <2>4
<1>3. ProgressOf(e) /\ subs \in [Subtask(t) -> SubtaskState] /\ e.i \in Subtask(t)
  BY <1>1 DEF Progress, Object, ProgressOf
<1>4. Subtask(t) \subseteq Nat /\ \A k \in Subtask(t) : Plan[t][k] \in SUBSET Nat
  BY <1>1, PlanSubtasks
<1>5. /\ DoneBefore(t, subs, e.i) /\ UntouchedFrom(t, subs, e.i + 1)
      /\ DependenciesMet(t, subs, e.i) /\ subs[e.i] = "in_progress"
  BY <1>1, <1>3 DEF ProgressOf
<1>6. \A d \in Subtask(t) : subs[d] = "completed" => d < e.i
  BY <1>3, <1>4, <1>5 DEF UntouchedFrom
<1>7. \A k \in Subtask(t) : new[k] = "completed" <=> k = e.i \/ subs[k] = "completed"
  BY <1>3
<1>8. DoneBefore(t, new, e.i + 1)
  <2> SUFFICES ASSUME NEW k \in Subtask(t), k < e.i + 1
               PROVE  new[k] = "completed" <=>
                        \A d \in Plan[t][k] \cap Subtask(t) : d < k /\ new[d] = "completed"
    BY DEF DoneBefore
  <2>1. CASE k = e.i
    BY <1>3, <1>4, <1>5, <1>6, <1>7, <2>1 DEF DependenciesMet
  <2>2. CASE k # e.i
    <3>1. k < e.i
      BY <1>1, <1>4, <2>2
    <3>2. \A d \in Plan[t][k] \cap Subtask(t) : d < k => (new[d] = "completed" <=> subs[d] = "completed")
      BY <1>4, <1>7, <3>1
    <3> QED BY <1>5, <1>7, <2>2, <3>1, <3>2 DEF DoneBefore
  <2> QED BY <2>1, <2>2
<1>9. UntouchedFrom(t, new, e.i + 1)
  BY <1>3, <1>4, <1>5 DEF UntouchedFrom
<1> QED BY <1>1, <1>2, <1>3, <1>8, <1>9 DEF ProgressOf

LEMMA FinishProgress ==
  ASSUME DataOK, Progress, NEW x \in Exec, Finish(x)
  PROVE  ProgressOf(exec'[x])
<1> DEFINE e == exec[x] t == e.task subs == e.obj.subs
<1>1. /\ e.pc = "loop" /\ e.i \notin Subtask(t) /\ x \in 1..execs
      /\ t \in Task /\ e.i \in Nat \ {0} /\ e.obj \in Object(t)
  BY MovesFrom DEF Finish
<1>2. exec'[x].pc = "exit" /\ exec'[x].task = t /\ exec'[x].obj.subs = subs
  <2> DEFINE obj == [e.obj EXCEPT !.state = "completed"]
  <2>1. Moves(x, "exit", e.i, obj)
    BY <1>1, MovesFrom DEF Finish, Save
  <2>2. obj.subs = subs
    BY <1>1 DEF Object
  <2> HIDE DEF obj
  <2> QED BY <1>1, <2>1, <2>2, MovesKeep
<1>3. ProgressOf(e)
  BY <1>1 DEF Progress
<1>4. Len(Plan[t]) \in Nat /\ Subtask(t) = 1..Len(Plan[t])
  BY <1>1, PlanSubtasks
<1>5. DoneBefore(t, subs, Len(Plan[t]) + 1)
  <2>1. \A k \in Subtask(t) : k < e.i
    BY <1>1, <1>4
  <2> QED BY <1>1, <1>3, <2>1 DEF ProgressOf, DoneBefore
<1> QED BY <1>2, <1>5 DEF ProgressOf

LEMMA ProgressStep == ASSUME DataOK, Progress, [Next]_vars PROVE Progress'
<1> USE BoundsAssumption DEF BoundsAssumption
<1>0. execs \in 0..MaxExecs /\ \A y \in 1..execs : y \in Exec
  BY DEF DataOK, ExecsOK, Exec
<1>1. CASE DispatchRun
  <2>1. PICK item \in queue, a \in Agent : DispatchOf(item, a)
    BY <1>1, DispatchMoves
  <2>2. PICK n \in Exec :
           /\ n = execs + 1 /\ exec[n] = NoExec
           /\ exec'[n].pc = "loop" /\ exec'[n].task = item.task /\ exec'[n].slot = agents[a]
           /\ \A y \in Exec : y # n => exec'[y] = exec[y]
    BY <2>1, DispatchKeeps
  <2>3. /\ item.task \in Task /\ execs' = n /\ exec'[n].i = 1
        /\ exec'[n].obj.state = "in_progress" /\ exec'[n].obj.subs = AllPending(Plan[item.task])
    BY <2>1, <2>2 DEF DispatchOf, DataOK, ExecsOK
  <2>4. /\ DoneBefore(item.task, AllPending(Plan[item.task]), 1)
        /\ UntouchedFrom(item.task, AllPending(Plan[item.task]), 1)
    BY <2>3, PlanSubtasks DEF DoneBefore, UntouchedFrom, AllPending, Subtask
  <2>5. ProgressOf(exec'[n])
    BY <2>2, <2>3, <2>4 DEF ProgressOf
  <2>6. \A y \in 1..execs : ProgressOf(exec'[y])
    BY <1>0, <2>2 DEF Progress
  <2> QED BY <1>0, <2>2, <2>3, <2>5, <2>6 DEF Progress
<1>2. ASSUME NEW x \in Exec, ExecStep(x) PROVE Progress'
  <2>1. x \in 1..execs /\ execs' = execs /\ \A y \in Exec : y # x => exec'[y] = exec[y]
    <3>1. CASE QuietStep(x)
      BY <3>1, QuietMoves, MovesKeep
    <3>2. CASE Exit(x)
      BY <3>2, ExitMoves, MovesKeep DEF Exit
    <3> QED BY <1>2, <3>1, <3>2 DEF ExecStep, QuietStep
  <2>2. ProgressOf(exec'[x])
    <3>1. CASE Aborted(x)
      <4>1. exec[x].pc = "loop" /\ exec[x] \in Execution(exec[x].task) /\ exec[x].obj \in Object(exec[x].task)
        BY <3>1, MovesFrom DEF Aborted, InLoop
      <4>2. exec'[x].pc = "exit" /\ exec'[x].obj.state = "failed"
        BY <3>1, <4>1 DEF Aborted, Save, Execution, Object, DataOK, ExecsOK
      <4> QED BY <4>2 DEF ProgressOf
    <3>2. CASE Exit(x)
      <4>1. exec'[x].pc = "done" /\ exec'[x].task = exec[x].task /\ exec'[x].obj = exec[x].obj
        BY <3>2, ExitMoves, MovesKeep
      <4>2. ProgressOf(exec[x]) /\ exec[x].pc = "exit"
        BY <2>1, <3>2 DEF Progress, Exit
      <4> QED BY <4>1, <4>2 DEF ProgressOf
    <3> QED
      BY <1>2, <3>1, <3>2, SkipProgress, BeginProgress, EndProgress, FinishProgress DEF ExecStep
  <2> QED BY <1>0, <2>1, <2>2 DEF Progress
<1>3. CASE UNCHANGED <<exec, execs>>
  BY <1>3 DEF Progress
<1> QED BY <1>1, <1>2, <1>3, OtherSteps

-----------------------------------------------------------------------------
LEMMA InitInv == Init => Inv /\ FlagsOK
<1> SUFFICES ASSUME Init PROVE Inv /\ FlagsOK
  OBVIOUS
<1> USE BoundsAssumption DEF BoundsAssumption
<1>1. QueueOK /\ AgentsOK /\ running \in [Task -> 0..MaxExecs]
  BY DEF Init, QueueOK, AgentsOK
<1>2. ExecsOK
  BY DEF Init, ExecsOK, Exec
<1>3. RecordsOK
  <2>1. \A t \in Task : rec[t] = [state |-> "pending", subs |-> AllPending(Plan[t])]
    BY DEF Init
  <2>2. ASSUME NEW t \in Task PROVE rec[t] \in RecordOf(t)
    <3> DEFINE pending == AllPending(Plan[t])
    <3>1. pending \in [Subtask(t) -> SubtaskState]
      BY DEF AllPending, Subtask, SubtaskState
    <3>2. rec[t] = [state |-> "pending", subs |-> pending]
      BY <2>1
    <3> HIDE DEF pending
    <3> QED BY <3>1, <3>2 DEF RecordOf, TaskState
  <2> QED BY <2>1, <2>2 DEF Init, RecordsOK
<1>4. SlotsOwned /\ RunningMapExact /\ Progress
  BY DEF Init, SlotsOwned, RunningMapExact, Progress, Live, NoExec
<1>5. FlagsOK
  BY DEF Init, FlagsOK
<1> QED BY <1>1, <1>2, <1>3, <1>4, <1>5 DEF Inv, DataOK

\* The inductive invariant of the engine, its loop and its executions.
THEOREM Invariance == Spec => [](Inv /\ FlagsOK)
<1>1. Inv /\ [Next]_vars => Inv'
  BY DataStep, SlotsStep, MapStep, ProgressStep DEF Inv
<1> QED BY <1>1, InitInv, FlagsStep, PTL DEF Spec

\* Every variable keeps its type, and only executions that were dispatched are
\* ever cancelled, whatever tasks, agents and limits there are.
THEOREM TypeCorrect == Spec => []TypeOK
<1>1. Inv /\ FlagsOK => TypeOK
  <2> SUFFICES ASSUME Inv, FlagsOK PROVE TypeOK
    OBVIOUS
  <2>1. \A x \in Exec : exec[x].pc \in {"none", "loop", "subtask", "exit", "done"}
    BY DEF Inv, DataOK, ExecsOK, Execution, NoExec, Exec
  <2>2. clock \in 0..MaxSubmits
    BY BoundsAssumption DEF Inv, DataOK, QueueOK, BoundsAssumption
  <2>3. stopped \in BOOLEAN /\ ctxDone \in BOOLEAN /\ loop \in {"on", "off"}
    BY DEF FlagsOK
  <2> QED BY <2>1, <2>2, <2>3 DEF TypeOK, Inv, DataOK, QueueOK, AgentsOK, ExecsOK, RecordsOK
<1> QED BY <1>1, Invariance, PTL

\* A slot is busy exactly while one execution holds it: the limit that agents
\* put on the engine is neither exceeded nor eaten up by slots that leak.
THEOREM SlotsExclusiveHolds == Spec => []SlotsExclusive
<1>1. Inv => SlotsExclusive
  <2> SUFFICES ASSUME Inv, NEW s \in Slot
               PROVE  LET holders == {x \in Exec : Live(x) /\ exec[x].slot = s} IN
                        /\ Cardinality(holders) <= 1
                        /\ busy[s] <=> holders # {}
    BY DEF SlotsExclusive
  <2> DEFINE holders == {x \in Exec : Live(x) /\ exec[x].slot = s}
  <2>1. busy[s] <=> holders # {}
    BY DEF Inv, SlotsOwned
  <2>2. \A x, y \in holders : x = y
    BY DEF Inv, SlotsOwned
  <2>3. Cardinality(holders) <= 1
    <3>1. CASE holders = {}
      BY <3>1, FS_EmptySet
    <3>2. CASE holders # {}
      <4>1. PICK x : holders = {x}
        BY <2>2, <3>2
      <4>2. Cardinality({x}) = 1
        BY FS_Singleton
      <4> QED BY <4>1, <4>2
    <3> QED BY <3>1, <3>2
  <2> QED BY <2>1, <2>3
<1> QED BY <1>1, Invariance, PTL

\* The map of cancel functions names nothing that is over or another task's,
\* and misses only executions of a task that was dispatched more than once.
THEOREM RunningMapExactHolds == Spec => []RunningMapExact
<1>1. Inv => RunningMapExact
  BY DEF Inv
<1> QED BY <1>1, Invariance, PTL

\* A task is stored as completed with exactly the subtasks executed whose
\* dependencies come earlier and were executed, for every plan.
THEOREM FinishedExactHolds == Spec => []FinishedExact
<1>1. Inv => FinishedExact
  <2> SUFFICES ASSUME Inv, NEW x \in Exec,
                      exec[x].pc \in {"exit", "done"}, exec[x].obj.state = "completed"
               PROVE  LET t == exec[x].task
                          done == Completed(exec[x].obj.subs)
                      IN \A k \in Subtask(t) :
                           k \in done <=> \A d \in Plan[t][k] \cap Subtask(t) : d < k /\ d \in done
    BY DEF FinishedExact
  <2> DEFINE t == exec[x].task subs == exec[x].obj.subs
  <2>1. x \in 1..execs
    BY BoundsAssumption DEF Inv, DataOK, ExecsOK, NoExec, Exec, BoundsAssumption
  <2>2. t \in Task /\ exec[x].obj \in Object(t) /\ ProgressOf(exec[x])
    BY <2>1, LiveExecution DEF Inv, DataOK, Progress
  <2>3. subs \in [Subtask(t) -> SubtaskState]
    BY <2>2 DEF Object
  <2>4. DoneBefore(t, subs, Len(Plan[t]) + 1)
    BY <2>2 DEF ProgressOf
  <2>5. \A k \in Subtask(t) : k < Len(Plan[t]) + 1
    BY <2>2, PlanSubtasks
  <2>6. \A k \in Subtask(t) : k \in Completed(subs) <=> subs[k] = "completed"
    BY <2>3 DEF Completed
  <2> QED BY <2>4, <2>5, <2>6 DEF DoneBefore
<1> QED BY <1>1, Invariance, PTL
=============================================================================
