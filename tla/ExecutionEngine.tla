-------------------------- MODULE ExecutionEngine --------------------------
(***************************************************************************)
(* executor.ExecutionEngine (internal/executor/engine.go): a queue of task *)
(* ids, agent slots, one dispatching goroutine (runLoop) and one goroutine *)
(* per dispatched task (executeTask), over the repository that taskService *)
(* works on too.                                                           *)
(*                                                                         *)
(* mu makes every engine operation and every dispatch one step.  The       *)
(* repository keeps the pointer that Update is given, so after its first   *)
(* Update an execution's own task object IS the stored one until somebody  *)
(* stores another: `stored` says which, and Stored what a reader sees.     *)
(* The window between GetByID and Update inside dispatch is not split: a   *)
(* write in it is overwritten just as one right after the dispatch is, by  *)
(* the execution's next Update.                                            *)
(***************************************************************************)
EXTENDS Naturals, FiniteSets, Sequences, TaskGraph

CONSTANTS
  Task,           \* task ids, created pending
  Plan,           \* the plan of each task
  Agent,          \* agent ids
  Priority,       \* a set of numbers
  MaxConcurrent,  \* EngineConfig.MaxConcurrent
  ServiceOps,     \* which operations of taskService interfere
  MaxSubmits,     \* bound: calls of Submit
  MaxSlots,       \* bound: agent slots ever created
  MaxExecs        \* bound: executions ever dispatched

ASSUME ServiceOpsAssumption == ServiceOps \subseteq {"cancel", "fail", "retry"}
ASSUME PlanAssumption == Plan \in [Task -> Seq(SUBSET Nat)]
ASSUME BoundsAssumption == MaxSubmits \in Nat /\ MaxSlots \in Nat /\ MaxExecs \in Nat

VARIABLES
  queue,     \* the heap: a set of items
  submits,   \* how many items were ever submitted
  clock,     \* the wall clock Submit stamps items with
  agents,    \* the map agentID -> slot; 0: not registered
  slots,     \* how many slots were ever created
  busy,      \* agentSlot.Busy
  running,   \* the map taskID -> cancel function, as an execution; 0: none
  stored,    \* the record of the repository: 0, or the execution whose object it is
  rec,       \* the stored record where stored is 0
  exec,      \* the executions
  execs,     \* how many were ever dispatched
  cancelled, \* executions whose context has been cancelled or has timed out
  stopped,   \* Stop was called
  ctxDone,   \* the context given to Start has been cancelled
  loop       \* runLoop is "on" or "off"

queueVars == <<queue, submits, clock>>
agentVars == <<agents, slots>>
repoVars == <<stored, rec>>
execVars == <<exec, execs>>
controlVars == <<stopped, ctxDone, loop>>
vars == <<queueVars, agentVars, busy, running, repoVars, execVars, cancelled, controlVars>>

Slot == 1..MaxSlots
Exec == 1..MaxExecs
Subtask(t) == DOMAIN Plan[t]

Stored(t) == IF stored[t] = 0 THEN rec[t] ELSE exec[stored[t]].obj

NoExec == [pc |-> "none"]
Live(x) == exec[x].pc \notin {"none", "done"}

Init ==
  /\ queue = {} /\ submits = 0 /\ clock = 0
  /\ agents = [a \in Agent |-> 0] /\ slots = 0 /\ busy = [s \in Slot |-> FALSE]
  /\ running = [t \in Task |-> 0]
  /\ stored = [t \in Task |-> 0]
  /\ rec = [t \in Task |-> [state |-> "pending", subs |-> AllPending(Plan[t])]]
  /\ exec = [x \in Exec |-> NoExec] /\ execs = 0
  /\ cancelled = {} /\ stopped = FALSE /\ ctxDone = FALSE /\ loop = "on"

-----------------------------------------------------------------------------
\* Nothing stops a caller from submitting a task twice.  Two items may get the
\* same time stamp.
Submit(t, p) ==
  /\ submits < MaxSubmits
  /\ submits' = submits + 1
  /\ clock' \in {clock, clock + 1}
  /\ queue' = queue \cup {[no |-> submits', task |-> t, priority |-> p, at |-> clock']}
  /\ UNCHANGED <<agentVars, busy, running, repoVars, execVars, cancelled, controlVars>>

RegisterAgent(a) ==
  /\ agents[a] = 0 /\ slots < MaxSlots
  /\ slots' = slots + 1
  /\ agents' = [agents EXCEPT ![a] = slots']
  /\ UNCHANGED <<queueVars, busy, running, repoVars, execVars, cancelled, controlVars>>

\* The slot stays with the execution that holds it.
UnregisterAgent(a) ==
  /\ agents[a] # 0
  /\ agents' = [agents EXCEPT ![a] = 0]
  /\ UNCHANGED <<queueVars, slots, busy, running, repoVars, execVars, cancelled, controlVars>>

\* Mutant of Stop: an empty entry of the map is called like any other.
StopCallsNil ==
  /\ ~stopped /\ stopped' = TRUE
  /\ cancelled' = cancelled \cup {running[t] : t \in Task}
  /\ UNCHANGED <<queueVars, agentVars, busy, running, repoVars, execVars, ctxDone, loop>>

Stop ==
  /\ ~stopped /\ stopped' = TRUE
  /\ cancelled' = cancelled \cup {running[t] : t \in {u \in Task : running[u] # 0}}
  /\ UNCHANGED <<queueVars, agentVars, busy, running, repoVars, execVars, ctxDone, loop>>

\* The context of every execution is derived from the one given to Start.
CancelContext ==
  /\ ~ctxDone /\ ctxDone' = TRUE
  /\ cancelled' = cancelled \cup {x \in Exec : Live(x)}
  /\ UNCHANGED <<queueVars, agentVars, busy, running, repoVars, execVars, stopped, loop>>

\* runLoop's select takes a ready ticker or a closed channel as it likes.
LeaveLoop ==
  /\ loop = "on" /\ (stopped \/ ctxDone)
  /\ loop' = "off"
  /\ UNCHANGED <<queueVars, agentVars, busy, running, repoVars, execVars, cancelled, stopped, ctxDone>>

-----------------------------------------------------------------------------
\* taskQueue.Less
Less(p, q) == \/ p.priority > q.priority
              \/ p.priority = q.priority /\ p.at < q.at

\* heap.Pop: an item that no other is less than.
Heads == {p \in queue : \A q \in queue : ~Less(q, p)}

Idle(a) == agents[a] # 0 /\ ~busy[agents[a]]

RunningCount == Cardinality({t \in Task : running[t] # 0})

CanDispatch ==
  /\ loop = "on" /\ queue # {} /\ \E a \in Agent : Idle(a)
  /\ RunningCount < MaxConcurrent

\* Mutant of DispatchSkip: the item is pushed back.
DispatchSkipPushesBack ==
  /\ CanDispatch
  /\ \E item \in Heads :
       /\ Stored(item.task).state # "pending"
       /\ queue' = (queue \ {item}) \cup {item}
  /\ UNCHANGED <<submits, clock, agentVars, busy, running, repoVars, execVars, cancelled, controlVars>>

\* The popped task is no longer pending: the item is dropped.
DispatchSkip ==
  /\ CanDispatch
  /\ \E item \in Heads :
       /\ Stored(item.task).state # "pending"
       /\ queue' = queue \ {item}
  /\ UNCHANGED <<submits, clock, agentVars, busy, running, repoVars, execVars, cancelled, controlVars>>

DispatchRun ==
  /\ CanDispatch /\ execs < MaxExecs
  /\ \E item \in Heads, a \in {b \in Agent : Idle(b)} :
       LET t == item.task
           s == agents[a]
           x == execs + 1
       IN /\ Stored(t).state = "pending"
          /\ queue' = queue \ {item}
          /\ busy' = [busy EXCEPT ![s] = TRUE]
          /\ execs' = x
          /\ exec' = [exec EXCEPT ![x] =
               [pc |-> "loop", task |-> t, agent |-> a, slot |-> s, i |-> 1,
                obj |-> [Stored(t) EXCEPT !.state = "in_progress"]]]
          /\ stored' = [stored EXCEPT ![t] = x]
          /\ running' = [running EXCEPT ![t] = x]
          /\ cancelled' = IF ctxDone THEN cancelled \cup {x} ELSE cancelled
  /\ UNCHANGED <<submits, clock, agentVars, rec, controlVars>>

-----------------------------------------------------------------------------
\* Mutant of DependenciesMet: a dangling dependency is never met.
DependenciesMetStrictly(t, subs, k) ==
  \A d \in Plan[t][k] : d \in Subtask(t) /\ subs[d] = "completed"

\* dependenciesMet: the dependencies that are subtasks of the task at all have
\* completed; an id that names none is taken as met.
DependenciesMet(t, subs, k) ==
  \A d \in Plan[t][k] \cap Subtask(t) : subs[d] = "completed"

InLoop(x) == exec[x].pc = "loop" /\ exec[x].i \in Subtask(exec[x].task)

\* An execution changes its object and stores it.
Save(x, pc, obj) ==
  /\ exec' = [exec EXCEPT ![x].pc = pc, ![x].obj = obj]
  /\ stored' = [stored EXCEPT ![exec[x].task] = x]

Aborted(x) ==
  /\ InLoop(x) /\ x \in cancelled
  /\ Save(x, "exit", [exec[x].obj EXCEPT !.state = "failed"])
  /\ UNCHANGED <<queueVars, agentVars, busy, running, rec, execs, cancelled, controlVars>>

SkipSubtask(x) ==
  /\ InLoop(x) /\ x \notin cancelled
  /\ ~DependenciesMet(exec[x].task, exec[x].obj.subs, exec[x].i)
  /\ exec' = [exec EXCEPT ![x].i = @ + 1]
  /\ UNCHANGED <<queueVars, agentVars, busy, running, repoVars, execs, cancelled, controlVars>>

BeginSubtask(x) ==
  /\ InLoop(x) /\ x \notin cancelled
  /\ DependenciesMet(exec[x].task, exec[x].obj.subs, exec[x].i)
  /\ Save(x, "subtask", [exec[x].obj EXCEPT !.subs[exec[x].i] = "in_progress"])
  /\ UNCHANGED <<queueVars, agentVars, busy, running, rec, execs, cancelled, controlVars>>

\* Mutant of EndSubtask: the loop does not move on.
EndSubtaskStays(x) ==
  /\ exec[x].pc = "subtask"
  /\ exec' = [exec EXCEPT ![x].pc = "loop", ![x].obj.subs[exec[x].i] = "completed"]
  /\ UNCHANGED <<queueVars, agentVars, busy, running, repoVars, execs, cancelled, controlVars>>

\* The simulated work: the object changes, in place.
EndSubtask(x) ==
  /\ exec[x].pc = "subtask"
  /\ exec' = [exec EXCEPT ![x].pc = "loop", ![x].i = @ + 1,
                          ![x].obj.subs[exec[x].i] = "completed"]
  /\ UNCHANGED <<queueVars, agentVars, busy, running, repoVars, execs, cancelled, controlVars>>

Finish(x) ==
  /\ exec[x].pc = "loop" /\ exec[x].i \notin Subtask(exec[x].task)
  /\ Save(x, "exit", [exec[x].obj EXCEPT !.state = "completed"])
  /\ UNCHANGED <<queueVars, agentVars, busy, running, rec, execs, cancelled, controlVars>>

\* Mutant of Exit: the slot to give back is looked up by the agent's id.
ExitByAgentID(x) ==
  /\ exec[x].pc = "exit"
  /\ exec' = [exec EXCEPT ![x].pc = "done"]
  /\ running' = [running EXCEPT ![exec[x].task] = 0]
  /\ busy' = [s \in Slot |-> busy[s] /\ s # agents[exec[x].agent]]
  /\ cancelled' = cancelled \cup {x}
  /\ UNCHANGED <<queueVars, agentVars, repoVars, execs, controlVars>>

\* Mutant of Exit: the cancel function is called but not forgotten.
ExitKeepsEntry(x) ==
  /\ exec[x].pc = "exit"
  /\ exec' = [exec EXCEPT ![x].pc = "done"]
  /\ busy' = [busy EXCEPT ![exec[x].slot] = FALSE]
  /\ cancelled' = cancelled \cup {x}
  /\ UNCHANGED <<queueVars, agentVars, running, repoVars, execs, controlVars>>

\* The deferred function: it deletes the entry of its task id, whosever it is.
Exit(x) ==
  /\ exec[x].pc = "exit"
  /\ exec' = [exec EXCEPT ![x].pc = "done"]
  /\ running' = [running EXCEPT ![exec[x].task] = 0]
  /\ busy' = [busy EXCEPT ![exec[x].slot] = FALSE]
  /\ cancelled' = cancelled \cup {x}
  /\ UNCHANGED <<queueVars, agentVars, repoVars, execs, controlVars>>

Timeout(x) ==
  /\ Live(x) /\ x \notin cancelled
  /\ cancelled' = cancelled \cup {x}
  /\ UNCHANGED <<queueVars, agentVars, busy, running, repoVars, execVars, controlVars>>

-----------------------------------------------------------------------------
\* taskService over the same repository stores a record of its own.
Store(t, new) ==
  /\ stored' = [stored EXCEPT ![t] = 0]
  /\ rec' = [rec EXCEPT ![t] = new]
  /\ UNCHANGED <<queueVars, agentVars, busy, running, execVars, cancelled, controlVars>>

ServiceCancel(t) ==
  /\ "cancel" \in ServiceOps
  /\ Stored(t).state \notin {"completed", "cancelled"}
  /\ Store(t, [Stored(t) EXCEPT !.state = "cancelled"])

ServiceFail(t) ==
  /\ "fail" \in ServiceOps
  /\ Stored(t).state = "in_progress"
  /\ Store(t, [Stored(t) EXCEPT !.state = "failed"])

ServiceRetry(t) ==
  /\ "retry" \in ServiceOps
  /\ Stored(t).state = "failed"
  /\ Store(t, [state |-> "pending", subs |-> AllPending(Plan[t])])

ExecStep(x) ==
  Aborted(x) \/ SkipSubtask(x) \/ BeginSubtask(x) \/ EndSubtask(x) \/ Finish(x) \/ Exit(x)

Dispatch == DispatchSkip \/ DispatchRun

Next ==
  \/ \E t \in Task, p \in Priority : Submit(t, p)
  \/ \E a \in Agent : RegisterAgent(a) \/ UnregisterAgent(a)
  \/ Stop \/ CancelContext \/ LeaveLoop \/ Dispatch
  \/ \E x \in Exec : ExecStep(x) \/ Timeout(x)
  \/ \E t \in Task : ServiceCancel(t) \/ ServiceFail(t) \/ ServiceRetry(t)

\* The ticker keeps the loop going and goroutines keep running.  An agent that
\* comes and goes may be missing at every tick: nothing is promised then.
Fairness ==
  /\ WF_vars(Dispatch) /\ WF_vars(LeaveLoop)
  /\ \A x \in Exec : WF_vars(ExecStep(x))

Spec == Init /\ [][Next]_vars /\ Fairness

-----------------------------------------------------------------------------
TypeOK ==
  /\ queue \subseteq [no : 1..MaxSubmits, task : Task, priority : Priority, at : 0..MaxSubmits]
  /\ submits \in 0..MaxSubmits /\ clock \in 0..MaxSubmits
  /\ agents \in [Agent -> 0..MaxSlots] /\ slots \in 0..MaxSlots /\ busy \in [Slot -> BOOLEAN]
  /\ running \in [Task -> 0..MaxExecs] /\ stored \in [Task -> 0..MaxExecs]
  /\ execs \in 0..MaxExecs /\ cancelled \subseteq 1..execs
  /\ \A x \in Exec : exec[x].pc \in {"none", "loop", "subtask", "exit", "done"}
  /\ stopped \in BOOLEAN /\ ctxDone \in BOOLEAN /\ loop \in {"on", "off"}

\* A slot is busy exactly while one execution holds it, however agents are
\* removed and registered again meanwhile: slots are neither shared nor leaked.
SlotsExclusive ==
  \A s \in Slot : LET holders == {x \in Exec : Live(x) /\ exec[x].slot = s} IN
    /\ Cardinality(holders) <= 1
    /\ busy[s] <=> holders # {}

\* The map of cancel functions never names an execution that is over, nor one
\* of another task; and the only executions it misses, which neither Stop nor
\* the limit on executions sees, are those of a task that was dispatched twice.
RunningMapExact ==
  /\ \A t \in Task : running[t] # 0 => Live(running[t]) /\ exec[running[t]].task = t
  /\ \A x \in Exec : Live(x) =>
       \/ running[exec[x].task] = x
       \/ \E y \in 1..execs \ {x} : exec[y].task = exec[x].task

\* A task that executeTask has stored as completed has had all its subtasks
\* executed if its plan only refers backwards (as the decomposer's plans do);
\* in general, those whose dependencies come earlier and were executed.
FinishedExact ==
  \A x \in Exec : exec[x].pc \in {"exit", "done"} /\ exec[x].obj.state = "completed" =>
    LET t == exec[x].task
        done == Completed(exec[x].obj.subs)
    IN \A k \in Subtask(t) :
         k \in done <=> \A d \in Plan[t][k] \cap Subtask(t) : d < k /\ d \in done

\* As long as some agent is registered and the engine runs, every submitted
\* item is dispatched or dropped, whatever its priority.
QueueDrains == \A n \in 1..MaxSubmits :
  (\E p \in queue : p.no = n) ~>
    \/ ~ \E p \in queue : p.no = n
    \/ stopped \/ ctxDone \/ execs = MaxExecs
    \/ \A a \in Agent : agents[a] = 0

\* Every dispatched execution ends and gives its slot back.
ExecutionsEnd == \A x \in Exec : Live(x) ~> ~Live(x)
-----------------------------------------------------------------------------
\* The plans TLC gives the tasks: a forward, a backward and a dangling
\* dependency between them, or one subtask alone.
MixedPlans == LET first == CHOOSE t \in Task : TRUE IN
  [t \in Task |-> IF t = first THEN <<{2}, {4}>> ELSE <<{}, {1}>>]
OnePlan == [t \in Task |-> <<{}>>]
=============================================================================
