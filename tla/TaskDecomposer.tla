--------------------------- MODULE TaskDecomposer ---------------------------
(***************************************************************************)
(* internal/task: what RuleBasedDecomposer makes of a goal, and what the   *)
(* executors of the registry make of that when the task runs, is retried   *)
(* and runs again.  A goal is the set of the keywords it contains.         *)
(***************************************************************************)
EXTENDS Naturals, SequencesExt

CONSTANTS
  Goal,      \* subsets of the keywords
  MaxTasks   \* bound of the tasks that are stored

VARIABLES
  tasks      \* in the repository: [agent, goal, state, subtasks, retries]

MaxRetries == 3

-----------------------------------------------------------------------------
\* The kinds of goals, in the order in which they are tried.
initRules ==
  <<[kind |-> "deploy", keywords |-> {"deploy", "release"}],
    [kind |-> "test", keywords |-> {"test", "verify"}],
    [kind |-> "file", keywords |-> {"file", "download", "upload", "copy"}],
    [kind |-> "browser", keywords |-> {"browser", "web", "crawl", "scrape"}],
    [kind |-> "api", keywords |-> {"api", "request", "call"}],
    [kind |-> "database", keywords |-> {"database", "db", "sql", "query"}]>>

\* Each action is a subtask of its own, which waits for the one before.
Act(type, param, value) == [type |-> type, params |-> {<<param, value>>}]
Chain(actions) ==
  [i \in DOMAIN actions |-> [action |-> actions[i], state |-> "pending", dependsOn |-> {i - 1} \ {0}]]
Echoes(n) == Chain([i \in 1..n |-> Act("terminal", "command", "echo")])

decomposeDeploy == Echoes(4)
decomposeTest == Echoes(3)
decomposeFileOp == Chain(<<[type |-> "file", params |-> {<<"operation", "list">>, <<"path", ".">>}],
                           Act("file", "operation", "process")>>)
decomposeBrowser == Chain(<<Act("browser", "action", "launch"), Act("browser", "action", "navigate"),
                            Act("browser", "action", "extract")>>)
decomposeAPI == Chain(<<Act("api", "action", "prepare"), Act("api", "action", "execute")>>)
decomposeDatabase == Echoes(3)
decomposeDefault == Echoes(3)

Handler(kind) ==
  CASE kind = "deploy" -> decomposeDeploy [] kind = "test" -> decomposeTest
    [] kind = "file" -> decomposeFileOp [] kind = "browser" -> decomposeBrowser
    [] kind = "api" -> decomposeAPI [] kind = "database" -> decomposeDatabase

\* Mutant of Decompose: the last kind that fits.
DecomposeLast(goal) ==
  LET last == SelectLastInSeq(initRules, LAMBDA rule : rule.keywords \cap goal # {})
  IN IF last = 0 THEN decomposeDefault ELSE Handler(initRules[last].kind)

\* The first kind with a keyword in the goal decides.
Decompose(goal) ==
  LET first == SelectInSeq(initRules, LAMBDA rule : rule.keywords \cap goal # {})
  IN IF first = 0 THEN decomposeDefault ELSE Handler(initRules[first].kind)

\* What the executors can do: the parameter they need, and its values.
Param(action, name) == {p[2] : p \in {q \in action.params : q[1] = name}}
TerminalActionExecutor(action) == Param(action, "command") # {}
FileActionExecutor(action) ==
  Param(action, "operation") \cap {"read", "write", "list", "upload", "download"} # {}
BrowserActionExecutor(action) ==
  Param(action, "action") \cap {"launch", "navigate", "click", "type", "extract", "screenshot"} # {}
APIActionExecutor(action) == Param(action, "action") \cap {"prepare", "execute"} # {}
Execute(action) ==
  CASE action.type = "terminal" -> TerminalActionExecutor(action)
    [] action.type = "file" -> FileActionExecutor(action)
    [] action.type = "browser" -> BrowserActionExecutor(action)
    [] action.type = "api" -> APIActionExecutor(action)

-----------------------------------------------------------------------------
Init == tasks = <<>>

\* taskService.Create; handleDecompose shows a goal by creating a task for it.
Create(agent, goal) ==
  /\ Len(tasks) < MaxTasks
  /\ tasks' = Append(tasks, [agent |-> agent, goal |-> goal, state |-> "pending",
                             subtasks |-> Decompose(goal), retries |-> 0])

handleDecompose(goal) == Create("decompose-preview", goal)

Start(t) ==
  /\ tasks[t].state = "pending"
  /\ tasks' = [tasks EXCEPT ![t].state = "in_progress"]

\* RunTask meets a subtask whose dependencies are completed.
Ready(task) ==
  {i \in DOMAIN task.subtasks :
     /\ task.subtasks[i].state = "pending"
     /\ \A d \in task.subtasks[i].dependsOn : task.subtasks[d].state = "completed"}

RunSubtask(t) ==
  /\ tasks[t].state = "in_progress"
  /\ \E i \in Ready(tasks[t]) :
       tasks' = [tasks EXCEPT ![t].subtasks[i].state =
                   IF Execute(tasks[t].subtasks[i].action) THEN "completed" ELSE "failed"]

\* Nothing is ready any more: all subtasks have ended, or some wait for ever.
Finalize(t) ==
  /\ tasks[t].state = "in_progress" /\ Ready(tasks[t]) = {}
  /\ tasks' = [tasks EXCEPT ![t].state =
                 IF \A i \in DOMAIN tasks[t].subtasks : tasks[t].subtasks[i].state = "completed" THEN "completed" ELSE "failed"]

Retry(t) ==
  /\ tasks[t].state = "failed" /\ tasks[t].retries < MaxRetries
  /\ tasks' = [tasks EXCEPT ![t].state = "pending", ![t].retries = @ + 1,
                            ![t].subtasks = [i \in DOMAIN @ |-> [@[i] EXCEPT !.state = "pending"]]]

Next ==
  \/ \E goal \in Goal : Create("agent", goal) \/ handleDecompose(goal)
  \/ \E t \in DOMAIN tasks : Start(t) \/ RunSubtask(t) \/ Finalize(t) \/ Retry(t)

Spec == Init /\ [][Next]_tasks

-----------------------------------------------------------------------------
TypeOK ==
  /\ Len(tasks) <= MaxTasks
  /\ \A t \in DOMAIN tasks :
       /\ tasks[t].goal \in Goal /\ tasks[t].retries \in 0..MaxRetries
       /\ tasks[t].state \in {"pending", "in_progress", "completed", "failed"}

\* Every goal is made into subtasks that can all be run, in their order, and
\* the task completes; except the goals about files that are not about a
\* deployment or a test: their second action is none the executor knows, and
\* no retry helps.  A subtask that was never reached is not lost in between.
About(goal, kind) == \E rule \in ToSet(initRules) : rule.kind = kind /\ rule.keywords \cap goal # {}
RunsOfGoals ==
  \A t \in DOMAIN tasks :
    LET task == tasks[t]
        stuck == About(task.goal, "file") /\ ~About(task.goal, "deploy") /\ ~About(task.goal, "test")
        states == [i \in DOMAIN task.subtasks |-> task.subtasks[i].state]
    IN /\ task.state = "completed" => ~stuck /\ ToSet(states) = {"completed"}
       /\ task.state = "failed" => stuck /\ states = <<"completed", "failed">>
       /\ \A i \in DOMAIN states : states[i] # "pending" => \A k \in 1..(i - 1) : states[k] = "completed"
=============================================================================
