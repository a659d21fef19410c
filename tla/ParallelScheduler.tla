------------------------- MODULE ParallelScheduler -------------------------
(***************************************************************************)
(* task.DependencyGraph and task.ParallelScheduler                         *)
(* (internal/task/scheduler.go): Kahn's algorithm looks for cycles and     *)
(* sorts the subtasks into levels; Schedule goes through the levels, one   *)
(* goroutine per subtask, a semaphore bounding how many run at a time.     *)
(*                                                                         *)
(* RunSubtask is one step here: TaskRunner has its details, and with       *)
(* context.Background() it ends as completed or failed.  The subtasks of a *)
(* level are launched, and the queue of DetectCycles is emptied, in any    *)
(* order, which the code fixes to theirs.                                  *)
(***************************************************************************)
EXTENDS Naturals, FiniteSets, Sequences, TaskGraph

CONSTANTS
  Node,            \* the subtasks, numbers
  Plans,           \* the plans a decomposer may produce
  MaxConcurrency   \* ParallelScheduler.maxConcurrency; 0: no limit

ScheduleAssumption ==
  /\ IsFiniteSet(Node)
  /\ \A plan \in Plans :
       /\ plan \in [Node -> SUBSET Nat]
       /\ \A n \in Node : IsFiniteSet(plan[n])
  /\ MaxConcurrency \in Nat

VARIABLES
  deps,      \* Subtasks[i].DependsOn
  st,        \* Subtasks[i].State
  phase,     \* Schedule is in DetectCycles ("detect"), sorts ("sort") or runs ("run")
  inDeg,     \* the copy of inDegree the loop of that phase works on
  queue,     \* the queue of DetectCycles, the currentLevel of TopologicalSort
  visited,   \* how many nodes DetectCycles has taken off the queue
  levels,    \* the levels sorted, or still to be executed, the present one first
  launched,  \* the nodes of the present level the loop has passed
  waiting,   \* goroutines that wait for the semaphore
  errors,    \* the keys of result.Errors
  counts,    \* result.CompletedCount and result.FailedCount
  verdict    \* what Schedule returned: "none" yet, "cycle" or "done"; or "fatal"

sorting == <<phase, inDeg, queue, visited>>
vars == <<deps, st, sorting, levels, launched, waiting, errors, counts, verdict>>

-----------------------------------------------------------------------------
\* NewDependencyGraph; an id that names no subtask counts in inDegree too.
Adj(plan, n) == {m \in DOMAIN plan : n \in plan[m]}
InDegree(plan) == [n \in DOMAIN plan |-> Cardinality(plan[n])]

Roots(plan) == {n \in DOMAIN plan : InDegree(plan)[n] = 0}

\* What is left of the degrees when the nodes of `batch` come off, and the nodes
\* whose degree that makes zero.
Decrement(batch) ==
  [n \in DOMAIN deps |-> inDeg[n] - Cardinality(deps[n] \cap batch)]
Freed(batch) == {m \in UNION {Adj(deps, n) : n \in batch} : Decrement(batch)[m] = 0}

-----------------------------------------------------------------------------
Init ==
  /\ deps \in Plans
  /\ st = AllPending(deps)
  /\ phase = "detect" /\ inDeg = InDegree(deps) /\ queue = Roots(deps) /\ visited = 0
  /\ levels = << >> /\ launched = {} /\ waiting = {} /\ errors = {}
  /\ counts = [completed |-> 0, failed |-> 0]
  /\ verdict = "none"

\* The loop of DetectCycles, before any subtask is touched.
Visit(n) ==
  /\ phase = "detect" /\ n \in queue
  /\ inDeg' = Decrement({n})
  /\ queue' = (queue \ {n}) \cup Freed({n})
  /\ visited' = visited + 1
  /\ UNCHANGED <<deps, st, phase, levels, launched, waiting, errors, counts, verdict>>

\* There is a cycle unless every node was visited; the sort begins anew.
Detected ==
  /\ phase = "detect" /\ queue = {} /\ verdict = "none"
  /\ IF visited # Cardinality(DOMAIN deps)
     THEN verdict' = "cycle" /\ UNCHANGED <<phase, inDeg, queue>>
     ELSE /\ phase' = "sort" /\ inDeg' = InDegree(deps) /\ queue' = Roots(deps)
          /\ UNCHANGED verdict
  /\ UNCHANGED <<deps, st, visited, levels, launched, waiting, errors, counts>>

\* The loop of TopologicalSort takes off a level at a time.
NextLevel ==
  /\ phase = "sort" /\ queue # {}
  /\ levels' = Append(levels, queue)
  /\ inDeg' = Decrement(queue)
  /\ queue' = Freed(queue)
  /\ UNCHANGED <<deps, st, phase, visited, launched, waiting, errors, counts, verdict>>

Sorted ==
  /\ phase = "sort" /\ queue = {}
  /\ phase' = "run"
  /\ verdict' = IF levels = << >> THEN "done" ELSE "none"
  /\ UNCHANGED <<deps, st, inDeg, queue, visited, levels, launched, waiting, errors, counts>>

Running == {n \in DOMAIN deps : st[n] = "in_progress"}

\* Mutant of Workers: off by one.
WorkersBelowLimit ==
  LET size == Cardinality(Head(levels))
  IN IF MaxConcurrency > 0 /\ size > MaxConcurrency THEN MaxConcurrency - 1 ELSE size

Workers ==
  LET size == Cardinality(Head(levels))
  IN IF MaxConcurrency > 0 /\ size > MaxConcurrency THEN MaxConcurrency ELSE size

InLevel == phase = "run" /\ verdict = "none" /\ levels # << >>

Fails(n) ==
  /\ st' = [st EXCEPT ![n] = "failed"]
  /\ errors' = errors \cup {n}
  /\ counts' = [counts EXCEPT !.failed = @ + 1]

\* Mutant of SkipNode: a skipped subtask is not entered in Errors.
SkipNodeQuietly(n) ==
  /\ InLevel /\ n \in Head(levels) \ launched
  /\ deps[n] \cap errors # {}
  /\ launched' = launched \cup {n}
  /\ st' = [st EXCEPT ![n] = "failed"]
  /\ counts' = [counts EXCEPT !.failed = @ + 1]
  /\ UNCHANGED <<deps, sorting, levels, waiting, errors, verdict>>

SkipNode(n) ==
  /\ InLevel /\ n \in Head(levels) \ launched
  /\ deps[n] \cap errors # {}
  /\ launched' = launched \cup {n}
  /\ Fails(n)
  /\ UNCHANGED <<deps, sorting, levels, waiting, verdict>>

Launch(n) ==
  /\ InLevel /\ n \in Head(levels) \ launched
  /\ deps[n] \cap errors = {}
  /\ launched' = launched \cup {n}
  /\ waiting' = waiting \cup {n}
  /\ UNCHANGED <<deps, st, sorting, levels, errors, counts, verdict>>

\* Mutant of Acquire: a state Subtask does not know.
AcquireAsRunning(n) ==
  /\ verdict = "none" /\ n \in waiting
  /\ Cardinality(Running) < Workers
  /\ waiting' = waiting \ {n}
  /\ st' = [st EXCEPT ![n] = "running"]
  /\ UNCHANGED <<deps, sorting, levels, launched, errors, counts, verdict>>

Acquire(n) ==
  /\ verdict = "none" /\ n \in waiting
  /\ Cardinality(Running) < Workers
  /\ waiting' = waiting \ {n}
  /\ st' = [st EXCEPT ![n] = "in_progress"]
  /\ UNCHANGED <<deps, sorting, levels, launched, errors, counts, verdict>>

Succeed(n) ==
  /\ verdict = "none" /\ n \in Running
  /\ st' = [st EXCEPT ![n] = "completed"]
  /\ counts' = [counts EXCEPT !.completed = @ + 1]
  /\ UNCHANGED <<deps, sorting, levels, launched, waiting, errors, verdict>>

Fail(n) ==
  /\ verdict = "none" /\ n \in Running
  /\ Fails(n)
  /\ UNCHANGED <<deps, sorting, levels, launched, waiting, verdict>>

\* The loop looks up the dependencies of n in the map result.Errors without the
\* lock under which the goroutine of m enters its error: when the two meet, the
\* runtime may end the process ("concurrent map read and map write").
RaceOnErrors(n, m) ==
  /\ InLevel /\ n \in Head(levels) \ launched /\ deps[n] # {}
  /\ m \in Running
  /\ verdict' = "fatal"
  /\ UNCHANGED <<deps, st, sorting, levels, launched, waiting, errors, counts>>

\* Mutant of EndLevel: the wait for the goroutines of the level is missing.
EndLevelAtOnce ==
  /\ InLevel /\ launched = Head(levels)
  /\ levels' = Tail(levels) /\ launched' = {}
  /\ verdict' = IF Tail(levels) = << >> THEN "done" ELSE "none"
  /\ UNCHANGED <<deps, st, sorting, waiting, errors, counts>>

\* wg.Wait, and the next level.
EndLevel ==
  /\ InLevel /\ launched = Head(levels) /\ waiting = {} /\ Running = {}
  /\ levels' = Tail(levels) /\ launched' = {}
  /\ verdict' = IF Tail(levels) = << >> THEN "done" ELSE "none"
  /\ UNCHANGED <<deps, st, sorting, waiting, errors, counts>>

Next ==
  \/ Detected \/ NextLevel \/ Sorted \/ EndLevel
  \/ \E n \in Node : Visit(n) \/ SkipNode(n) \/ Launch(n) \/ Acquire(n) \/ Succeed(n) \/ Fail(n)
  \/ \E n, m \in Node : RaceOnErrors(n, m)

Spec == Init /\ [][Next]_vars /\ WF_vars(Next)

-----------------------------------------------------------------------------
TypeOK ==
  /\ st \in [DOMAIN deps -> SubtaskState]
  /\ phase \in {"detect", "sort", "run"} /\ queue \subseteq DOMAIN deps
  /\ inDeg \in [DOMAIN deps -> Nat] /\ visited \in 0..Cardinality(DOMAIN deps)
  /\ launched \subseteq DOMAIN deps /\ waiting \subseteq launched
  /\ errors \subseteq DOMAIN deps
  /\ counts \in [completed : 0..Cardinality(Node), failed : 0..Cardinality(Node)]
  /\ verdict \in {"none", "cycle", "done", "fatal"}

\* A subtask is run only when all it depends on has completed, and never more
\* of them than the limit at a time.
LevelsInOrder ==
  /\ \A n \in Running : deps[n] \subseteq Completed(st)
  /\ MaxConcurrency > 0 => Cardinality(Running) <= MaxConcurrency

\* Schedule and RunTask agree: a schedule that is done has completed exactly
\* the subtasks that can be reached around those that failed when run; the
\* others are failed too, and result says which and how many.
ScheduleExact ==
  verdict = "done" =>
    LET ranAndFailed == {n \in Failed(st) : deps[n] \subseteq Completed(st)} IN
    /\ Terminal(st) = DOMAIN deps
    /\ Completed(st) = Reachable(deps, ranAndFailed)
    /\ errors = Failed(st)
    /\ counts = [completed |-> Cardinality(Completed(st)), failed |-> Cardinality(Failed(st))]

\* Kahn's algorithm rejects exactly the plans of which some subtask could never
\* be run, those with a dangling dependency included, before any is touched.
CycleVerdictExact ==
  /\ verdict = "cycle" => st = AllPending(deps)
  /\ verdict = "cycle" => Reachable(deps, {}) # DOMAIN deps
  /\ verdict # "cycle" /\ levels # << >> => Reachable(deps, {}) = DOMAIN deps

\* Schedule returns.
ScheduleEnds == verdict = "none" ~> verdict # "none"
=============================================================================
