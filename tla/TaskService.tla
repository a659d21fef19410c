---------------------------- MODULE TaskService ----------------------------
(***************************************************************************)
(* executor.taskService over executor.memoryRepository                     *)
(* (internal/executor/service.go, repository.go).                          *)
(*                                                                         *)
(* Every operation is a call of an HTTP handler goroutine (a client) that  *)
(* reads a deep copy of the task, decides, and stores a whole new record   *)
(* with Update; the repository's lock covers each access but not the pair. *)
(* Start also spawns a goroutine (a run) that loads its own copy, runs the *)
(* subtasks on it, re-reads the state and stores its copy.  The run of the *)
(* subtasks touches nothing that anybody else sees, so it is one step,     *)
(* whose possible results are those TaskRunner is shown to have.           *)
(***************************************************************************)
EXTENDS Naturals, TaskGraph

CONSTANTS
  Task,        \* task ids
  Plan,        \* the plan each task is given by Create; may be empty
  Client,      \* concurrent callers
  MaxRetries,  \* Task.MaxRetries
  MaxStarts    \* bound: how many Starts are admitted in a behaviour

ASSUME PlanAssumption ==
  /\ DOMAIN Plan = Task
  /\ \A t \in Task : Plan[t] \in [DOMAIN Plan[t] -> SUBSET Nat]
ASSUME BoundsAssumption == MaxRetries \in Nat /\ MaxStarts \in Nat

VARIABLES
  repo,    \* memoryRepository.tasks
  op,      \* the call each client is in
  run,     \* the goroutine of each admitted Start, by number
  starts,  \* how many Starts have been admitted; also the clock of StartedAt
  lost     \* history: tasks overwritten by a writer that had not read the record

vars == <<repo, op, run, starts, lost>>

StartNo == 1..MaxStarts

\* The fields of task.Task that the code decides on or that a result depends on.
Record(t) ==
  [state : TaskState \cup {"absent"}, subs : [DOMAIN Plan[t] -> SubtaskState],
   retry : Nat, result : {"", "all subtasks completed", "given"}, startedAt : Nat]

NoTask(t) == [state |-> "absent", subs |-> AllPending(Plan[t]), retry |-> 0,
              result |-> "", startedAt |-> 0]

Idle == [pc |-> "idle"]
NoRun == [pc |-> "none"]

Init ==
  /\ repo = [t \in Task |-> NoTask(t)]
  /\ op = [c \in Client |-> Idle]
  /\ run = [n \in StartNo |-> NoRun]
  /\ starts = 0
  /\ lost = {}

-----------------------------------------------------------------------------
\* memoryRepository.Update by a caller whose copy was made from `read`.
Update(t, read, new) ==
  /\ repo' = [repo EXCEPT ![t] = new]
  /\ lost' = IF repo[t] = read THEN lost ELSE lost \cup {t}

Create(t) ==
  /\ repo[t].state = "absent"
  /\ repo' = [repo EXCEPT ![t] = [NoTask(t) EXCEPT !.state = "pending"]]
  /\ UNCHANGED <<op, run, starts, lost>>

\* GetByID, the checks, and the changes to the copy: all local to the caller.
\* A rejected call changes nothing.
Read(c, t, kind, from, new) ==
  /\ repo[t].state \in from
  /\ op' = [op EXCEPT ![c] =
       [pc |-> "write", kind |-> kind, task |-> t, read |-> repo[t], new |-> new]]

StartRead(c, t) ==
  /\ op[c].pc = "idle" /\ starts < MaxStarts
  /\ starts' = starts + 1
  /\ Read(c, t, "start", {"pending", "failed"},
          [repo[t] EXCEPT !.state = "in_progress", !.startedAt = starts'])
  /\ UNCHANGED <<repo, run, lost>>

\* Mutant of CancelRead: the other spelling of the state.
CancelReadMisspelt(c, t) ==
  /\ op[c].pc = "idle"
  /\ Read(c, t, "cancel", {"pending", "in_progress", "failed"},
          [repo[t] EXCEPT !.state = "canceled"])
  /\ UNCHANGED <<repo, run, starts, lost>>

\* Mutant of CancelRead: a completed task may be cancelled.
CancelReadCompleted(c, t) ==
  /\ op[c].pc = "idle"
  /\ Read(c, t, "cancel", {"pending", "in_progress", "failed", "completed"},
          [repo[t] EXCEPT !.state = "cancelled"])
  /\ UNCHANGED <<repo, run, starts, lost>>

CancelRead(c, t) ==
  /\ op[c].pc = "idle"
  /\ Read(c, t, "cancel", {"pending", "in_progress", "failed"},
          [repo[t] EXCEPT !.state = "cancelled"])
  /\ UNCHANGED <<repo, run, starts, lost>>

\* Mutant of RetryRead: only the failed subtasks are reset.
RetryReadKeepsDone(c, t) ==
  /\ op[c].pc = "idle"
  /\ repo[t].retry < MaxRetries
  /\ Read(c, t, "retry", {"failed"},
          [repo[t] EXCEPT !.state = "pending", !.retry = @ + 1,
             !.subs = [s \in DOMAIN @ |-> IF @[s] = "failed" THEN "pending" ELSE @[s]]])
  /\ UNCHANGED <<repo, run, starts, lost>>

RetryRead(c, t) ==
  /\ op[c].pc = "idle"
  /\ repo[t].retry < MaxRetries
  /\ Read(c, t, "retry", {"failed"},
          [repo[t] EXCEPT !.state = "pending", !.retry = @ + 1,
                          !.subs = AllPending(Plan[t])])
  /\ UNCHANGED <<repo, run, starts, lost>>

\* finalizeAs reads twice: the first read only serves to reject early.
FinalizeAsCheck(c, t, kind) ==
  /\ op[c].pc = "idle"
  /\ repo[t].state = "in_progress"
  /\ op' = [op EXCEPT ![c] = [pc |-> "reread", kind |-> kind, task |-> t]]
  /\ UNCHANGED <<repo, run, starts, lost>>

FinalizeAsRead(c) ==
  /\ op[c].pc = "reread"
  /\ LET t == op[c].task IN
     \/ op[c].kind = "complete"
        /\ Read(c, t, "complete", {"in_progress"},
                [repo[t] EXCEPT !.state = "completed", !.result = "given"])
     \/ op[c].kind = "fail"
        /\ Read(c, t, "fail", {"in_progress"}, [repo[t] EXCEPT !.state = "failed"])
     \/ /\ repo[t].state # "in_progress"
        /\ op' = [op EXCEPT ![c] = Idle]
  /\ UNCHANGED <<repo, run, starts, lost>>

\* The Update that ends every operation; Start then spawns its run, unless
\* the task has no subtask.
Write(c) ==
  /\ op[c].pc = "write"
  /\ LET o == op[c]
         n == o.new.startedAt
     IN /\ Update(o.task, o.read, o.new)
        /\ run' = IF o.kind = "start" /\ DOMAIN Plan[o.task] # {}
                  THEN [run EXCEPT ![n] = [pc |-> "spawned", task |-> o.task]]
                  ELSE run
  /\ op' = [op EXCEPT ![c] = Idle]
  /\ UNCHANGED starts

-----------------------------------------------------------------------------
\* Mutant of Outcomes: RunTask returning nil is taken for success, although
\* subtasks may have failed.
OutcomesNilIsSuccess(t, rec) ==
  {[rec EXCEPT !.subs = after,
      !.state = IF Terminal(after) = DOMAIN Plan[t] THEN "completed" ELSE "failed",
      !.result = IF Terminal(after) = DOMAIN Plan[t] THEN "all subtasks completed" ELSE @]
     : after \in {s \in [DOMAIN Plan[t] -> SubtaskState] : IsRunOutcome(Plan[t], rec.subs, s)}}

\* RunTask on a copy of the record, whatever its state has become, and the
\* verdict of the goroutine on what RunTask left.
Outcomes(t, rec) ==
  {[rec EXCEPT !.subs = after,
      !.state = IF Completed(after) = DOMAIN Plan[t] THEN "completed" ELSE "failed",
      !.result = IF Completed(after) = DOMAIN Plan[t] THEN "all subtasks completed" ELSE @]
     : after \in {s \in [DOMAIN Plan[t] -> SubtaskState] : IsRunOutcome(Plan[t], rec.subs, s)}}

\* Mutant of RunLoad: a run that finds nothing to do returns at once.
RunLoadGivesUp(n) ==
  /\ run[n].pc = "spawned"
  /\ LET t == run[n].task IN
     \/ /\ Quiescent(Plan[t], repo[t].subs)
        /\ run' = [run EXCEPT ![n] = NoRun]
     \/ /\ ~Quiescent(Plan[t], repo[t].subs)
        /\ \E local \in Outcomes(t, repo[t]) :
             run' = [run EXCEPT ![n] = [pc |-> "finalize", task |-> t, read |-> repo[t], new |-> local]]
  /\ UNCHANGED <<repo, op, starts, lost>>

RunLoad(n) ==
  /\ run[n].pc = "spawned"
  /\ LET t == run[n].task IN
     \E local \in Outcomes(t, repo[t]) :
       run' = [run EXCEPT ![n] = [pc |-> "finalize", task |-> t, read |-> repo[t], new |-> local]]
  /\ UNCHANGED <<repo, op, starts, lost>>

\* finalize: the result is dropped unless the task is in progress ...
FinalizeRead(n) ==
  /\ run[n].pc = "finalize"
  /\ \/ /\ repo[run[n].task].state = "in_progress"
        /\ run' = [run EXCEPT ![n].pc = "write"]
     \/ /\ repo[run[n].task].state # "in_progress"
        /\ run' = [run EXCEPT ![n] = NoRun]
  /\ UNCHANGED <<repo, op, starts, lost>>

\* ... and stored whole otherwise.
FinalizeWrite(n) ==
  /\ run[n].pc = "write"
  /\ Update(run[n].task, run[n].read, run[n].new)
  /\ run' = [run EXCEPT ![n] = NoRun]
  /\ UNCHANGED <<op, starts>>

-----------------------------------------------------------------------------
Begin(c) == \E t \in Task :
  \/ StartRead(c, t) \/ CancelRead(c, t) \/ RetryRead(c, t)
  \/ FinalizeAsCheck(c, t, "complete") \/ FinalizeAsCheck(c, t, "fail")

ClientStep(c) == FinalizeAsRead(c) \/ Write(c)
RunStep(n) == RunLoad(n) \/ FinalizeRead(n) \/ FinalizeWrite(n)

Next ==
  \/ \E t \in Task : Create(t)
  \/ \E c \in Client : Begin(c) \/ ClientStep(c)
  \/ \E n \in StartNo : RunStep(n)

\* Nobody has to call an operation, but a call that has begun and a goroutine
\* that was spawned go on: they block on nothing but the repository's lock.
Fairness ==
  /\ \A c \in Client : WF_vars(ClientStep(c))
  /\ \A n \in StartNo : WF_vars(RunStep(n))

Spec == Init /\ [][Next]_vars /\ Fairness

-----------------------------------------------------------------------------
Kind == {"start", "cancel", "retry", "complete", "fail"}

CallOK(o) ==
  \/ o = Idle
  \/ o \in [pc : {"reread"}, kind : {"complete", "fail"}, task : Task]
  \/ \E t \in Task :
       o \in [pc : {"write"}, kind : Kind, task : {t}, read : Record(t), new : Record(t)]

GoroutineOK(r) ==
  \/ r = NoRun
  \/ r \in [pc : {"spawned"}, task : Task]
  \/ \E t \in Task :
       r \in [pc : {"finalize", "write"}, task : {t}, read : Record(t), new : Record(t)]

TypeOK ==
  /\ DOMAIN repo = Task /\ \A t \in Task : repo[t] \in Record(t)
  /\ DOMAIN op = Client /\ \A c \in Client : CallOK(op[c])
  /\ DOMAIN run = StartNo /\ \A n \in StartNo : GoroutineOK(run[n])
  /\ starts \in 0..MaxStarts /\ lost \subseteq Task

\* The records in the repository and those about to be stored in it.
Stored == {<<t, repo[t]>> : t \in Task}
  \cup {<<op[c].task, op[c].new>> : c \in {x \in Client : op[x].pc = "write"}}
  \cup {<<run[n].task, run[n].new>> : n \in {x \in StartNo : run[x].pc \in {"finalize", "write"}}}

\* However reads and writes interleave, and even where an update is lost, the
\* result of a run is only ever stored with subtasks that have all completed,
\* a pending task has untouched subtasks, and the retry count stays within its
\* limit.  A task that has suffered no lost update has a result only when it is
\* completed (one that has may fail with the result of an earlier Complete).
RecordOK(rec) ==
  /\ rec.result = "all subtasks completed" =>
       rec.state = "completed" /\ Completed(rec.subs) = DOMAIN rec.subs
  /\ rec.state \in {"absent", "pending"} => rec.subs = AllPending(rec.subs)
  /\ rec.retry <= MaxRetries

RecordsConsistent ==
  /\ \A p \in Stored : RecordOK(p[2])
  /\ \A t \in Task \ lost : repo[t].result # "" => repo[t].state = "completed"

\* A run starts from untouched subtasks or from ones of which none can be run,
\* the only inputs for which RunTask's own map of completed subtasks is
\* enough: with others it would report a deadlock that is not there.
NoFalseDeadlock ==
  \A p \in Stored : LET subs == p[2].subs IN
    /\ \A s \in DOMAIN subs : subs[s] # "in_progress"
    /\ subs = AllPending(subs) \/ Quiescent(Plan[p[1]], subs)

\* The life cycle of a task breaks only through lost updates: as long as every
\* writer of a task had read the record it replaces, the operations and the
\* asynchronous runs look like the indivisible steps of TaskLifecycle.
Lifecycle == INSTANCE TaskLifecycle WITH
  state <- [t \in Task |-> repo[t].state],
  retry <- [t \in Task |-> repo[t].retry]

ImplementsLifecycle == Lifecycle!Spec

\* A task with subtasks does not stay in progress: whoever put it there has a
\* run that ends it, unless somebody else does.
RunsEnd ==
  \A t \in Task : DOMAIN Plan[t] # {} =>
    (repo[t].state = "in_progress" ~> repo[t].state # "in_progress")

-----------------------------------------------------------------------------
\* What the comment in Start says: the run works on a copy of its own so as not
\* to compete with Retry and Cancel; so its result, stored into a task that is
\* in progress, does not take back a Retry.
RunNeverUndoesRetry ==
  [][\A n \in StartNo : FinalizeWrite(n) /\ repo[run[n].task].state = "in_progress" =>
       run[n].new.retry >= repo[run[n].task].retry]_vars
-----------------------------------------------------------------------------
\* The plan TLC gives every task: a chain of two subtasks.
ChainPlan == [t \in Task |-> <<{}, {1}>>]
=============================================================================
