------------------------- MODULE TaskServiceProofs -------------------------
(***************************************************************************)
(* Proofs about TaskService for every set of tasks, plans and callers and  *)
(* every bound: the records are well typed and consistent whatever updates *)
(* are lost, and the service implements TaskLifecycle.                     *)
(***************************************************************************)
EXTENDS TaskService, TLAPS

-----------------------------------------------------------------------------
(* What a run may make of a record.                                        *)

LEMMA OutcomeType ==
  ASSUME NEW t \in Task, NEW rec \in Record(t), NEW local \in Outcomes(t, rec)
  PROVE  local \in Record(t)
BY DEF Outcomes, Record, TaskState

LEMMA FreshRecord == \A t \in Task : NoTask(t) \in Record(t)
BY DEF NoTask, Record, AllPending, SubtaskState

-----------------------------------------------------------------------------
(* Types.                                                                  *)

RepoOK == DOMAIN repo = Task /\ \A t \in Task : repo[t] \in Record(t)
OpOK   == DOMAIN op = Client /\ \A c \in Client : CallOK(op[c])
RunOK  == DOMAIN run = StartNo /\ \A n \in StartNo : GoroutineOK(run[n])

\* A call about to write holds a task with a record read and one to store.
LEMMA WriteCall ==
  ASSUME OpOK, NEW c \in Client, op[c].pc = "write"
  PROVE  /\ op[c].task \in Task /\ op[c].kind \in Kind
         /\ op[c].read \in Record(op[c].task) /\ op[c].new \in Record(op[c].task)
<1>1. CallOK(op[c])
  BY DEF OpOK
<1>2. op[c] # Idle
  BY DEF Idle
<1> QED
  BY <1>1, <1>2 DEF CallOK

LEMMA LoadedRun ==
  ASSUME RunOK, NEW n \in StartNo, run[n].pc \in {"finalize", "write"}
  PROVE  /\ run[n].task \in Task
         /\ run[n].read \in Record(run[n].task) /\ run[n].new \in Record(run[n].task)
         /\ run[n] = [pc |-> run[n].pc, task |-> run[n].task, read |-> run[n].read,
                      new |-> run[n].new]
<1>1. GoroutineOK(run[n])
  BY DEF RunOK
<1>2. run[n] # NoRun
  BY DEF NoRun
<1> QED
  BY <1>1, <1>2 DEF GoroutineOK

LEMMA RepoStep == ASSUME TypeOK, [Next]_vars PROVE RepoOK'
<1> USE DEF RepoOK
<1>0. RepoOK /\ OpOK /\ RunOK
  BY DEF TypeOK, OpOK, RunOK
<1>1. ASSUME NEW t \in Task, Create(t) PROVE RepoOK'
  <2>1. [NoTask(t) EXCEPT !.state = "pending"] \in Record(t)
    BY FreshRecord DEF Record, TaskState
  <2> QED BY <1>0, <1>1, <2>1 DEF Create
<1>2. ASSUME NEW c \in Client, Write(c) PROVE RepoOK'
  BY <1>0, <1>2, WriteCall DEF Write, Update
<1>3. ASSUME NEW n \in StartNo, FinalizeWrite(n) PROVE RepoOK'
  BY <1>0, <1>3, LoadedRun DEF FinalizeWrite, Update
<1>4. CASE UNCHANGED repo
  BY <1>0, <1>4
<1> QED
  BY <1>1, <1>2, <1>3, <1>4 DEF Next, Begin, ClientStep, RunStep, vars, StartRead, CancelRead,
     RetryRead, FinalizeAsCheck, FinalizeAsRead, RunLoad, FinalizeRead

LEMMA OpStep == ASSUME TypeOK, [Next]_vars PROVE OpOK'
<1> USE DEF OpOK
<1>0. RepoOK /\ OpOK
  BY DEF TypeOK, RepoOK
<1>1. ASSUME NEW c \in Client, NEW t \in Task, NEW kind \in Kind, NEW from, NEW new \in Record(t),
             Read(c, t, kind, from, new)
      PROVE  OpOK'
  <2>1. CallOK([pc |-> "write", kind |-> kind, task |-> t, read |-> repo[t], new |-> new])
    BY <1>0 DEF CallOK, RepoOK
  <2> QED BY <1>0, <1>1, <2>1 DEF Read, CallOK
<1>2. ASSUME NEW c \in Client, NEW t \in Task, StartRead(c, t) PROVE OpOK'
  <2>1. [repo[t] EXCEPT !.state = "in_progress", !.startedAt = starts'] \in Record(t)
    <3>1. starts' \in Nat
      BY <1>2, BoundsAssumption DEF StartRead, TypeOK, BoundsAssumption
    <3> QED BY <1>0, <3>1 DEF RepoOK, Record, TaskState
  <2> QED BY <1>1, <1>2, <2>1 DEF StartRead, Kind
<1>3. ASSUME NEW c \in Client, NEW t \in Task, CancelRead(c, t) PROVE OpOK'
  <2>1. [repo[t] EXCEPT !.state = "cancelled"] \in Record(t)
    BY <1>0 DEF RepoOK, Record, TaskState
  <2> QED BY <1>1, <1>3, <2>1 DEF CancelRead, Kind
<1>4. ASSUME NEW c \in Client, NEW t \in Task, RetryRead(c, t) PROVE OpOK'
  <2>1. [repo[t] EXCEPT !.state = "pending", !.retry = @ + 1, !.subs = AllPending(Plan[t])]
          \in Record(t)
    <3>1. AllPending(Plan[t]) \in [DOMAIN Plan[t] -> SubtaskState]
      BY DEF AllPending, SubtaskState
    <3>2. repo[t] \in Record(t) /\ repo[t].retry \in Nat
      BY <1>0 DEF RepoOK, Record
    <3>3. \A q \in Nat, p \in [DOMAIN Plan[t] -> SubtaskState] :
            [repo[t] EXCEPT !.state = "pending", !.retry = q, !.subs = p] \in Record(t)
      BY <3>2 DEF Record, TaskState
    <3>4. repo[t].retry + 1 \in Nat
      BY <3>2
    <3> QED BY <3>1, <3>3, <3>4
  <2> QED BY <1>1, <1>4, <2>1 DEF RetryRead, Kind
<1>5. ASSUME NEW c \in Client, NEW t \in Task, NEW k \in {"complete", "fail"},
             FinalizeAsCheck(c, t, k)
      PROVE  OpOK'
  BY <1>0, <1>5 DEF FinalizeAsCheck, CallOK
<1>6. ASSUME NEW c \in Client, FinalizeAsRead(c) PROVE OpOK'
  <2> DEFINE t == op[c].task
  <2>1. t \in Task
    BY <1>0, <1>6 DEF FinalizeAsRead, CallOK, Idle
  <2>2. /\ [repo[t] EXCEPT !.state = "completed", !.result = "given"] \in Record(t)
        /\ [repo[t] EXCEPT !.state = "failed"] \in Record(t)
    <3>1. repo[t] \in Record(t)
      BY <1>0, <2>1 DEF RepoOK
    <3>2. [repo[t] EXCEPT !.state = "completed", !.result = "given"] \in Record(t)
      BY <3>1 DEF Record, TaskState
    <3>3. [repo[t] EXCEPT !.state = "failed"] \in Record(t)
      BY <3>1 DEF Record, TaskState
    <3> QED BY <3>2, <3>3
  <2>3. CASE op' = [op EXCEPT ![c] = Idle]
    BY <1>0, <2>3 DEF CallOK
  <2> QED BY <1>1, <1>6, <2>1, <2>2, <2>3 DEF FinalizeAsRead, Kind
<1>7. ASSUME NEW c \in Client, Write(c) PROVE OpOK'
  BY <1>0, <1>7 DEF Write, CallOK
<1>8. CASE UNCHANGED op
  BY <1>0, <1>8 DEF CallOK
<1> QED
  BY <1>2, <1>3, <1>4, <1>5, <1>6, <1>7, <1>8 DEF Next, Begin, ClientStep, RunStep, vars, Create,
     RunLoad, FinalizeRead, FinalizeWrite

LEMMA RunOKStep == ASSUME TypeOK, [Next]_vars PROVE RunOK'
<1> USE DEF RunOK
<1>0. RepoOK /\ OpOK /\ RunOK
  BY DEF TypeOK, RepoOK, OpOK
<1>1. ASSUME NEW n \in StartNo, RunLoad(n) PROVE RunOK'
  <2>1. run[n].task \in Task
    BY <1>0, <1>1 DEF RunLoad, GoroutineOK, NoRun
  <2>2. PICK local \in Outcomes(run[n].task, repo[run[n].task]) :
          run' = [run EXCEPT ![n] = [pc |-> "finalize", task |-> run[n].task,
                                     read |-> repo[run[n].task], new |-> local]]
    BY <1>1 DEF RunLoad
  <2>3. local \in Record(run[n].task) /\ repo[run[n].task] \in Record(run[n].task)
    BY <1>0, <2>1, OutcomeType DEF RepoOK
  <2> QED BY <1>0, <2>1, <2>2, <2>3 DEF GoroutineOK
<1>2. ASSUME NEW n \in StartNo, FinalizeRead(n) PROVE RunOK'
  <2>1. GoroutineOK([run[n] EXCEPT !.pc = "write"])
    BY <1>0, <1>2, LoadedRun DEF FinalizeRead, GoroutineOK
  <2> QED BY <1>0, <1>2, <2>1 DEF FinalizeRead, GoroutineOK
<1>3. ASSUME NEW n \in StartNo, FinalizeWrite(n) PROVE RunOK'
  BY <1>0, <1>3 DEF FinalizeWrite, GoroutineOK
<1>4. ASSUME NEW c \in Client, Write(c) PROVE RunOK'
  <2>1. op[c].task \in Task
    BY <1>0, <1>4, WriteCall DEF Write
  <2>2. GoroutineOK([pc |-> "spawned", task |-> op[c].task])
    BY <2>1 DEF GoroutineOK
  <2> QED BY <1>0, <1>4, <2>2 DEF Write
<1>5. CASE UNCHANGED run
  BY <1>0, <1>5 DEF GoroutineOK
<1> QED
  BY <1>1, <1>2, <1>3, <1>4, <1>5 DEF Next, Begin, ClientStep, RunStep, vars, Create, StartRead,
     CancelRead, RetryRead, FinalizeAsCheck, FinalizeAsRead

LEMMA TypeStep == ASSUME TypeOK, [Next]_vars PROVE TypeOK'
<1>1. starts' \in 0..MaxStarts
  <2>0. starts \in 0..MaxStarts
    BY DEF TypeOK
  <2>1. ASSUME NEW c \in Client, NEW t \in Task, StartRead(c, t) PROVE starts' \in 0..MaxStarts
    BY <2>0, <2>1, BoundsAssumption DEF BoundsAssumption, StartRead
  <2>2. CASE UNCHANGED starts
    BY <2>0, <2>2
  <2> QED
    BY <2>1, <2>2 DEF Next, Begin, ClientStep, RunStep, vars, Create, CancelRead, RetryRead,
       FinalizeAsCheck, FinalizeAsRead, Write, RunLoad, FinalizeRead, FinalizeWrite
<1>2. lost' \subseteq Task
  <2>0. OpOK /\ RunOK /\ lost \subseteq Task
    BY DEF TypeOK, OpOK, RunOK
  <2>1. ASSUME NEW c \in Client, Write(c) PROVE lost' \subseteq Task
    BY <2>0, <2>1, WriteCall DEF Write, Update
  <2>2. ASSUME NEW n \in StartNo, FinalizeWrite(n) PROVE lost' \subseteq Task
    BY <2>0, <2>2, LoadedRun DEF FinalizeWrite, Update
  <2>3. CASE UNCHANGED lost
    BY <2>0, <2>3
  <2> QED
    BY <2>1, <2>2, <2>3 DEF Next, Begin, ClientStep, RunStep, vars, Create,
       StartRead, CancelRead, RetryRead, FinalizeAsCheck, FinalizeAsRead, RunLoad, FinalizeRead
<1> QED
  BY <1>1, <1>2, RepoStep, OpStep, RunOKStep DEF TypeOK, RepoOK, OpOK, RunOK, StartNo

\* Every record in the repository, read by a caller or made by a run is a
\* record of its own task, for any number of callers, tasks and Starts.
THEOREM TypeCorrect == Spec => []TypeOK
<1>1. Init => TypeOK
  BY FreshRecord, BoundsAssumption DEF Init, TypeOK, CallOK, GoroutineOK, BoundsAssumption
<1> QED
  BY <1>1, TypeStep, PTL DEF Spec

-----------------------------------------------------------------------------
(* Consistency of what is stored, lost updates or not.                     *)

StoredOK(t, rec) ==
  /\ RecordOK(rec)
  /\ \A s \in DOMAIN rec.subs : rec.subs[s] # "in_progress"
  /\ rec.subs = AllPending(rec.subs) \/ Quiescent(Plan[t], rec.subs)

AllStoredOK ==
  /\ \A t \in Task : StoredOK(t, repo[t])
  /\ \A c \in Client : op[c].pc = "write" => StoredOK(op[c].task, op[c].new)
  /\ \A n \in StartNo : run[n].pc \in {"finalize", "write"} => StoredOK(run[n].task, run[n].new)

\* After a run, no subtask can be run any more: the completed ones are a least
\* closed set, so what they are enough for is among them.
LEMMA OutcomeQuiescent ==
  ASSUME NEW t \in Task, NEW before, NEW after \in [DOMAIN Plan[t] -> SubtaskState],
         IsRunOutcome(Plan[t], before, after)
  PROVE  Quiescent(Plan[t], after)
<1> SUFFICES ASSUME NEW s \in DOMAIN Plan[t], s \notin Terminal(after),
                    Plan[t][s] \subseteq Completed(after)
             PROVE  FALSE
  BY DEF Quiescent
<1>1. Completed(after) = Reachable(Plan[t], Failed(after))
  BY DEF IsRunOutcome
<1>2. s \notin Failed(after) /\ s \notin Completed(after)
  BY DEF Terminal
<1>3. s \in Reachable(Plan[t], Failed(after))
  <2> SUFFICES ASSUME NEW C \in SUBSET DOMAIN Plan[t], Closed(Plan[t], Failed(after), C)
               PROVE  s \in C
    BY DEF Reachable
  <2>1. Completed(after) \subseteq C
    BY <1>1 DEF Reachable
  <2> QED BY <1>2, <2>1 DEF Closed
<1> QED BY <1>1, <1>2, <1>3

LEMMA OutcomeStored ==
  ASSUME NEW t \in Task, NEW rec \in Record(t), StoredOK(t, rec), NEW local \in Outcomes(t, rec)
  PROVE  StoredOK(t, local)
<1>1. PICK after \in [DOMAIN Plan[t] -> SubtaskState] :
        /\ IsRunOutcome(Plan[t], rec.subs, after)
        /\ local = [rec EXCEPT !.subs = after,
             !.state = IF Completed(after) = DOMAIN Plan[t] THEN "completed" ELSE "failed",
             !.result = IF Completed(after) = DOMAIN Plan[t] THEN "all subtasks completed" ELSE @]
  BY DEF Outcomes
<1>2. /\ local.subs = after /\ local.retry = rec.retry
      /\ local.state = IF Completed(after) = DOMAIN Plan[t] THEN "completed" ELSE "failed"
      /\ local.result = IF Completed(after) = DOMAIN Plan[t] THEN "all subtasks completed"
                        ELSE rec.result
  BY <1>1 DEF Record
<1>3. rec.result = "all subtasks completed" => Completed(after) = DOMAIN Plan[t]
  <2>1. \A s \in Completed(rec.subs) : after[s] = "completed"
    BY <1>1 DEF IsRunOutcome, Terminal, Completed
  <2>2. DOMAIN after = DOMAIN Plan[t] /\ DOMAIN rec.subs = DOMAIN Plan[t]
    BY DEF Record
  <2>3. rec.result = "all subtasks completed" => Completed(rec.subs) = DOMAIN rec.subs
    BY DEF StoredOK, RecordOK
  <2> QED BY <2>1, <2>2, <2>3 DEF Completed
<1>4. \A s \in DOMAIN after : after[s] # "in_progress"
  BY <1>1 DEF IsRunOutcome
<1>5. Quiescent(Plan[t], after)
  BY <1>1, OutcomeQuiescent
<1> QED
  BY <1>2, <1>3, <1>4, <1>5 DEF StoredOK, RecordOK

LEMMA FreshStored ==
  ASSUME NEW t \in Task, NEW rec \in Record(t), rec.subs = AllPending(Plan[t]),
         rec.result # "all subtasks completed", rec.retry <= MaxRetries
  PROVE  StoredOK(t, rec)
<1>1. DOMAIN rec.subs = DOMAIN Plan[t]
  BY DEF AllPending
<1>2. rec.subs = AllPending(rec.subs) /\ \A s \in DOMAIN rec.subs : rec.subs[s] # "in_progress"
  BY <1>1 DEF AllPending
<1> QED BY <1>2 DEF StoredOK, RecordOK

\* The records the operations make from a record that is all right.
LEMMA NewStored ==
  ASSUME NEW t \in Task, NEW rec \in Record(t), StoredOK(t, rec)
  PROVE  /\ rec.state # "completed" => 
              \A n \in Nat : StoredOK(t, [rec EXCEPT !.state = "in_progress", !.startedAt = n])
         /\ rec.state # "completed" => StoredOK(t, [rec EXCEPT !.state = "cancelled"])
         /\ rec.state # "completed" => StoredOK(t, [rec EXCEPT !.state = "failed"])
         /\ StoredOK(t, [rec EXCEPT !.state = "completed", !.result = "given"])
BY DEF StoredOK, RecordOK, Record

LEMMA RetryStored ==
  ASSUME NEW t \in Task, NEW rec \in Record(t), StoredOK(t, rec), rec.state = "failed",
         rec.retry < MaxRetries
  PROVE  StoredOK(t, [rec EXCEPT !.state = "pending", !.retry = @ + 1,
                                 !.subs = AllPending(Plan[t])])
<1> DEFINE new == [rec EXCEPT !.state = "pending", !.retry = rec.retry + 1,
                              !.subs = AllPending(Plan[t])]
<1>0. rec.retry \in Nat
  BY DEF Record
<1>1. rec.retry + 1 \in Nat /\ rec.retry + 1 <= MaxRetries
  BY <1>0, BoundsAssumption DEF BoundsAssumption
<1>2. AllPending(Plan[t]) \in [DOMAIN Plan[t] -> SubtaskState]
  BY DEF AllPending, SubtaskState
<1>3. \A q \in Nat : [rec EXCEPT !.state = "pending", !.retry = q,
                                 !.subs = AllPending(Plan[t])] \in Record(t)
  BY <1>2 DEF Record, TaskState
<1>4. new \in Record(t)
  BY <1>1, <1>3
<1>5. /\ new.subs = AllPending(Plan[t]) /\ new.result = rec.result /\ new.retry = rec.retry + 1
  BY DEF Record
<1>6. rec.result # "all subtasks completed"
  BY DEF StoredOK, RecordOK
<1> QED
  BY <1>1, <1>4, <1>5, <1>6, FreshStored

LEMMA StoredStep == ASSUME TypeOK, AllStoredOK, [Next]_vars PROVE AllStoredOK'
<1>0. RepoOK /\ OpOK /\ RunOK
  BY DEF TypeOK, RepoOK, OpOK, RunOK
<1> USE DEF AllStoredOK
<1>1. ASSUME NEW t \in Task, Create(t) PROVE AllStoredOK'
  <2> DEFINE new == [NoTask(t) EXCEPT !.state = "pending"]
  <2>1. new \in Record(t)
    BY FreshRecord DEF Record, TaskState
  <2>2. new.subs = AllPending(Plan[t]) /\ new.result = "" /\ new.retry = 0
    BY DEF NoTask
  <2>3. 0 <= MaxRetries
    BY BoundsAssumption DEF BoundsAssumption
  <2>4. StoredOK(t, new)
    <3> HIDE DEF new
    <3> QED BY <2>1, <2>2, <2>3, FreshStored
  <2> QED BY <1>0, <1>1, <2>4 DEF Create, RepoOK
<1>2. ASSUME NEW c \in Client, NEW t \in Task, NEW kind, NEW from, NEW new,
             Read(c, t, kind, from, new), UNCHANGED <<repo, run>>, StoredOK(t, new)
      PROVE  AllStoredOK'
  BY <1>0, <1>2 DEF Read, OpOK
<1>3. ASSUME NEW c \in Client, NEW t \in Task, StartRead(c, t) PROVE AllStoredOK'
  <2>1. starts' \in Nat
    BY <1>3, BoundsAssumption DEF StartRead, TypeOK, BoundsAssumption
  <2>2. StoredOK(t, [repo[t] EXCEPT !.state = "in_progress", !.startedAt = starts'])
    BY <1>0, <1>3, <2>1, NewStored DEF RepoOK, StartRead, Read
  <2> QED BY <1>2, <1>3, <2>2 DEF StartRead
<1>4. ASSUME NEW c \in Client, NEW t \in Task, CancelRead(c, t) PROVE AllStoredOK'
  <2>1. StoredOK(t, [repo[t] EXCEPT !.state = "cancelled"])
    BY <1>0, <1>4, NewStored DEF RepoOK, CancelRead, Read
  <2> QED BY <1>2, <1>4, <2>1 DEF CancelRead
<1>5. ASSUME NEW c \in Client, NEW t \in Task, RetryRead(c, t) PROVE AllStoredOK'
  <2>1. StoredOK(t, [repo[t] EXCEPT !.state = "pending", !.retry = @ + 1,
                                    !.subs = AllPending(Plan[t])])
    BY <1>0, <1>5, RetryStored DEF RepoOK, RetryRead, Read
  <2> QED BY <1>2, <1>5, <2>1 DEF RetryRead
<1>6. ASSUME NEW c \in Client, FinalizeAsRead(c) PROVE AllStoredOK'
  <2> DEFINE t == op[c].task
  <2>1. t \in Task
    BY <1>0, <1>6 DEF FinalizeAsRead, OpOK, CallOK, Idle
  <2>2. /\ StoredOK(t, [repo[t] EXCEPT !.state = "completed", !.result = "given"])
        /\ repo[t].state # "completed" => StoredOK(t, [repo[t] EXCEPT !.state = "failed"])
    BY <1>0, <2>1, NewStored DEF RepoOK
  <2>3. CASE op' = [op EXCEPT ![c] = Idle]
    BY <1>0, <1>6, <2>3 DEF FinalizeAsRead, OpOK, Idle
  <2>4. CASE Read(c, t, "complete", {"in_progress"},
                  [repo[t] EXCEPT !.state = "completed", !.result = "given"])
    BY <1>2, <1>6, <2>1, <2>2, <2>4 DEF FinalizeAsRead
  <2>5. CASE Read(c, t, "fail", {"in_progress"}, [repo[t] EXCEPT !.state = "failed"])
    BY <1>2, <1>6, <2>1, <2>2, <2>5 DEF FinalizeAsRead, Read
  <2> QED BY <1>6, <2>3, <2>4, <2>5 DEF FinalizeAsRead
<1>7. ASSUME NEW c \in Client, NEW t \in Task, NEW k, FinalizeAsCheck(c, t, k) PROVE AllStoredOK'
  BY <1>0, <1>7 DEF FinalizeAsCheck, OpOK
<1>8. ASSUME NEW c \in Client, Write(c) PROVE AllStoredOK'
  BY <1>0, <1>8, WriteCall DEF Write, Update, RepoOK, OpOK, RunOK, Idle
<1>9. ASSUME NEW n \in StartNo, RunLoad(n) PROVE AllStoredOK'
  <2>1. run[n].task \in Task
    BY <1>0, <1>9 DEF RunLoad, RunOK, GoroutineOK, NoRun
  <2> QED BY <1>0, <1>9, <2>1, OutcomeStored DEF RunLoad, RepoOK, RunOK
<1>10. ASSUME NEW n \in StartNo, FinalizeRead(n) PROVE AllStoredOK'
  BY <1>0, <1>10, LoadedRun DEF FinalizeRead, RunOK, NoRun
<1>11. ASSUME NEW n \in StartNo, FinalizeWrite(n) PROVE AllStoredOK'
  BY <1>0, <1>11, LoadedRun DEF FinalizeWrite, Update, RepoOK, RunOK, NoRun
<1>12. CASE UNCHANGED vars
  BY <1>12 DEF vars
<1> QED
  BY <1>1, <1>3, <1>4, <1>5, <1>6, <1>7, <1>8, <1>9, <1>10, <1>11, <1>12
  DEF Next, Begin, ClientStep, RunStep

LEMMA StoredInvariant == Spec => []AllStoredOK
<1>1. Init => AllStoredOK
  <2> SUFFICES ASSUME Init PROVE AllStoredOK
    OBVIOUS
  <2>1. \A t \in Task : StoredOK(t, NoTask(t))
    <3> TAKE t \in Task
    <3>1. 0 <= MaxRetries
      BY BoundsAssumption DEF BoundsAssumption
    <3>2. /\ NoTask(t).subs = AllPending(Plan[t]) /\ NoTask(t).result = ""
          /\ NoTask(t).retry = 0
      BY DEF NoTask
    <3> QED BY <3>1, <3>2, FreshRecord, FreshStored
  <2> QED BY <2>1 DEF Init, AllStoredOK, Idle, NoRun
<1> QED
  BY <1>1, StoredStep, TypeCorrect, PTL DEF Spec

\* Whatever updates are lost, a run never starts from subtasks on which RunTask
\* would report a deadlock that is not there.
THEOREM NoFalseDeadlockHolds == Spec => []NoFalseDeadlock
<1>1. AllStoredOK => NoFalseDeadlock
  BY DEF AllStoredOK, NoFalseDeadlock, Stored, StoredOK
<1> QED BY <1>1, StoredInvariant, PTL

-----------------------------------------------------------------------------
(* The order of the records of one task.  A run may store its result only  *)
(* if the task was in progress when it re-read it; the record it replaces  *)
(* is then the one it loaded unless an update is lost.  That this record   *)
(* was itself in progress needs an argument: a record never comes back,    *)
(* because every step that loses no update makes the task's record newer.  *)

Rank(s) ==
  IF s = "absent" THEN 0 ELSE IF s = "in_progress" THEN 1
  ELSE IF s \in {"completed", "failed"} THEN 2 ELSE IF s = "pending" THEN 3 ELSE 4

Newer(b, a) ==
  \/ b.startedAt > a.startedAt
  \/ b.startedAt = a.startedAt /\ Rank(b.state) > Rank(a.state)

\* What a call about to write makes of the record it read.
LegalCall(kind, a, b) ==
  /\ kind = "start" => /\ a.state \in {"pending", "failed"} /\ b.state = "in_progress"
                       /\ b.retry = a.retry /\ b.result = a.result /\ b.startedAt > a.startedAt
  /\ kind # "start" => b.startedAt = a.startedAt
  /\ kind = "cancel" => /\ a.state \in {"pending", "in_progress", "failed"}
                        /\ b.state = "cancelled" /\ b.retry = a.retry /\ b.result = a.result
  /\ kind = "retry" => /\ a.state = "failed" /\ b.state = "pending"
                       /\ a.retry < MaxRetries /\ b.retry = a.retry + 1 /\ b.result = a.result
  /\ kind = "complete" => /\ a.state = "in_progress" /\ b.state = "completed"
                          /\ b.retry = a.retry
  /\ kind = "fail" => /\ a.state = "in_progress" /\ b.state = "failed"
                      /\ b.retry = a.retry /\ b.result = a.result

LegalRun(a, b) ==
  /\ b.state \in {"completed", "failed"} /\ b.retry = a.retry /\ b.startedAt = a.startedAt
  /\ b.state = "failed" => b.result = a.result

CallsLegal == \A c \in Client : op[c].pc = "write" => LegalCall(op[c].kind, op[c].read, op[c].new)

RunsLegal == \A n \in StartNo :
  run[n].pc \in {"finalize", "write"} => LegalRun(run[n].read, run[n].new)

Clock ==
  /\ \A t \in Task : repo[t].startedAt <= starts
  /\ \A c \in Client : op[c].pc = "write" => op[c].new.startedAt <= starts
  /\ \A n \in StartNo : run[n].pc \in {"finalize", "write"} => run[n].new.startedAt <= starts

FreshRuns == \A n \in StartNo :
  run[n].pc \in {"finalize", "write"} /\ run[n].task \notin lost =>
    LET rec == repo[run[n].task] IN
    /\ rec = run[n].read \/ Newer(rec, run[n].read)
    /\ run[n].pc = "write" /\ rec = run[n].read => rec.state = "in_progress"

ResultOK == \A t \in Task \ lost : repo[t].result # "" => repo[t].state = "completed"

AbsentIsNew == \A t \in Task : repo[t].state = "absent" => repo[t] = NoTask(t)

OrderInv == AbsentIsNew /\ CallsLegal /\ RunsLegal /\ Clock /\ FreshRuns /\ ResultOK

LEMMA NewerIrreflexive ==
  ASSUME NEW t \in Task, NEW a \in Record(t) PROVE ~Newer(a, a)
<1>1. a.startedAt \in Nat /\ Rank(a.state) \in Nat
  BY DEF Record, Rank
<1> QED BY <1>1 DEF Newer

LEMMA NewerTransitive ==
  ASSUME NEW t \in Task, NEW a \in Record(t), NEW b \in Record(t), NEW c \in Record(t),
         Newer(c, b), Newer(b, a)
  PROVE  Newer(c, a)
<1>1. /\ a.startedAt \in Nat /\ b.startedAt \in Nat /\ c.startedAt \in Nat
      /\ Rank(a.state) \in Nat /\ Rank(b.state) \in Nat /\ Rank(c.state) \in Nat
  BY DEF Record, Rank
<1> QED BY <1>1 DEF Newer

LEMMA CallNewer ==
  ASSUME NEW t \in Task, NEW a \in Record(t), NEW b \in Record(t), NEW kind \in Kind,
         LegalCall(kind, a, b)
  PROVE  Newer(b, a)
<1>1. kind = "start" => Newer(b, a)
  BY DEF LegalCall, Newer
<1>2. kind # "start" => b.startedAt = a.startedAt /\ Rank(b.state) > Rank(a.state)
  BY DEF LegalCall, Kind, Rank
<1> QED BY <1>1, <1>2 DEF Newer

\* The steps of TaskLifecycle on one task, on its records.
LifeStep(a, b) ==
  \/ a.state = "absent" /\ b.state = "pending" /\ b.retry = a.retry
  \/ a.state \in {"pending", "failed"} /\ b.state = "in_progress" /\ b.retry = a.retry
  \/ a.state = "in_progress" /\ b.state \in {"completed", "failed"} /\ b.retry = a.retry
  \/ a.state \in {"pending", "in_progress", "failed"} /\ b.state = "cancelled"
     /\ b.retry = a.retry
  \/ a.state = "failed" /\ b.state = "pending" /\ a.retry < MaxRetries /\ b.retry = a.retry + 1

\* The steps that store a record, and what they do to its task.
Stores(t) ==
  \/ Create(t)
  \/ \E c \in Client : op[c].task = t /\ Write(c)
  \/ \E n \in StartNo : run[n].task = t /\ FinalizeWrite(n)

LEMMA StoreNewer ==
  ASSUME TypeOK, OrderInv, NEW t \in Task, Stores(t), t \notin lost'
  PROVE  /\ t \notin lost
         /\ LifeStep(repo[t], repo'[t])
         /\ Newer(repo'[t], repo[t])
         /\ repo'[t].result # "" => repo'[t].state = "completed"
<1>0. RepoOK /\ OpOK /\ RunOK
  BY DEF TypeOK, RepoOK, OpOK, RunOK
<1>1. CASE Create(t)
  <2>1. repo'[t] = [NoTask(t) EXCEPT !.state = "pending"] /\ repo[t] = NoTask(t) /\ t \notin lost
    BY <1>0, <1>1 DEF Create, RepoOK, OrderInv, AbsentIsNew
  <2>2. /\ repo'[t].state = "pending" /\ repo'[t].result = "" /\ repo'[t].retry = 0
        /\ repo'[t].startedAt = 0
    <3> DEFINE new == [NoTask(t) EXCEPT !.state = "pending"]
    <3>1. new.state = "pending" /\ new.result = "" /\ new.retry = 0 /\ new.startedAt = 0
      BY DEF NoTask
    <3> QED BY <2>1, <3>1
  <2>3. repo[t].state = "absent" /\ repo[t].retry = 0 /\ repo[t].startedAt = 0
    <3>1. /\ NoTask(t).state = "absent" /\ NoTask(t).retry = 0
          /\ NoTask(t).startedAt = 0
      BY DEF NoTask
    <3> QED BY <2>1, <3>1
  <2>4. Rank("pending") > Rank("absent")
    BY DEF Rank
  <2>5. Newer(repo'[t], repo[t])
    BY <2>2, <2>3, <2>4, Zenon DEF Newer
  <2> QED BY <2>1, <2>2, <2>3, <2>5 DEF LifeStep
<1>2. ASSUME NEW c \in Client, op[c].task = t, Write(c)
      PROVE  /\ t \notin lost
             /\ LifeStep(repo[t], repo'[t])
             /\ Newer(repo'[t], repo[t])
             /\ repo'[t].result # "" => repo'[t].state = "completed"
  <2>1. /\ op[c].pc = "write" /\ op[c].kind \in Kind
        /\ op[c].read \in Record(t) /\ op[c].new \in Record(t)
    BY <1>0, <1>2, WriteCall DEF Write
  <2>2. repo[t] = op[c].read /\ repo'[t] = op[c].new /\ t \notin lost
    BY <1>0, <1>2 DEF Write, Update, RepoOK
  <2>3. LegalCall(op[c].kind, repo[t], repo'[t])
    BY <2>1, <2>2 DEF OrderInv, CallsLegal
  <2>4. repo[t].result # "" => repo[t].state = "completed"
    BY <2>2 DEF OrderInv, ResultOK
  <2>5. Newer(repo'[t], repo[t])
    BY <2>1, <2>2, <2>3, CallNewer
  <2> QED
    BY <2>1, <2>2, <2>3, <2>4, <2>5 DEF LegalCall, LifeStep, Kind
<1>3. ASSUME NEW n \in StartNo, run[n].task = t, FinalizeWrite(n)
      PROVE  /\ t \notin lost
             /\ LifeStep(repo[t], repo'[t])
             /\ Newer(repo'[t], repo[t])
             /\ repo'[t].result # "" => repo'[t].state = "completed"
  <2>1. run[n].pc = "write" /\ run[n].read \in Record(t) /\ run[n].new \in Record(t)
    BY <1>0, <1>3, LoadedRun DEF FinalizeWrite
  <2>2. repo[t] = run[n].read /\ repo'[t] = run[n].new /\ t \notin lost
    BY <1>0, <1>3 DEF FinalizeWrite, Update, RepoOK
  <2>3. LegalRun(repo[t], repo'[t])
    BY <2>1, <2>2 DEF OrderInv, RunsLegal
  <2>4. repo[t].state = "in_progress"
    BY <1>3, <2>1, <2>2 DEF OrderInv, FreshRuns
  <2>5. repo[t].result = ""
    BY <2>2, <2>4 DEF OrderInv, ResultOK
  <2>6. Newer(repo'[t], repo[t])
    BY <2>3, <2>4 DEF LegalRun, Newer, Rank
  <2> QED
    BY <2>2, <2>3, <2>4, <2>5, <2>6 DEF LegalRun, LifeStep
<1> QED
  BY <1>1, <1>2, <1>3 DEF Stores

\* The other steps leave every record of the repository alone, as a step that
\* stores a record leaves those of the other tasks.
LEMMA OnlyStoresWrite ==
  ASSUME TypeOK, [Next]_vars
  PROVE  \/ UNCHANGED <<repo, lost>>
         \/ \E t \in Task : /\ Stores(t)
                            /\ \A u \in Task \ {t} : repo'[u] = repo[u]
                            /\ lost' = lost \/ lost' = lost \cup {t}
<1>0. RepoOK /\ OpOK /\ RunOK
  BY DEF TypeOK, RepoOK, OpOK, RunOK
<1>1. ASSUME NEW t \in Task, Create(t)
      PROVE  Stores(t) /\ (\A u \in Task \ {t} : repo'[u] = repo[u]) /\ lost' = lost
  BY <1>0, <1>1 DEF Create, Stores, RepoOK
<1>2. ASSUME NEW c \in Client, Write(c)
      PROVE  \E t \in Task : /\ Stores(t)
                             /\ \A u \in Task \ {t} : repo'[u] = repo[u]
                             /\ lost' = lost \/ lost' = lost \cup {t}
  BY <1>0, <1>2, WriteCall DEF Write, Update, Stores, RepoOK
<1>3. ASSUME NEW n \in StartNo, FinalizeWrite(n)
      PROVE  \E t \in Task : /\ Stores(t)
                             /\ \A u \in Task \ {t} : repo'[u] = repo[u]
                             /\ lost' = lost \/ lost' = lost \cup {t}
  BY <1>0, <1>3, LoadedRun DEF FinalizeWrite, Update, Stores, RepoOK
<1> QED
  BY <1>1, <1>2, <1>3 DEF Next, Begin, ClientStep, RunStep, vars, StartRead, CancelRead,
     RetryRead, FinalizeAsCheck, FinalizeAsRead, RunLoad, FinalizeRead

LEMMA ResultStep == ASSUME TypeOK, OrderInv, [Next]_vars PROVE ResultOK'
<1> SUFFICES ASSUME NEW u \in Task, u \notin lost', repo'[u].result # ""
             PROVE  repo'[u].state = "completed"
  BY DEF ResultOK
<1>1. CASE UNCHANGED <<repo, lost>>
  BY <1>1 DEF OrderInv, ResultOK
<1>2. ASSUME NEW t \in Task, Stores(t), \A v \in Task \ {t} : repo'[v] = repo[v],
             lost' = lost \/ lost' = lost \cup {t}
      PROVE  repo'[u].state = "completed"
  <2>1. CASE u = t
    BY <1>2, <2>1, StoreNewer
  <2>2. CASE u # t
    BY <1>2, <2>2 DEF OrderInv, ResultOK
  <2> QED BY <2>1, <2>2
<1> QED BY <1>1, <1>2, OnlyStoresWrite

LEMMA AbsentStep == ASSUME TypeOK, OrderInv, [Next]_vars PROVE AbsentIsNew'
<1>0. RepoOK /\ OpOK /\ RunOK
  BY DEF TypeOK, RepoOK, OpOK, RunOK
<1> USE DEF AbsentIsNew, OrderInv
<1>1. ASSUME NEW t \in Task, Create(t) PROVE AbsentIsNew'
  <2>1. [NoTask(t) EXCEPT !.state = "pending"].state = "pending"
    BY DEF NoTask
  <2> QED BY <1>0, <1>1, <2>1 DEF Create, RepoOK, NoTask
<1>2. ASSUME NEW c \in Client, Write(c) PROVE AbsentIsNew'
  <2>1. op[c].new.state # "absent"
    BY <1>0, <1>2, WriteCall DEF Write, CallsLegal, LegalCall, Kind
  <2> QED BY <1>0, <1>2, <2>1, WriteCall DEF Write, Update, RepoOK, NoTask
<1>3. ASSUME NEW n \in StartNo, FinalizeWrite(n) PROVE AbsentIsNew'
  <2>1. run[n].new.state # "absent"
    BY <1>0, <1>3 DEF FinalizeWrite, RunsLegal, LegalRun
  <2> QED BY <1>0, <1>3, <2>1, LoadedRun DEF FinalizeWrite, Update, RepoOK, NoTask
<1>4. CASE UNCHANGED repo
  BY <1>4 DEF NoTask
<1> QED
  BY <1>1, <1>2, <1>3, <1>4 DEF Next, Begin, ClientStep, RunStep, vars, StartRead, CancelRead,
     RetryRead, FinalizeAsCheck, FinalizeAsRead, RunLoad, FinalizeRead

LEMMA CallsStep == ASSUME TypeOK, OrderInv, [Next]_vars PROVE CallsLegal'
<1>0. RepoOK /\ OpOK /\ RunOK
  BY DEF TypeOK, RepoOK, OpOK, RunOK
<1> USE DEF CallsLegal, OrderInv
<1>1. ASSUME NEW c \in Client, NEW t \in Task, NEW kind, NEW from, NEW new,
             Read(c, t, kind, from, new), LegalCall(kind, repo[t], new)
      PROVE  CallsLegal'
  BY <1>0, <1>1 DEF Read, OpOK
<1>2. ASSUME NEW c \in Client, NEW t \in Task, StartRead(c, t) PROVE CallsLegal'
  <2> DEFINE new == [repo[t] EXCEPT !.state = "in_progress", !.startedAt = starts']
  <2>1. repo[t] \in Record(t) /\ starts \in Nat /\ starts' = starts + 1
    BY <1>0, <1>2, BoundsAssumption DEF RepoOK, TypeOK, StartRead, BoundsAssumption
  <2>2. repo[t].startedAt \in Nat /\ repo[t].startedAt <= starts
    BY <2>1 DEF Record, Clock
  <2>3. starts' > repo[t].startedAt
    BY <2>1, <2>2
  <2>4. /\ new.state = "in_progress" /\ new.retry = repo[t].retry
        /\ new.result = repo[t].result /\ new.startedAt = starts'
    BY <2>1 DEF Record
  <2>5. repo[t].state \in {"pending", "failed"}
    BY <1>2 DEF StartRead, Read
  <2>6. LegalCall("start", repo[t], new)
    <3> HIDE DEF new
    <3> QED BY <2>3, <2>4, <2>5 DEF LegalCall
  <2> QED BY <1>1, <1>2, <2>6 DEF StartRead
<1>3. ASSUME NEW c \in Client, NEW t \in Task, CancelRead(c, t) PROVE CallsLegal'
  <2>1. LegalCall("cancel", repo[t], [repo[t] EXCEPT !.state = "cancelled"])
    BY <1>0, <1>3 DEF CancelRead, Read, LegalCall, RepoOK, Record
  <2> QED BY <1>1, <1>3, <2>1 DEF CancelRead
<1>4. ASSUME NEW c \in Client, NEW t \in Task, RetryRead(c, t) PROVE CallsLegal'
  <2> DEFINE new == [repo[t] EXCEPT !.state = "pending", !.retry = @ + 1,
                                    !.subs = AllPending(Plan[t])]
  <2>1. /\ new.state = "pending" /\ new.retry = repo[t].retry + 1
        /\ new.result = repo[t].result /\ new.startedAt = repo[t].startedAt
    BY <1>0 DEF RepoOK, Record
  <2>2. repo[t].state = "failed" /\ repo[t].retry < MaxRetries
    BY <1>4 DEF RetryRead, Read
  <2>3. LegalCall("retry", repo[t], new)
    <3> HIDE DEF new
    <3> QED BY <2>1, <2>2 DEF LegalCall
  <2> QED BY <1>1, <1>4, <2>3 DEF RetryRead
<1>5. ASSUME NEW c \in Client, FinalizeAsRead(c) PROVE CallsLegal'
  <2> DEFINE t == op[c].task
  <2>1. t \in Task
    BY <1>0, <1>5 DEF FinalizeAsRead, OpOK, CallOK, Idle
  <2>2. repo[t].state = "in_progress" =>
          /\ LegalCall("complete", repo[t],
                       [repo[t] EXCEPT !.state = "completed", !.result = "given"])
          /\ LegalCall("fail", repo[t], [repo[t] EXCEPT !.state = "failed"])
    <3> DEFINE done == [repo[t] EXCEPT !.state = "completed", !.result = "given"]
               failed == [repo[t] EXCEPT !.state = "failed"]
    <3>1. repo[t] \in Record(t)
      BY <1>0, <2>1 DEF RepoOK
    <3>2. done.state = "completed" /\ done.retry = repo[t].retry /\ done.startedAt = repo[t].startedAt
      BY <3>1 DEF Record
    <3>3. /\ failed.state = "failed" /\ failed.retry = repo[t].retry /\ failed.startedAt = repo[t].startedAt
          /\ failed.result = repo[t].result
      BY <3>1 DEF Record
    <3> HIDE DEF done, failed
    <3>4. repo[t].state = "in_progress" => LegalCall("complete", repo[t], done)
      BY <3>2 DEF LegalCall
    <3>5. repo[t].state = "in_progress" => LegalCall("fail", repo[t], failed)
      BY <3>3 DEF LegalCall
    <3> QED BY <3>4, <3>5 DEF done, failed
  <2>3. CASE op' = [op EXCEPT ![c] = Idle]
    BY <1>0, <1>5, <2>3 DEF FinalizeAsRead, OpOK, Idle
  <2>4. CASE Read(c, t, "complete", {"in_progress"},
                  [repo[t] EXCEPT !.state = "completed", !.result = "given"])
    BY <1>1, <2>1, <2>2, <2>4 DEF Read
  <2>5. CASE Read(c, t, "fail", {"in_progress"}, [repo[t] EXCEPT !.state = "failed"])
    BY <1>1, <2>1, <2>2, <2>5 DEF Read
  <2> QED BY <1>5, <2>3, <2>4, <2>5 DEF FinalizeAsRead
<1>6. ASSUME NEW c \in Client, NEW t \in Task, NEW k, FinalizeAsCheck(c, t, k) PROVE CallsLegal'
  BY <1>0, <1>6 DEF FinalizeAsCheck, OpOK
<1>7. ASSUME NEW c \in Client, Write(c) PROVE CallsLegal'
  BY <1>0, <1>7 DEF Write, OpOK, Idle
<1>8. CASE UNCHANGED op
  BY <1>8
<1> QED
  BY <1>2, <1>3, <1>4, <1>5, <1>6, <1>7, <1>8 DEF Next, Begin, ClientStep, RunStep, vars, Create,
     RunLoad, FinalizeRead, FinalizeWrite

LEMMA OutcomeLegal ==
  ASSUME NEW t \in Task, NEW rec \in Record(t), NEW local \in Outcomes(t, rec)
  PROVE  LegalRun(rec, local)
BY DEF Outcomes, LegalRun, Record

LEMMA RunsStep == ASSUME TypeOK, OrderInv, [Next]_vars PROVE RunsLegal'
<1>0. RepoOK /\ OpOK /\ RunOK
  BY DEF TypeOK, RepoOK, OpOK, RunOK
<1> USE DEF RunsLegal, OrderInv
<1>1. ASSUME NEW n \in StartNo, RunLoad(n) PROVE RunsLegal'
  <2>1. run[n].task \in Task
    BY <1>0, <1>1 DEF RunLoad, RunOK, GoroutineOK, NoRun
  <2> QED BY <1>0, <1>1, <2>1, OutcomeLegal DEF RunLoad, RepoOK, RunOK
<1>2. ASSUME NEW n \in StartNo, FinalizeRead(n) PROVE RunsLegal'
  BY <1>0, <1>2, LoadedRun DEF FinalizeRead, RunOK, NoRun
<1>3. ASSUME NEW n \in StartNo, FinalizeWrite(n) PROVE RunsLegal'
  BY <1>0, <1>3 DEF FinalizeWrite, RunOK, NoRun
<1>4. ASSUME NEW c \in Client, Write(c) PROVE RunsLegal'
  BY <1>0, <1>4 DEF Write, RunOK
<1>5. CASE UNCHANGED run
  BY <1>5
<1> QED
  BY <1>1, <1>2, <1>3, <1>4, <1>5 DEF Next, Begin, ClientStep, RunStep, vars, Create, StartRead,
     CancelRead, RetryRead, FinalizeAsCheck, FinalizeAsRead

LEMMA ClockStep == ASSUME TypeOK, OrderInv, [Next]_vars PROVE Clock'
<1>0. RepoOK /\ OpOK /\ RunOK
  BY DEF TypeOK, RepoOK, OpOK, RunOK
<1> USE DEF Clock
<1>c. Clock
  BY DEF OrderInv
<1>1. ASSUME NEW c \in Client, NEW t \in Task, NEW kind, NEW from, NEW new,
             Read(c, t, kind, from, new), UNCHANGED <<repo, run, starts>>,
             new.startedAt = repo[t].startedAt
      PROVE  Clock'
  BY <1>0, <1>c, <1>1 DEF Read, OpOK
<1>2. ASSUME NEW c \in Client, NEW t \in Task, StartRead(c, t) PROVE Clock'
  <2> DEFINE new == [repo[t] EXCEPT !.state = "in_progress", !.startedAt = starts']
  <2>1. starts \in Nat /\ starts' = starts + 1
    BY <1>2, BoundsAssumption DEF TypeOK, StartRead, BoundsAssumption
  <2>2. new.startedAt = starts'
    BY <1>0 DEF RepoOK, Record
  <2>3. \A t_1 \in Task : repo[t_1].startedAt \in Nat
    BY <1>0 DEF RepoOK, Record
  <2>4. \A d \in Client : op[d].pc = "write" => op[d].new.startedAt \in Nat
    BY <1>0, WriteCall DEF Record
  <2>5. \A n \in StartNo : run[n].pc \in {"finalize", "write"} => run[n].new.startedAt \in Nat
    BY <1>0, LoadedRun DEF Record
  <2>6. /\ UNCHANGED <<repo, run>>
        /\ op' = [op EXCEPT ![c] = [pc |-> "write", kind |-> "start", task |-> t,
                                    read |-> repo[t], new |-> new]]
    BY <1>2 DEF StartRead, Read
  <2> HIDE DEF new
  <2>7. \A t_1 \in Task : repo'[t_1].startedAt <= starts'
    BY <1>c, <2>1, <2>3, <2>6
  <2>8. \A n \in StartNo : run'[n].pc \in {"finalize", "write"} => run'[n].new.startedAt <= starts'
    BY <1>c, <2>1, <2>5, <2>6
  <2>9. \A d \in Client : op'[d].pc = "write" => op'[d].new.startedAt <= starts'
    <3> TAKE d \in Client
    <3>1. CASE d = c
      BY <1>0, <2>1, <2>2, <2>6, <3>1 DEF OpOK
    <3>2. CASE d # c
      <4>1. op'[d] = op[d]
        BY <1>0, <2>6, <3>2 DEF OpOK
      <4> QED BY <1>c, <2>1, <2>4, <4>1
    <3> QED BY <3>1, <3>2
  <2> QED BY <2>7, <2>8, <2>9
<1>3. ASSUME NEW c \in Client, NEW t \in Task, CancelRead(c, t) PROVE Clock'
  <2>1. [repo[t] EXCEPT !.state = "cancelled"].startedAt = repo[t].startedAt
    BY <1>0 DEF RepoOK, Record
  <2> QED BY <1>1, <1>3, <2>1 DEF CancelRead
<1>4. ASSUME NEW c \in Client, NEW t \in Task, RetryRead(c, t) PROVE Clock'
  <2>1. [repo[t] EXCEPT !.state = "pending", !.retry = @ + 1,
                        !.subs = AllPending(Plan[t])].startedAt = repo[t].startedAt
    BY <1>0 DEF RepoOK, Record
  <2> QED BY <1>1, <1>4, <2>1 DEF RetryRead
<1>5. ASSUME NEW c \in Client, FinalizeAsRead(c) PROVE Clock'
  <2> DEFINE t == op[c].task
  <2>1. t \in Task
    BY <1>0, <1>5 DEF FinalizeAsRead, OpOK, CallOK, Idle
  <2>2. /\ [repo[t] EXCEPT !.state = "completed", !.result = "given"].startedAt = repo[t].startedAt
        /\ [repo[t] EXCEPT !.state = "failed"].startedAt = repo[t].startedAt
    BY <1>0, <2>1 DEF RepoOK, Record
  <2>3. CASE op' = [op EXCEPT ![c] = Idle]
    BY <1>0, <1>c, <1>5, <2>3 DEF FinalizeAsRead, OpOK, Idle
  <2>4. CASE Read(c, t, "complete", {"in_progress"},
                  [repo[t] EXCEPT !.state = "completed", !.result = "given"])
    BY <1>1, <1>5, <2>1, <2>2, <2>4 DEF FinalizeAsRead
  <2>5. CASE Read(c, t, "fail", {"in_progress"}, [repo[t] EXCEPT !.state = "failed"])
    BY <1>1, <1>5, <2>1, <2>2, <2>5 DEF FinalizeAsRead
  <2> QED BY <1>5, <2>3, <2>4, <2>5 DEF FinalizeAsRead
<1>6. ASSUME NEW c \in Client, NEW t \in Task, NEW k, FinalizeAsCheck(c, t, k) PROVE Clock'
  BY <1>0, <1>c, <1>6 DEF FinalizeAsCheck, OpOK
<1>7. ASSUME NEW c \in Client, Write(c) PROVE Clock'
  BY <1>0, <1>c, <1>7 DEF Write, Update, OpOK, RunOK, RepoOK, Idle
<1>8. ASSUME NEW n \in StartNo, RunLoad(n) PROVE Clock'
  <2>1. run[n].task \in Task
    BY <1>0, <1>8 DEF RunLoad, RunOK, GoroutineOK, NoRun
  <2>2. PICK local \in Outcomes(run[n].task, repo[run[n].task]) :
          run' = [run EXCEPT ![n] = [pc |-> "finalize", task |-> run[n].task,
                                     read |-> repo[run[n].task], new |-> local]]
    BY <1>8 DEF RunLoad
  <2>3. local.startedAt = repo[run[n].task].startedAt
    BY <1>0, <2>1, OutcomeLegal DEF RepoOK, LegalRun
  <2> QED BY <1>0, <1>c, <1>8, <2>1, <2>2, <2>3 DEF RunLoad, RunOK
<1>9. ASSUME NEW n \in StartNo, FinalizeRead(n) PROVE Clock'
  BY <1>0, <1>c, <1>9, LoadedRun DEF FinalizeRead, RunOK, NoRun
<1>10. ASSUME NEW n \in StartNo, FinalizeWrite(n) PROVE Clock'
  BY <1>0, <1>c, <1>10 DEF FinalizeWrite, Update, RunOK, RepoOK, NoRun
<1>11. ASSUME NEW t \in Task, Create(t) PROVE Clock'
  <2>1. [NoTask(t) EXCEPT !.state = "pending"].startedAt = 0 /\ 0 <= starts
    BY BoundsAssumption DEF NoTask, TypeOK, BoundsAssumption
  <2> QED BY <1>0, <1>c, <1>11, <2>1 DEF Create, RepoOK
<1>12. CASE UNCHANGED vars
  BY <1>c, <1>12 DEF vars
<1> QED
  BY <1>2, <1>3, <1>4, <1>5, <1>6, <1>7, <1>8, <1>9, <1>10, <1>11, <1>12
  DEF Next, Begin, ClientStep, RunStep

LEMMA FreshStep == ASSUME TypeOK, OrderInv, [Next]_vars PROVE FreshRuns'
<1>0. RepoOK /\ OpOK /\ RunOK /\ FreshRuns
  BY DEF TypeOK, RepoOK, OpOK, RunOK, OrderInv
<1> SUFFICES ASSUME NEW n \in StartNo, run'[n].pc \in {"finalize", "write"},
                    run'[n].task \notin lost'
             PROVE  LET rec == repo'[run'[n].task] IN
                    /\ rec = run'[n].read \/ Newer(rec, run'[n].read)
                    /\ run'[n].pc = "write" /\ rec = run'[n].read => rec.state = "in_progress"
  BY DEF FreshRuns
\* Loading: the record read is the one in the repository.
<1>1. CASE RunLoad(n)
  BY <1>0, <1>1 DEF RunLoad, RunOK
\* Re-reading: go on only if the task is in progress.
<1>2. CASE FinalizeRead(n)
  <2>1. /\ run[n].pc = "finalize" /\ run[n].task \in Task
        /\ run' = [run EXCEPT ![n].pc = "write"] /\ repo[run[n].task].state = "in_progress"
        /\ UNCHANGED <<repo, lost>>
    BY <1>0, <1>2, LoadedRun DEF FinalizeRead, RunOK, NoRun
  <2>2. run'[n].task = run[n].task /\ run'[n].read = run[n].read
    BY <1>0, <2>1, LoadedRun DEF RunOK
  <2> QED BY <1>0, <2>1, <2>2 DEF FreshRuns
\* Nothing happens to this run, but its task may get a newer record.
<1>3. CASE run'[n] = run[n]
  <2> DEFINE t == run[n].task
  <2>1. t \in Task /\ run[n].read \in Record(t)
    BY <1>0, <1>3, LoadedRun
  <2>2. CASE UNCHANGED <<repo, lost>>
    BY <1>0, <1>3, <2>2 DEF FreshRuns
  <2>3. ASSUME NEW u \in Task, Stores(u), \A v \in Task \ {u} : repo'[v] = repo[v],
               lost' = lost \/ lost' = lost \cup {u}
        PROVE  /\ repo'[t] = run[n].read \/ Newer(repo'[t], run[n].read)
               /\ run[n].pc = "write" /\ repo'[t] = run[n].read => repo'[t].state = "in_progress"
    <3>1. CASE u # t
      BY <1>0, <1>3, <2>1, <2>3, <3>1 DEF FreshRuns
    <3>2. CASE u = t
      <4>1. Newer(repo'[t], repo[t]) /\ t \notin lost
        BY <1>3, <2>3, <3>2, StoreNewer
      <4>2. repo[t] \in Record(t) /\ repo'[t] \in Record(t)
        BY <1>0, <2>1, RepoStep DEF RepoOK
      <4>3. repo[t] = run[n].read \/ Newer(repo[t], run[n].read)
        BY <1>0, <1>3, <4>1 DEF FreshRuns
      <4>4. Newer(repo'[t], run[n].read)
        BY <2>1, <4>1, <4>2, <4>3, NewerTransitive
      <4> QED BY <2>1, <4>4, NewerIrreflexive
    <3> QED BY <3>1, <3>2
  <2> QED BY <1>3, <2>2, <2>3, OnlyStoresWrite
<1>4. run'[n] # run[n] => RunLoad(n) \/ FinalizeRead(n)
  <2>1. ASSUME NEW c \in Client, Write(c) PROVE run'[n] = run[n]
    BY <1>0, <2>1 DEF Write, RunOK
  <2>2. ASSUME NEW m \in StartNo, RunLoad(m), m # n PROVE run'[n] = run[n]
    BY <1>0, <2>2 DEF RunLoad, RunOK
  <2>3. ASSUME NEW m \in StartNo, FinalizeRead(m), m # n PROVE run'[n] = run[n]
    BY <1>0, <2>3 DEF FinalizeRead, RunOK
  <2>4. ASSUME NEW m \in StartNo, FinalizeWrite(m) PROVE run'[n] = run[n]
    BY <1>0, <2>4 DEF FinalizeWrite, RunOK, NoRun
  <2> QED
    BY <2>1, <2>2, <2>3, <2>4 DEF Next, Begin, ClientStep, RunStep, vars, Create, StartRead,
       CancelRead, RetryRead, FinalizeAsCheck, FinalizeAsRead
<1> QED BY <1>1, <1>2, <1>3, <1>4

LEMMA OrderInvariant == Spec => []OrderInv
<1>1. Init => OrderInv
  <2> SUFFICES ASSUME Init PROVE OrderInv
    OBVIOUS
  <2>1. \A t \in Task : NoTask(t).startedAt = 0 /\ NoTask(t).result = ""
    BY DEF NoTask
  <2>2. \A t \in Task : repo[t] = NoTask(t)
    BY DEF Init
  <2>3. AbsentIsNew /\ ResultOK
    BY <2>1, <2>2 DEF AbsentIsNew, ResultOK
  <2>4. /\ \A c \in Client : op[c].pc # "write"
        /\ \A n \in StartNo : run[n].pc \notin {"finalize", "write"}
    BY DEF Init, Idle, NoRun
  <2>5. \A t \in Task : repo[t].startedAt <= starts
    <3>1. (\A t \in Task : repo[t].startedAt = 0) /\ starts = 0
      BY <2>1, <2>2 DEF Init
    <3> QED BY <3>1
  <2> QED
    BY <2>3, <2>4, <2>5 DEF OrderInv, CallsLegal, RunsLegal, Clock, FreshRuns
<1>2. TypeOK /\ OrderInv /\ [Next]_vars => OrderInv'
  BY AbsentStep, CallsStep, RunsStep, ClockStep, FreshStep, ResultStep DEF OrderInv
<1> QED BY <1>1, <1>2, TypeCorrect, PTL DEF Spec

-----------------------------------------------------------------------------
\* A stored result of a run means that every subtask has completed, pending
\* tasks are untouched, retries are bounded, and without a lost update a
\* result belongs to a completed task: for every interleaving of any callers.
THEOREM RecordsConsistentHolds == Spec => []RecordsConsistent
<1>1. AllStoredOK /\ OrderInv => RecordsConsistent
  <2> SUFFICES ASSUME AllStoredOK, OrderInv PROVE \A p \in Stored : RecordOK(p[2])
    BY DEF OrderInv, ResultOK, RecordsConsistent
  <2>1. \A t \in Task : RecordOK(repo[t])
    BY DEF AllStoredOK, StoredOK
  <2>2. \A c \in Client : op[c].pc = "write" => RecordOK(op[c].new)
    BY DEF AllStoredOK, StoredOK
  <2>3. \A n \in StartNo : run[n].pc \in {"finalize", "write"} => RecordOK(run[n].new)
    BY DEF AllStoredOK, StoredOK
  <2> QED BY <2>1, <2>2, <2>3 DEF Stored
<1> QED BY <1>1, StoredInvariant, OrderInvariant, PTL

\* The service implements the life cycle of TaskLifecycle: a step that loses no
\* update is one of its steps, and every other way to break the life cycle is
\* a lost update.
LEMMA LifecycleStep ==
  ASSUME TypeOK, TypeOK', OrderInv, [Next]_vars
  PROVE  [Lifecycle!Next]_(Lifecycle!vars)
<1>1. CASE UNCHANGED <<repo, lost>>
  BY <1>1 DEF Lifecycle!vars
<1>2. ASSUME NEW t \in Task, Stores(t), \A u \in Task \ {t} : repo'[u] = repo[u],
             lost' = lost \/ lost' = lost \cup {t}
      PROVE  Lifecycle!Next
  <2> DEFINE state == [u \in Task |-> repo[u].state]
             retry == [u \in Task |-> repo[u].retry]
  <2>1. /\ state' = [state EXCEPT ![t] = repo'[t].state]
        /\ retry' = [retry EXCEPT ![t] = repo'[t].retry]
    BY <1>2
  <2>2. CASE t \in lost'
    <3>1. lost' = lost \cup {t}
      BY <1>2, <2>2
    <3>2. Lifecycle!Overwrite(t)
      BY <2>1, <3>1 DEF Lifecycle!Overwrite
    <3> QED BY <3>2 DEF Lifecycle!Next
  <2>3. CASE t \notin lost'
    <3>1. t \notin lost /\ LifeStep(repo[t], repo'[t]) /\ lost' = lost
      BY <1>2, <2>3, StoreNewer
    <3>2. retry' = [retry EXCEPT ![t] = repo'[t].retry] /\ retry[t] = repo[t].retry
          /\ state[t] = repo[t].state
      BY <2>1
    <3>3. repo'[t].retry = repo[t].retry => retry' = retry
      BY <3>2
    <3> QED
      BY <2>1, <3>1, <3>2, <3>3 DEF LifeStep, Lifecycle!Next, Lifecycle!Move, Lifecycle!Create,
         Lifecycle!Start, Lifecycle!End, Lifecycle!Cancel, Lifecycle!Retry
  <2> QED BY <2>2, <2>3
<1> QED BY <1>1, <1>2, OnlyStoresWrite

THEOREM ImplementsLifecycleHolds == Spec => ImplementsLifecycle
<1>1. Init => Lifecycle!Init
  <2>1. \A t \in Task : NoTask(t).state = "absent" /\ NoTask(t).retry = 0
    BY DEF NoTask
  <2> QED BY <2>1 DEF Init, Lifecycle!Init
<1> QED
  BY <1>1, LifecycleStep, TypeCorrect, OrderInvariant, PTL
  DEF Spec, ImplementsLifecycle, Lifecycle!Spec
=============================================================================
