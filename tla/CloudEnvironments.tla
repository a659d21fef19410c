------------------------- MODULE CloudEnvironments -------------------------
(***************************************************************************)
(* cloud.Service over LocalManager and MemoryRepository (internal/cloud).  *)
(* The manager holds the environments and their directories, the           *)
(* repository a copy of each.  A change of state is made by the manager,   *)
(* then copied, then stored; Destroy starts from the stored copy and takes *)
(* four steps.  Uploads and commands look an environment up and then work  *)
(* in its directory without a lock.                                        *)
(***************************************************************************)
EXTENDS Naturals, FiniteSets

CONSTANTS
  Env,        \* ids; one that is gone stands for the next environment
  Client      \* concurrent calls

VARIABLES
  envs,       \* LocalManager.environments: the state of each
  records,    \* MemoryRepository.environments
  dirs,       \* the work directories that exist
  op,         \* the call each client is in
  overlapped, \* history: environments two calls have been under way on at once
  outlived    \* history: environments removed while an upload into them was under
              \* way, or whose directory could not be removed

vars == <<envs, records, dirs, op, overlapped, outlived>>

State == {"running", "stopped", "paused"}
Idle == [pc |-> "idle"]
Calls(e) == {c \in Client : op[c] # Idle /\ op[c].env = e}
Go(c, call) == op' = [op EXCEPT ![c] = call]

Init ==
  /\ envs = [e \in Env |-> "none"]
  /\ records = [e \in Env |-> "none"]
  /\ dirs = {}
  /\ op = [c \in Client |-> Idle]
  /\ overlapped = {}
  /\ outlived = {}

Begin(c, e, pc) ==
  /\ op[c] = Idle
  /\ Go(c, [pc |-> pc, env |-> e])
  /\ overlapped' = IF Calls(e) = {} THEN overlapped ELSE overlapped \cup {e}

\* Create: the environment runs and ListEnvironments shows it ...
Create(c, e) ==
  /\ envs[e] = "none" /\ records[e] = "none" /\ e \notin outlived /\ Calls(e) = {}
  /\ envs' = [envs EXCEPT ![e] = "running"]
  /\ dirs' = dirs \cup {e}
  /\ op[c] = Idle /\ Go(c, [pc |-> "create", env |-> e])
  /\ overlapped' = overlapped \ {e}
  /\ UNCHANGED <<records, outlived>>

\* ... before there is a record of it.
CreateRecord(c) ==
  /\ op[c].pc = "create"
  /\ records' = [records EXCEPT ![op[c].env] = "running"]
  /\ Go(c, Idle)
  /\ UNCHANGED <<envs, dirs, overlapped, outlived>>

\* StartEnvironment, StopEnvironment, PauseEnvironment, ResumeEnvironment.
Change(c, e, from, to) ==
  /\ envs[e] \in from
  /\ envs' = [envs EXCEPT ![e] = to]
  /\ Begin(c, e, "get")
  /\ UNCHANGED <<records, dirs, outlived>>

Start(c, e) == Change(c, e, {"stopped", "paused"}, "running")
Stop(c, e) == Change(c, e, {"running", "paused"}, "stopped")
Pause(c, e) == Change(c, e, {"running"}, "paused")
Resume(c, e) == Change(c, e, {"paused"}, "running")

\* The state is copied, if the environment is still there ...
Get(c) ==
  /\ op[c].pc = "get"
  /\ LET e == op[c].env IN
       Go(c, IF envs[e] = "none" THEN Idle ELSE [pc |-> "update", env |-> e, copy |-> envs[e]])
  /\ UNCHANGED <<envs, records, dirs, overlapped, outlived>>

\* Mutant of Update: the copy is stored also where the record is gone.
UpdateAlways(c) ==
  /\ op[c].pc = "update"
  /\ records' = [records EXCEPT ![op[c].env] = op[c].copy]
  /\ Go(c, Idle)
  /\ UNCHANGED <<envs, dirs, overlapped, outlived>>

\* ... and stored, if the record is.  The service ignores the error.
Update(c) ==
  /\ op[c].pc = "update"
  /\ records' = [records EXCEPT ![op[c].env] = IF @ = "none" THEN @ ELSE op[c].copy]
  /\ Go(c, Idle)
  /\ UNCHANGED <<envs, dirs, overlapped, outlived>>

\* DestroyEnvironment: the record says whether there is something to stop.
Destroy(c, e) ==
  /\ records[e] # "none"
  /\ Begin(c, e, IF records[e] = "stopped" THEN "remove" ELSE "stop")
  /\ UNCHANGED <<envs, records, dirs, outlived>>

\* One that cannot be stopped is not destroyed.
StopFirst(c) ==
  /\ op[c].pc = "stop"
  /\ LET e == op[c].env IN
       IF envs[e] \in {"running", "paused"}
       THEN /\ envs' = [envs EXCEPT ![e] = "stopped"]
            /\ Go(c, [op[c] EXCEPT !.pc = "remove"])
       ELSE UNCHANGED envs /\ Go(c, Idle)
  /\ UNCHANGED <<records, dirs, overlapped, outlived>>

Uploading(e) == \E c \in Calls(e) : op[c].pc = "upload"

\* Destroy of the manager: the environment goes, and the directory if it can be
\* removed; the error of RemoveAll is ignored.
Remove(c) ==
  /\ op[c].pc = "remove"
  /\ LET e == op[c].env IN
       IF envs[e] = "none"
       THEN Go(c, Idle) /\ UNCHANGED <<envs, dirs, outlived>>
       ELSE /\ envs' = [envs EXCEPT ![e] = "none"]
            /\ \E removed \in BOOLEAN :
                 /\ dirs' = IF removed THEN dirs \ {e} ELSE dirs
                 /\ outlived' = IF removed /\ ~Uploading(e) THEN outlived ELSE outlived \cup {e}
            /\ Go(c, [op[c] EXCEPT !.pc = "delete"])
  /\ UNCHANGED <<records, overlapped>>

Delete(c) ==
  /\ op[c].pc = "delete"
  /\ records' = [records EXCEPT ![op[c].env] = "none"]
  /\ Go(c, Idle)
  /\ UNCHANGED <<envs, dirs, overlapped, outlived>>

\* UploadFile: the environment is looked up ...
UploadFile(c, e) ==
  /\ envs[e] # "none"
  /\ Begin(c, e, "upload")
  /\ UNCHANGED <<envs, records, dirs, outlived>>

\* ... and the directory made, if it is gone, and written to.
Write(c) ==
  /\ op[c].pc = "upload"
  /\ dirs' = dirs \cup {op[c].env}
  /\ Go(c, Idle)
  /\ UNCHANGED <<envs, records, overlapped, outlived>>

\* ExecuteCommand: only in an environment that is running when it is looked up.
ExecuteCommand(c, e) ==
  /\ envs[e] = "running"
  /\ Begin(c, e, "execute")
  /\ UNCHANGED <<envs, records, dirs, outlived>>

CommandEnds(c) ==
  /\ op[c].pc = "execute"
  /\ Go(c, Idle)
  /\ UNCHANGED <<envs, records, dirs, overlapped, outlived>>

Next ==
  \E c \in Client :
    \/ CreateRecord(c) \/ Get(c) \/ Update(c) \/ StopFirst(c) \/ Remove(c) \/ Delete(c)
    \/ Write(c) \/ CommandEnds(c)
    \/ \E e \in Env :
         \/ Create(c, e) \/ Start(c, e) \/ Stop(c, e) \/ Pause(c, e) \/ Resume(c, e)
         \/ Destroy(c, e) \/ UploadFile(c, e) \/ ExecuteCommand(c, e)

Spec == Init /\ [][Next]_vars

-----------------------------------------------------------------------------
TypeOK ==
  /\ envs \in [Env -> State \cup {"none"}]
  /\ records \in [Env -> State \cup {"none"}]
  /\ dirs \subseteq Env /\ overlapped \subseteq Env /\ outlived \subseteq Env

\* Create and Destroy touch the manager and the repository one after the
\* other, and Destroy may end at each of its steps: whatever overlaps, an
\* environment has a record exactly when no call on it is left.
RecordsPaired ==
  \A e \in Env : Calls(e) = {} => (envs[e] = "none") = (records[e] = "none")

\* The record shows another state than the manager only where two calls on
\* the environment have overlapped.
RecordsExact ==
  \A e \in Env \ overlapped : Calls(e) = {} => records[e] = envs[e]

\* The directory lives as long as the environment, but for an upload that was
\* under way when the environment was removed, and for a removal that failed.
DirsRemoved ==
  \A e \in Env : (e \in dirs) = (envs[e] # "none") \/ e \in outlived

\* What the comment in StartEnvironment says: the record is for display, the
\* manager decides.  So an environment that is there and that nobody else is
\* working on can be destroyed.
DestroyServed ==
  \A e \in Env : Calls(e) = {} /\ records[e] \in {"running", "paused"} => envs[e] \in {"running", "paused"}
=============================================================================
