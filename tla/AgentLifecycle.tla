--------------------------- MODULE AgentLifecycle ---------------------------
(***************************************************************************)
(* agent.agentService (internal/agent/service.go, model.go) over either    *)
(* repository: every operation reads a copy of the agent, checks it, and   *)
(* writes the whole record back with Update, or deletes it; nothing holds  *)
(* the record between the two.                                             *)
(***************************************************************************)
EXTENDS Naturals

CONSTANTS
  Agent,
  Client,      \* concurrent callers
  MaxUpdates   \* bound: configurations ever given; they are numbered

VARIABLES
  repo,     \* the repository: State and Config of every agent
  op,       \* the call each client is in
  updates,  \* how many configurations were given
  lost      \* history: agents overwritten by a writer that had not seen the record

vars == <<repo, op, updates, lost>>

Absent == [state |-> "absent", config |-> 0]
Gone == [state |-> "deleted", config |-> 0]
Idle == [pc |-> "idle"]

Init ==
  /\ repo = [a \in Agent |-> Absent]
  /\ op = [c \in Client |-> Idle]
  /\ updates = 0 /\ lost = {}

Exists(a) == repo[a] \notin {Absent, Gone}

\* stateTransitions
Transitions(s) ==
  CASE s = "idle"       -> {"running", "terminated"}
    [] s = "running"    -> {"idle", "paused", "error", "completed", "terminated"}
    [] s = "paused"     -> {"running", "terminated"}
    [] s = "error"      -> {"idle", "running", "terminated"}
    [] s = "completed"  -> {"idle", "terminated"}
    [] s = "terminated" -> {}

-----------------------------------------------------------------------------
Create(a) ==
  /\ repo[a] = Absent
  /\ repo' = [repo EXCEPT ![a] = [state |-> "idle", config |-> 0]]
  /\ UNCHANGED <<op, updates, lost>>

Read(c, a, kind, new) ==
  /\ op[c] = Idle /\ Exists(a)
  /\ op' = [op EXCEPT ![c] =
       [pc |-> "write", kind |-> kind, agent |-> a, read |-> repo[a], new |-> new]]

\* Agent.SetState on the copy.
SetState(c, a, kind, to) ==
  /\ Exists(a) /\ to \in Transitions(repo[a].state)
  /\ Read(c, a, kind, [repo[a] EXCEPT !.state = to])
  /\ UNCHANGED <<repo, updates, lost>>

Start(c, a)  == SetState(c, a, "state", "running")
Stop(c, a)   == SetState(c, a, "state", "idle")
Pause(c, a)  == SetState(c, a, "state", "paused")
Resume(c, a) == SetState(c, a, "state", "running")

Update(c, a) ==
  /\ updates < MaxUpdates /\ updates' = updates + 1
  /\ Exists(a) /\ repo[a].state # "running"
  /\ Read(c, a, "config", [repo[a] EXCEPT !.config = updates'])
  /\ UNCHANGED <<repo, lost>>

Delete(c, a) ==
  /\ Exists(a) /\ repo[a].state # "running"
  /\ Read(c, a, "delete", Gone)
  /\ UNCHANGED <<repo, updates, lost>>

\* Mutant of Store: Update inserts an agent that is not there.
StoreUpserts(c) ==
  /\ op[c].pc = "write"
  /\ LET o == op[c]
         a == o.agent
     IN /\ repo' = [repo EXCEPT ![a] = o.new]
        /\ lost' = IF repo[a] # o.read THEN lost \cup {a} ELSE lost
  /\ op' = [op EXCEPT ![c] = Idle]
  /\ UNCHANGED updates

\* The repository's Update or Delete: an agent that is gone stays so.
Store(c) ==
  /\ op[c].pc = "write"
  /\ LET o == op[c]
         a == o.agent
     IN IF Exists(a)
        THEN /\ repo' = [repo EXCEPT ![a] = o.new]
             /\ lost' = IF repo[a] # o.read THEN lost \cup {a} ELSE lost
        ELSE UNCHANGED <<repo, lost>>
  /\ op' = [op EXCEPT ![c] = Idle]
  /\ UNCHANGED updates

Next ==
  \/ \E a \in Agent : Create(a)
  \/ \E c \in Client :
       \/ Store(c)
       \/ \E a \in Agent : Start(c, a) \/ Stop(c, a) \/ Pause(c, a) \/ Resume(c, a)
                           \/ Update(c, a) \/ Delete(c, a)

Spec == Init /\ [][Next]_vars

-----------------------------------------------------------------------------
TypeOK ==
  /\ \A a \in Agent : repo[a].state \in
       {"absent", "deleted", "idle", "running", "paused"} /\ repo[a].config \in 0..MaxUpdates
  /\ \A c \in Client : op[c].pc \in {"idle", "write"}
  /\ updates \in 0..MaxUpdates

\* A deleted agent never comes back, not even from a call that had read it; and
\* the state of an agent follows stateTransitions, a running one being neither
\* reconfigured nor deleted, except where a lost update shows.
LifecycleKept ==
  [][\A a \in Agent :
       /\ repo[a] = Gone => repo'[a] = Gone
       /\ Exists(a) /\ repo'[a] # repo[a] /\ a \notin lost' =>
            \/ repo'[a].state \in Transitions(repo[a].state) /\ repo'[a].config = repo[a].config
            \/ repo[a].state # "running" /\ repo'[a].state \in {repo[a].state, "deleted"}]_vars
=============================================================================
