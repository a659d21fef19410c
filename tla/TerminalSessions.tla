-------------------------- MODULE TerminalSessions --------------------------
(***************************************************************************)
(* terminal.Service over LocalManager and MemoryRepository                 *)
(* (internal/terminal).  The manager holds the live sessions, the          *)
(* repository copies of them that GetSession and ListSessions show.  Every *)
(* operation works on the live session and then, in two more steps, copies *)
(* it and stores the copy.  Execute and Stream look at the state, set it,  *)
(* run the command and set it again without holding the lock in between.   *)
(***************************************************************************)
EXTENDS Naturals, FiniteSets

CONSTANTS
  Session,    \* ids; each is given once
  Client,     \* concurrent calls
  MaxStreams  \* bound: streamed commands of a session at a time

VARIABLES
  live,       \* LocalManager.sessions
  record,     \* MemoryRepository.sessions
  streams,    \* commands that Stream has started and that still run
  op,         \* the call each client is in
  settled,    \* history: sessions closed while no other call on them was under way
  stuck       \* history: sessions for which Stream failed to start its command

vars == <<live, record, streams, op, settled, stuck>>

NoSession == [state |-> "none"]
State == {"idle", "running", "closed"}
Size == {"default", "resized"}
Idle == [pc |-> "idle"]

Init ==
  /\ live = [s \in Session |-> NoSession]
  /\ record = [s \in Session |-> NoSession]
  /\ streams = [s \in Session |-> 0]
  /\ op = [c \in Client |-> Idle]
  /\ settled = {}
  /\ stuck = {}

Open(s) == live[s].state \in {"idle", "running"}
Calls(s) == {c \in Client : op[c] # Idle /\ op[c].session = s}
Begin(c, call) == op[c] = Idle /\ op' = [op EXCEPT ![c] = call]
Go(c, call) == op' = [op EXCEPT ![c] = call]
SetState(s, state) == live' = [live EXCEPT ![s].state = state]

\* The id is known to nobody before both have the session.
CreateSession(s) ==
  /\ live[s] = NoSession
  /\ live' = [live EXCEPT ![s] = [state |-> "idle", size |-> "default"]]
  /\ record' = [record EXCEPT ![s] = live'[s]]
  /\ UNCHANGED <<streams, op, settled, stuck>>

\* CloseSession: no command is ever attached to the session, so none is killed.
CloseSession(c, s) ==
  /\ Open(s)
  /\ SetState(s, "closed")
  /\ settled' = IF Calls(s) = {} /\ streams[s] = 0 THEN settled \cup {s} ELSE settled
  /\ Begin(c, [pc |-> "copy", session |-> s])
  /\ UNCHANGED <<record, streams, stuck>>

Resize(c, s) ==
  /\ Open(s)
  /\ live' = [live EXCEPT ![s].size = "resized"]
  /\ Begin(c, [pc |-> "copy", session |-> s])
  /\ UNCHANGED <<record, streams, settled, stuck>>

\* The live session is copied ...
GetSession(c) ==
  /\ op[c].pc = "copy"
  /\ Go(c, [pc |-> "update", session |-> op[c].session, copy |-> live[op[c].session]])
  /\ UNCHANGED <<live, record, streams, settled, stuck>>

\* ... and the copy stored.
Update(c) ==
  /\ op[c].pc = "update"
  /\ record' = [record EXCEPT ![op[c].session] = op[c].copy]
  /\ Go(c, Idle)
  /\ UNCHANGED <<live, streams, settled, stuck>>

\* Execute: the session is looked up and is not closed ...
Execute(c, s) ==
  /\ Open(s)
  /\ Begin(c, [pc |-> "execute", session |-> s])
  /\ UNCHANGED <<live, record, streams, settled, stuck>>

\* ... it is running, whatever it has become ...
Enter(c) ==
  /\ op[c].pc = "execute"
  /\ SetState(op[c].session, "running")
  /\ Go(c, [op[c] EXCEPT !.pc = "run"])
  /\ UNCHANGED <<record, streams, settled, stuck>>

\* Mutant of Leave: a cancelled command leaves at once.
LeaveCancelledEarly(c) ==
  /\ op[c].pc = "run"
  /\ \/ SetState(op[c].session, "idle") /\ Go(c, [pc |-> "copy", session |-> op[c].session])
     \/ UNCHANGED live /\ Go(c, Idle)
  /\ UNCHANGED <<record, streams, settled, stuck>>

\* ... and idle when the command ends.  A call whose context was cancelled
\* meanwhile ends here, the others store a copy.
Leave(c) ==
  /\ op[c].pc = "run"
  /\ SetState(op[c].session, "idle")
  /\ \/ Go(c, [pc |-> "copy", session |-> op[c].session])
     \/ Go(c, Idle)
  /\ UNCHANGED <<record, streams, settled, stuck>>

Stream(c, s) ==
  /\ Open(s) /\ streams[s] < MaxStreams
  /\ Begin(c, [pc |-> "stream", session |-> s])
  /\ UNCHANGED <<live, record, streams, settled, stuck>>

\* The command starts; or it does not, and the session is left running.
StartStream(c) ==
  /\ op[c].pc = "stream"
  /\ SetState(op[c].session, "running")
  /\ Go(c, Idle)
  /\ \/ /\ streams' = [streams EXCEPT ![op[c].session] = @ + 1]
        /\ UNCHANGED stuck
     \/ /\ stuck' = stuck \cup {op[c].session}
        /\ UNCHANGED streams
  /\ UNCHANGED <<record, settled>>

StreamEnds(s) ==
  /\ streams[s] > 0
  /\ SetState(s, "idle")
  /\ streams' = [streams EXCEPT ![s] = @ - 1]
  /\ UNCHANGED <<record, op, settled, stuck>>

Next ==
  \/ \E s \in Session : CreateSession(s) \/ StreamEnds(s)
  \/ \E c \in Client :
       \/ GetSession(c) \/ Update(c) \/ Enter(c) \/ Leave(c) \/ StartStream(c)
       \/ \E s \in Session : CloseSession(c, s) \/ Resize(c, s) \/ Execute(c, s) \/ Stream(c, s)

Spec == Init /\ [][Next]_vars

-----------------------------------------------------------------------------
SessionSet == {NoSession} \cup [state : State, size : Size]

TypeOK ==
  /\ \A s \in Session : live[s] \in SessionSet /\ record[s] \in SessionSet
  /\ streams \in [Session -> 0..(MaxStreams + Cardinality(Client))]
  /\ settled \subseteq Session /\ stuck \subseteq Session

\* Execute and Stream write the state back without a look at it, so they
\* reopen a session that was closed meanwhile.  A session that is closed when
\* no call on it is under way stays closed, and is shown as closed once the
\* call has stored its copy.
ClosedForGood ==
  \A s \in settled : live[s].state = "closed" /\ (Calls(s) = {} => record[s] = live[s])

\* A session is running because a command runs in it, or because Stream could
\* not start one: the last command to end leaves it idle.
RunningHasCommand ==
  \A s \in Session : live[s].state = "running" =>
    s \in stuck \/ streams[s] > 0 \/ \E c \in Calls(s) : op[c].pc = "run"

\* What the comment in CloseSession says: a closed session runs no command.
CloseEndsCommand ==
  \A s \in Session : live[s].state = "closed" =>
    streams[s] = 0 /\ \A c \in Calls(s) : op[c].pc # "run"
=============================================================================
