------------------------------ MODULE MCAgents ------------------------------
(* The agents of the service, their presence, the parallel execution of      *)
(* plans, the messenger and the WebSocket hub.  The components share no      *)
(* state: each behaviour is one of `part`, while the variables of the others *)
(* stay as they were, where nothing of them is enabled that fairness asks    *)
(* for.  The hub is checked with two clients and few envelopes ("pair"), and *)
(* without Second and more of them ("single"); Hub has room for either.      *)
EXTENDS Naturals, FiniteSets

CONSTANTS
  Agent, MaxUpdates,                             \* AgentLifecycle
  Client,                                        \* its callers, the clients of the hub
  Peer, Status, Timeout,                         \* Presence
  Node, Plans, MaxConcurrency,                   \* ParallelScheduler
  Second, RegisterCap, BroadcastCap, SendCap,    \* WsHub
  PairMessages, SingleMessages,
  Request, Answerer, MaxPendingReqs              \* Messenger

VARIABLES part, repo, op, updates, lost, entries, reaper,
          deps, st, phase, inDeg, queue, visited, levels, launched, waiting, errors, counts, verdict,
          register, unregister, broadcast, clients, loop, stopping, swept, panicked,
          closed, send, connOpen, reader, writer, written, messages,
          pendingReqs, req, outcome, replyCh, answer

agentVars == <<repo, op, updates, lost>>
presenceVars == <<entries, reaper>>
scheduleVars == <<deps, st, phase, inDeg, queue, visited, levels, launched, waiting, errors,
                  counts, verdict>>
hubVars == <<register, unregister, broadcast, clients, loop, stopping, swept, panicked,
             closed, send, connOpen, reader, writer, written, messages>>
messengerVars == <<pendingReqs, req, outcome, replyCh, answer>>
vars == <<part, agentVars, presenceVars, scheduleVars, hubVars, messengerVars>>

Agents == INSTANCE AgentLifecycle
Beat == INSTANCE Presence WITH Agent <- Peer
Sched == INSTANCE ParallelScheduler
Pair == INSTANCE WsHub WITH MaxMessages <- PairMessages
Single == INSTANCE WsHub WITH MaxMessages <- SingleMessages
Hub == INSTANCE WsHub WITH MaxMessages <- PairMessages + SingleMessages
Msg == INSTANCE Messenger

\* Plans, channels, clients and requests are finite.
BoundsAssumption ==
  {MaxUpdates, Timeout, RegisterCap, BroadcastCap, SendCap, PairMessages, SingleMessages,
   MaxPendingReqs} \subseteq Nat
ASSUME AgentsAssumption ==
  BoundsAssumption /\ Sched!ScheduleAssumption /\ {"offline", "absent"} \cap Status = {}
  /\ IsFiniteSet(Request)

\* The cfg's Plans: every plan over three subtasks in which a subtask names at
\* most two ids, itself and one dangling id included; the plan the other parts keep.
SmallPlans == [1..3 -> {D \in SUBSET (1..4) : Cardinality(D) <= 2}]
FirstPlan == [n \in Node |-> {}]

Init ==
  /\ part \in {"agents", "presence", "schedule", "pair", "single", "messenger"}
  /\ Agents!Init /\ Beat!Init /\ Sched!Init /\ Hub!Init /\ Msg!Init
  /\ part # "schedule" => deps = FirstPlan

AgentsNext ==
  /\ part = "agents" /\ Agents!Next
  /\ UNCHANGED <<part, presenceVars, scheduleVars, hubVars, messengerVars>>
PresenceNext ==
  /\ part = "presence" /\ Beat!Next
  /\ UNCHANGED <<part, agentVars, scheduleVars, hubVars, messengerVars>>
ScheduleNext ==
  /\ part = "schedule" /\ Sched!Next
  /\ UNCHANGED <<part, agentVars, presenceVars, hubVars, messengerVars>>
HubNext ==
  /\ (part = "pair" /\ Pair!Next) \/ (part = "single" /\ Single!Next /\ reader'[Second] = "none")
  /\ UNCHANGED <<part, agentVars, presenceVars, scheduleVars, messengerVars>>
MessengerNext ==
  /\ part = "messenger" /\ Msg!Next
  /\ UNCHANGED <<part, agentVars, presenceVars, scheduleVars, hubVars>>

Next == AgentsNext \/ PresenceNext \/ ScheduleNext \/ HubNext \/ MessengerNext

Fairness == WF_vars(ScheduleNext) /\ Hub!Fairness /\ Msg!Fairness
Spec == Init /\ [][Next]_vars /\ Fairness

-----------------------------------------------------------------------------
\* The types of the components.
TypeOK == Agents!TypeOK /\ Beat!TypeOK /\ Sched!TypeOK /\ Hub!TypeOK /\ Msg!TypeOK

\* AgentLifecycle: a deleted agent never returns; except where a lost update
\* shows states follow stateTransitions, and a running agent is neither
\* reconfigured nor deleted.
LifecycleKept == Agents!LifecycleKept

\* Presence: only a heartbeat, or an entry within its timeout, is seen online.
OnlineNeedsHeartbeat == Beat!OnlineNeedsHeartbeat

\* ParallelScheduler: a subtask runs when all it depends on has completed, at
\* most MaxConcurrency at a time; a schedule that is done completed what can be
\* reached around the failures, reports the rest, and rejects exactly the
\* impossible plans.
ScheduleExact == Sched!LevelsInOrder /\ Sched!ScheduleExact /\ Sched!CycleVerdictExact

\* WsHub: messages are dropped but neither repeated nor reordered, and nothing
\* is sent on a closed channel before Stop; Messenger: a request is answered at
\* most once, and none is left behind.
MessagesExact == Hub!WrittenInOrder /\ Hub!PanicOnlyAfterStop /\ Msg!RequestsExact

\* ParallelScheduler: Schedule returns; WsHub: the pumps of a client end
\* together; Messenger: every call of RequestAction returns.
AllEnd ==
  /\ part = "schedule" /\ verdict = "none" ~> verdict # "none"
  /\ Hub!PumpsEndTogether /\ Msg!RequestsEnd

\* WsHub: a client that has left is not in the set.
OnlyActiveClients == Hub!OnlyActiveClients
=============================================================================
