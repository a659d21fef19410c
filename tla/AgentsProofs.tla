---------------------------- MODULE AgentsProofs ----------------------------
(***************************************************************************)
(* Proofs about the components of MCAgents, for every value of the         *)
(* constants: agents, presence, the parallel scheduler, the hub and the    *)
(* messenger.  Each component has an inductive invariant over its own      *)
(* variables; Inv puts them together, for a step moves one component only. *)
(***************************************************************************)
EXTENDS MCAgents, Sequences, FiniteSetTheorems, TLAPS

-----------------------------------------------------------------------------
(* AgentLifecycle: what a caller is about to write is a legal successor of  *)
(* what it has read.                                                        *)

Record == [state : {"absent", "deleted", "idle", "running", "paused"}, config : 0..MaxUpdates]
Write == [pc : {"write"}, kind : {"state", "config", "delete"}, agent : Agent,
          read : Record, new : Record]

Legal(old, new) ==
  \/ new.state \in Agents!Transitions(old.state) /\ new.config = old.config
  \/ old.state # "running" /\ new.state \in {old.state, "deleted"}

AgentsInv ==
  /\ repo \in [Agent -> Record]
  /\ op \in [Client -> {Agents!Idle} \cup Write]
  /\ updates \in 0..MaxUpdates
  /\ \A c \in Client : op[c].pc = "write" => Legal(op[c].read, op[c].new)

-----------------------------------------------------------------------------
(* ParallelScheduler.  The nodes that have come off are those of degree zero *)
(* that wait no longer; every degree counts the dependencies that have not.  *)

Popped == {n \in Node : inDeg[n] = 0} \ queue

ScheduleData ==
  /\ deps \in Plans /\ st \in [Node -> {"pending", "in_progress", "completed", "failed"}]
  /\ phase \in {"detect", "sort", "run"} /\ verdict \in {"none", "cycle", "done", "fatal"}
  /\ inDeg \in [Node -> Nat] /\ queue \subseteq Node /\ visited \in 0..Cardinality(Node)
  /\ levels \in Seq(SUBSET Node)
  /\ launched \subseteq Node /\ waiting \subseteq launched /\ errors \subseteq Node
  /\ counts \in [completed : Nat, failed : Nat]

Untouched ==
  /\ st = [n \in Node |-> "pending"]
  /\ launched = {} /\ waiting = {} /\ errors = {} /\ counts = [completed |-> 0, failed |-> 0]

\* The degrees are right, and nothing comes off that could not be run.
Degrees ==
  /\ \A n \in queue : inDeg[n] = 0
  /\ \A n \in Node : inDeg[n] = Cardinality(deps[n] \ Popped)

\* While cycles are looked for: what has come off lies in every closed set.
Detecting ==
  /\ Untouched /\ Degrees /\ levels = << >> /\ verdict \in {"none", "cycle"}
  /\ visited = Cardinality(Popped)
  /\ \A C \in SUBSET Node : Sched!Closed(deps, {}, C) => Popped \subseteq C
  /\ verdict = "cycle" => queue = {} /\ visited # Cardinality(Node)

\* Dependencies lie in earlier levels, and no node lies in two.
Ordered ==
  \A k, m \in DOMAIN levels : \A n \in levels[k], d \in levels[m] :
    (d \in deps[n] => m < k) /\ (n = d => m = k)

Acyclic == Sched!Reachable(deps, {}) = Node

Sorting ==
  /\ Untouched /\ Degrees /\ Ordered /\ Acyclic /\ verdict = "none"
  /\ \A n \in Node : n \in Popped <=> \E k \in DOMAIN levels : n \in levels[k]

\* While levels are executed: everything before the present level is ended,
\* everything behind it is untouched, and what runs or ran had what it needs.
Executing ==
  /\ Ordered /\ Acyclic /\ verdict # "cycle"
  /\ \A n \in Node : deps[n] \subseteq Node
  /\ \A n \in Node : \/ st[n] \in {"completed", "failed"}
                     \/ \E k \in DOMAIN levels : n \in levels[k]
  /\ \A k \in DOMAIN levels : k > 1 => \A n \in levels[k] : st[n] = "pending"
  /\ \A n \in launched : levels # << >> /\ n \in levels[1]
  /\ \A n \in waiting : st[n] = "pending"
  /\ levels # << >> => \A n \in levels[1] \ launched : st[n] = "pending"
  /\ \A n \in launched \ waiting : st[n] # "pending"
  /\ \A n \in Node : st[n] \in {"in_progress", "completed"} \/ n \in waiting =>
       deps[n] \subseteq Sched!Completed(st)
  /\ verdict = "none" => levels # << >>
  /\ verdict = "done" => levels = << >>

Counted ==
  /\ errors = Sched!Failed(st)
  /\ counts.completed = Cardinality(Sched!Completed(st))
  /\ counts.failed = Cardinality(Sched!Failed(st))
  /\ MaxConcurrency > 0 => Cardinality(Sched!Running) <= MaxConcurrency

\* A set closed under the dependencies of the completed nodes has them all.
Grounded ==
  \A C \in SUBSET Node :
    (\A n \in Sched!Completed(st) : deps[n] \subseteq C => n \in C) => Sched!Completed(st) \subseteq C

ScheduleInv ==
  /\ ScheduleData
  /\ phase = "detect" => Detecting
  /\ phase = "sort" => Sorting
  /\ phase = "run" => Executing /\ Counted /\ Grounded

-----------------------------------------------------------------------------
(* WsHub: a client enters once, so the register channel names no client that *)
(* is or was in the set; envelopes are numbered in the order they travel.    *)

HubData ==
  /\ clients \subseteq Client /\ closed \subseteq Client /\ connOpen \subseteq Client
  /\ register \in Seq(Client) /\ unregister \in Seq(Client)
  /\ broadcast \in Seq([no : Nat, to : SUBSET Client])
  /\ Len(register) <= RegisterCap /\ Len(unregister) <= RegisterCap
  /\ Len(broadcast) <= BroadcastCap
  /\ send \in [Client -> Seq(Nat)] /\ written \in [Client -> Seq(Nat)]
  /\ \A c \in Client : Len(send[c]) <= SendCap
  /\ reader \in [Client -> {"none", "read", "forward", "leave", "done"}]
  /\ writer \in [Client -> {"none", "write", "done"}]
  /\ messages \in Nat /\ stopping \in BOOLEAN /\ panicked \in BOOLEAN

EntersOnce ==
  /\ \A k \in DOMAIN register : register[k] \notin clients \cup closed /\ reader[register[k]] # "none"
  /\ \A k, m \in DOMAIN register : register[k] = register[m] => k = m
  /\ \A c \in clients \cup closed : reader[c] # "none"

Numbered ==
  /\ \A k \in DOMAIN broadcast : broadcast[k].no <= messages
  /\ \A k, m \in DOMAIN broadcast : k < m => broadcast[k].no < broadcast[m].no
  /\ \A c \in Client :
       /\ \A a, b \in DOMAIN send[c] : a < b => send[c][a] < send[c][b]
       /\ \A a, b \in DOMAIN written[c] : a < b => written[c][a] < written[c][b]
       /\ \A a \in DOMAIN written[c], b \in DOMAIN send[c] : written[c][a] < send[c][b]
       /\ \A a \in DOMAIN send[c] : send[c][a] <= messages
       /\ \A a \in DOMAIN written[c] : written[c][a] <= messages
       /\ \A k \in DOMAIN broadcast :
            /\ \A a \in DOMAIN send[c] : send[c][a] < broadcast[k].no
            /\ \A a \in DOMAIN written[c] : written[c][a] < broadcast[k].no

HubInv == HubData /\ EntersOnce /\ Hub!PanicOnlyAfterStop /\ Numbered

-----------------------------------------------------------------------------
(* Messenger: whoever takes the entry of a request is the one that answers. *)

Answer ==
  {Msg!Free} \cup [pc : {"deliver"}, req : Request]
             \cup [pc : {"over"}, req : Request, result : {"ok", "unknown"}]

MessengerInv ==
  /\ pendingReqs \subseteq Request /\ replyCh \subseteq Request
  /\ req \in [Request -> {"none", "publish", "wait", "giveup", "done"}]
  /\ outcome \in [Request -> {"none", "refused", "response", "timeout"}]
  /\ answer \in [Msg!Completer -> Answer]
  /\ Cardinality(pendingReqs) <= MaxPendingReqs
  /\ \A r \in Request :
       /\ \A c, d \in Msg!Taken(r) : c = d
       /\ r \in pendingReqs <=> req[r] \in {"publish", "wait", "giveup"} /\ Msg!Taken(r) = {}
       /\ req[r] = "none" => Msg!Taken(r) = {}
       /\ r \in replyCh \/ outcome[r] = "response" => Msg!Taken(r) # {}

Inv == AgentsInv /\ Beat!TypeOK /\ ScheduleInv /\ HubInv /\ MessengerInv

-----------------------------------------------------------------------------
(* AgentLifecycle *)

LEMMA CallAgents == ASSUME NEW c \in Client, op[c] = Agents!Idle PROVE op[c].pc = "idle"
BY DEF Agents!Idle

\* A call that begins: what it is about to write succeeds what it read.
LEMMA AgentsBegin ==
  ASSUME AgentsInv, NEW c \in Client, NEW w \in Write, Legal(w.read, w.new),
         op' = [op EXCEPT ![c] = w], repo' = repo, updates' \in 0..MaxUpdates
  PROVE  AgentsInv'
<1>1. op' \in [Client -> {Agents!Idle} \cup Write]
  BY DEF AgentsInv
<1>2. \A d \in Client : op'[d].pc = "write" => Legal(op'[d].read, op'[d].new)
  <2> SUFFICES ASSUME NEW d \in Client, op'[d].pc = "write"
               PROVE  Legal(op'[d].read, op'[d].new)
    OBVIOUS
  <2>1. CASE d = c
    <3>1. op'[d] = w
      BY <2>1 DEF AgentsInv
    <3> QED BY <3>1
  <2>2. CASE d # c
    <3>1. op'[d] = op[d]
      BY <2>2 DEF AgentsInv
    <3> QED BY <3>1 DEF AgentsInv
  <2> QED BY <2>1, <2>2
<1> QED BY <1>1, <1>2 DEF AgentsInv, Legal, Agents!Transitions

LEMMA SetStateStep ==
  ASSUME AgentsInv, NEW c \in Client, NEW a \in Agent, NEW to \in {"idle", "running", "paused"},
         Agents!SetState(c, a, "state", to)
  PROVE  AgentsInv'
<1> DEFINE new == [repo[a] EXCEPT !.state = to]
           w == [pc |-> "write", kind |-> "state", agent |-> a, read |-> repo[a], new |-> new]
<1>1. repo[a] \in Record /\ to \in Agents!Transitions(repo[a].state)
  BY DEF AgentsInv, Agents!SetState
<1>2. new \in Record /\ new.state = to /\ new.config = repo[a].config
  BY <1>1 DEF Record
<1> HIDE DEF new
<1>3. w \in Write /\ w.read = repo[a] /\ w.new = new
  BY <1>1, <1>2 DEF Write
<1>4. op' = [op EXCEPT ![c] = w] /\ repo' = repo /\ updates' \in 0..MaxUpdates
  BY DEF Agents!SetState, Agents!Read, AgentsInv, new
<1>5. Legal(w.read, w.new)
  BY <1>1, <1>2, <1>3 DEF Legal
<1> HIDE DEF w
<1> QED BY <1>3, <1>4, <1>5, AgentsBegin

LEMMA AgentsStep == ASSUME AgentsInv, Agents!Next PROVE AgentsInv'
<1>1. ASSUME NEW a \in Agent, Agents!Create(a) PROVE AgentsInv'
  <2>1. [state |-> "idle", config |-> 0] \in Record
    BY AgentsAssumption DEF BoundsAssumption, Record
  <2> QED BY <1>1, <2>1 DEF Agents!Create, AgentsInv, Legal, Agents!Transitions
<1>2. ASSUME NEW c \in Client, Agents!Store(c) PROVE AgentsInv'
  <2>1. op[c] \in Write
    BY <1>2 DEF Agents!Store, AgentsInv, Agents!Idle
  <2>2. op' = [op EXCEPT ![c] = Agents!Idle] /\ updates' = updates
    BY <1>2 DEF Agents!Store
  <2>3. repo' \in [Agent -> Record]
    BY <1>2, <2>1 DEF Agents!Store, AgentsInv, Write
  <2>4. op' \in [Client -> {Agents!Idle} \cup Write]
    BY <2>2 DEF AgentsInv
  <2>5. \A d \in Client : op'[d].pc = "write" => op'[d] = op[d]
    BY <2>2 DEF AgentsInv, Agents!Idle
  <2>6. \A d \in Client : op'[d].pc = "write" => Legal(op'[d].read, op'[d].new)
    BY <2>5 DEF AgentsInv
  <2> QED BY <2>2, <2>3, <2>4, <2>6 DEF AgentsInv, Legal, Agents!Transitions
<1>3. ASSUME NEW c \in Client, NEW a \in Agent,
             Agents!Start(c, a) \/ Agents!Stop(c, a) \/ Agents!Pause(c, a) \/ Agents!Resume(c, a)
      PROVE  AgentsInv'
  BY <1>3, SetStateStep DEF Agents!Start, Agents!Stop, Agents!Pause, Agents!Resume
<1>4. ASSUME NEW c \in Client, NEW a \in Agent, Agents!Update(c, a) PROVE AgentsInv'
  <2> DEFINE new == [repo[a] EXCEPT !.config = updates + 1]
             w == [pc |-> "write", kind |-> "config", agent |-> a, read |-> repo[a], new |-> new]
  <2>1. updates + 1 \in 0..MaxUpdates /\ updates' = updates + 1
    BY <1>4, AgentsAssumption DEF BoundsAssumption, Agents!Update, AgentsInv
  <2>2. repo[a] \in Record
    BY DEF AgentsInv
  <2>3. new \in Record /\ new.state = repo[a].state
    BY <2>1, <2>2 DEF Record
  <2>4. op' = [op EXCEPT ![c] = w] /\ repo' = repo /\ repo[a].state # "running"
    BY <1>4, <2>1 DEF Agents!Update, Agents!Read
  <2> HIDE DEF new
  <2>5. w \in Write /\ Legal(w.read, w.new)
    BY <2>2, <2>3, <2>4 DEF Write, Legal
  <2> HIDE DEF w
  <2> QED BY <2>1, <2>4, <2>5, AgentsBegin
<1>5. ASSUME NEW c \in Client, NEW a \in Agent, Agents!Delete(c, a) PROVE AgentsInv'
  <2> DEFINE w == [pc |-> "write", kind |-> "delete", agent |-> a, read |-> repo[a],
                   new |-> Agents!Gone]
  <2>1. repo[a] \in Record /\ Agents!Gone \in Record
    BY AgentsAssumption DEF BoundsAssumption, AgentsInv, Record, Agents!Gone
  <2>2. op' = [op EXCEPT ![c] = w] /\ repo' = repo /\ updates' = updates
    BY <1>5 DEF Agents!Delete, Agents!Read
  <2>3. repo[a].state # "running" /\ Agents!Gone.state = "deleted"
    BY <1>5 DEF Agents!Delete, Agents!Gone
  <2>4. w \in Write /\ Legal(w.read, w.new)
    BY <2>1, <2>3 DEF Write, Legal
  <2> HIDE DEF w
  <2> QED BY <2>2, <2>4, AgentsBegin DEF AgentsInv
<1> QED BY <1>1, <1>2, <1>3, <1>4, <1>5 DEF Agents!Next

LEMMA AgentsInit == Agents!Init => AgentsInv
<1> SUFFICES ASSUME Agents!Init PROVE AgentsInv
  OBVIOUS
<1>1. Agents!Absent \in Record /\ updates \in 0..MaxUpdates
  BY AgentsAssumption DEF BoundsAssumption, Record, Agents!Absent, Agents!Init
<1>2. \A c \in Client : op[c].pc = "idle"
  BY CallAgents DEF Agents!Init
<1> QED BY <1>1, <1>2 DEF Agents!Init, AgentsInv

LEMMA AgentsTypes == AgentsInv => Agents!TypeOK
<1> SUFFICES ASSUME AgentsInv PROVE Agents!TypeOK
  OBVIOUS
<1>1. \A c \in Client : op[c].pc \in {"idle", "write"}
  BY DEF AgentsInv, Write, Agents!Idle
<1> QED BY <1>1 DEF AgentsInv, Agents!TypeOK, Record

\* A store by somebody who has seen the record it replaces is a legal step.
LEMMA AgentsKept ==
  ASSUME AgentsInv, Agents!Next, NEW a \in Agent
  PROVE  /\ repo[a] = Agents!Gone => repo'[a] = Agents!Gone
         /\ Agents!Exists(a) /\ repo'[a] # repo[a] /\ a \notin lost' => Legal(repo[a], repo'[a])
<1>1. ASSUME NEW b \in Agent, Agents!Create(b) PROVE repo[a] = repo'[a] \/ repo[a] = Agents!Absent
  BY <1>1 DEF Agents!Create, AgentsInv
<1>2. ASSUME NEW c \in Client, Agents!Store(c), repo'[a] # repo[a]
      PROVE  Agents!Exists(a) /\ (a \notin lost' => Legal(repo[a], repo'[a]))
  <2>1. a = op[c].agent /\ Agents!Exists(a)
    BY <1>2 DEF Agents!Store, AgentsInv
  <2>2. repo'[a] = op[c].new /\ (a \notin lost' => repo[a] = op[c].read)
    BY <1>2, <2>1 DEF Agents!Store, AgentsInv
  <2> QED BY <1>2, <2>1, <2>2 DEF Agents!Store, AgentsInv
<1>3. ASSUME NEW c \in Client, NEW b \in Agent,
             \/ Agents!Start(c, b) \/ Agents!Stop(c, b) \/ Agents!Pause(c, b)
             \/ Agents!Resume(c, b) \/ Agents!Update(c, b) \/ Agents!Delete(c, b)
      PROVE  repo' = repo
  BY <1>3 DEF Agents!Start, Agents!Stop, Agents!Pause, Agents!Resume, Agents!SetState,
              Agents!Update, Agents!Delete
<1>4. Agents!Exists(a) => repo[a] # Agents!Absent /\ repo[a] # Agents!Gone
  BY DEF Agents!Exists
<1>5. Agents!Absent # Agents!Gone
  BY DEF Agents!Absent, Agents!Gone
<1> QED BY <1>1, <1>2, <1>3, <1>4, <1>5 DEF Agents!Next

-----------------------------------------------------------------------------
(* Presence *)

LEMMA BeatInit == Beat!Init => Beat!TypeOK
<1> SUFFICES ASSUME Beat!Init PROVE Beat!TypeOK
  OBVIOUS
<1>1. 0 \in 0..(Timeout + 1)
  BY AgentsAssumption DEF BoundsAssumption
<1> QED BY <1>1 DEF Beat!Init, Beat!TypeOK, Beat!Absent

LEMMA BeatStep == ASSUME Beat!TypeOK, Beat!Next PROVE Beat!TypeOK'
<1> DEFINE Entry == [status : Status \cup {"offline", "absent"}, age : 0..(Timeout + 1)]
<1>0. /\ Timeout \in Nat /\ 0 \in 0..(Timeout + 1)
      /\ \A p \in Peer : entries[p] \in Entry
  BY AgentsAssumption DEF BoundsAssumption, Beat!TypeOK
<1>1. CASE Beat!Tick
  <2>1. ASSUME NEW p \in Peer, ~Beat!Expired(p) PROVE [entries[p] EXCEPT !.age = @ + 1] \in Entry
    BY <1>0, <2>1 DEF Beat!Expired
  <2> QED BY <1>0, <1>1, <2>1 DEF Beat!Tick, Beat!TypeOK
<1>2. CASE Beat!Reap
  <2>1. ASSUME NEW p \in Peer PROVE [entries[p] EXCEPT !.status = "offline"] \in Entry
    BY <1>0
  <2> QED BY <1>0, <1>2, <2>1 DEF Beat!Reap, Beat!TypeOK
<1>3. CASE Beat!Stop
  BY <1>3 DEF Beat!Stop, Beat!TypeOK
<1>4. ASSUME NEW p \in Peer, Beat!RemoveAgent(p) PROVE Beat!TypeOK'
  BY <1>0, <1>4 DEF Beat!RemoveAgent, Beat!TypeOK, Beat!Absent
<1>5. ASSUME NEW p \in Peer, NEW s \in Status, Beat!Heartbeat(p, s) PROVE Beat!TypeOK'
  BY <1>0, <1>5 DEF Beat!Heartbeat, Beat!TypeOK
<1>6. ASSUME NEW p \in Peer, NEW s \in Status \cup {"offline"}, Beat!SetStatus(p, s)
      PROVE  Beat!TypeOK'
  <2>1. [status |-> s, age |-> IF Beat!Tracked(p) THEN entries[p].age ELSE 0] \in Entry
    BY <1>0
  <2> QED BY <1>0, <1>6, <2>1 DEF Beat!SetStatus, Beat!TypeOK
<1> QED BY <1>1, <1>2, <1>3, <1>4, <1>5, <1>6 DEF Beat!Next

\* Only a heartbeat, or an entry within its timeout, makes anybody seen online;
\* the reaper changes nothing that is seen.
LEMMA BeatKept ==
  ASSUME Beat!TypeOK, Beat!Next
  PROVE  /\ \A p \in Peer : Beat!GetStatus(p)' # "offline" /\ Beat!GetStatus(p) = "offline" =>
               \/ entries'[p].age = 0
               \/ Beat!Tracked(p) /\ ~Beat!Expired(p) /\ entries'[p].age = entries[p].age
         /\ Beat!Reap => \A p \in Peer : Beat!GetStatus(p)' = Beat!GetStatus(p)
<1> DEFINE Entry == [status : Status \cup {"offline", "absent"}, age : 0..(Timeout + 1)]
<1>0. /\ Timeout \in Nat /\ "absent" # "offline" /\ "offline" \notin Status
      /\ \A p \in Peer : entries[p] \in Entry /\ entries'[p] \in Entry
  BY AgentsAssumption, BeatStep DEF BoundsAssumption, Beat!TypeOK
<1>1. ASSUME NEW p \in Peer, Beat!Tick
      PROVE  Beat!GetStatus(p)' = Beat!GetStatus(p) \/ Beat!GetStatus(p)' = "offline"
  <2>1. CASE Beat!Tracked(p) /\ ~Beat!Expired(p)
    <3>1. entries'[p] = [entries[p] EXCEPT !.age = @ + 1]
      BY <1>1, <2>1 DEF Beat!Tick
    <3>2. entries'[p].status = entries[p].status
      BY <1>0, <3>1
    <3> QED BY <2>1, <3>2 DEF Beat!GetStatus, Beat!Tracked
  <2>2. CASE ~(Beat!Tracked(p) /\ ~Beat!Expired(p))
    <3>1. entries'[p] = entries[p]
      BY <1>1, <2>2 DEF Beat!Tick
    <3> QED BY <3>1 DEF Beat!GetStatus, Beat!Tracked, Beat!Expired
  <2> QED BY <2>1, <2>2
<1>2. ASSUME NEW p \in Peer, Beat!Reap PROVE Beat!GetStatus(p)' = Beat!GetStatus(p)
  <2>1. CASE Beat!Tracked(p) /\ Beat!Expired(p)
    <3>1. entries'[p] = [entries[p] EXCEPT !.status = "offline"]
      BY <1>2, <2>1 DEF Beat!Reap
    <3>2. entries'[p].age = entries[p].age /\ entries'[p].status = "offline"
      BY <1>0, <3>1
    <3> QED BY <2>1, <3>2 DEF Beat!GetStatus, Beat!Tracked, Beat!Expired
  <2>2. CASE ~(Beat!Tracked(p) /\ Beat!Expired(p))
    <3>1. entries'[p] = entries[p]
      BY <1>2, <2>2 DEF Beat!Reap
    <3> QED BY <3>1 DEF Beat!GetStatus, Beat!Tracked, Beat!Expired
  <2> QED BY <2>1, <2>2
<1>3. ASSUME Beat!Stop PROVE entries' = entries
  BY <1>3 DEF Beat!Stop
<1>4. ASSUME NEW q \in Peer, NEW p \in Peer, Beat!RemoveAgent(q)
      PROVE  entries'[p] = entries[p] \/ entries'[p].age = 0
  BY <1>4 DEF Beat!RemoveAgent, Beat!TypeOK, Beat!Absent
<1>5. ASSUME NEW q \in Peer, NEW s \in Status, NEW p \in Peer, Beat!Heartbeat(q, s)
      PROVE  entries'[p] = entries[p] \/ entries'[p].age = 0
  BY <1>5 DEF Beat!Heartbeat, Beat!TypeOK
<1>6. ASSUME NEW q \in Peer, NEW s \in Status \cup {"offline"}, NEW p \in Peer,
             Beat!SetStatus(q, s), Beat!GetStatus(p)' # "offline", Beat!GetStatus(p) = "offline"
      PROVE  \/ entries'[p].age = 0
             \/ Beat!Tracked(p) /\ ~Beat!Expired(p) /\ entries'[p].age = entries[p].age
  <2>1. CASE p # q
    <3>1. entries'[p] = entries[p]
      BY <1>6, <2>1 DEF Beat!SetStatus, Beat!TypeOK
    <3> QED BY <1>6, <3>1 DEF Beat!GetStatus, Beat!Tracked, Beat!Expired
  <2>2. CASE p = q
    <3>1. entries'[p].age = IF Beat!Tracked(p) THEN entries[p].age ELSE 0
      BY <1>6, <2>2 DEF Beat!SetStatus, Beat!TypeOK
    <3>2. ~Beat!Expired(p)'
      BY <1>6 DEF Beat!GetStatus
    <3> QED BY <3>1, <3>2 DEF Beat!Expired
  <2> QED BY <2>1, <2>2
<1>7. ASSUME NEW p \in Peer, entries'[p] = entries[p] PROVE Beat!GetStatus(p)' = Beat!GetStatus(p)
  BY <1>7 DEF Beat!GetStatus, Beat!Tracked, Beat!Expired
<1> SUFFICES ASSUME NEW p \in Peer, Beat!GetStatus(p)' # "offline", Beat!GetStatus(p) = "offline"
             PROVE  \/ entries'[p].age = 0
                    \/ Beat!Tracked(p) /\ ~Beat!Expired(p) /\ entries'[p].age = entries[p].age
  BY <1>2
<1> QED BY <1>1, <1>2, <1>3, <1>4, <1>5, <1>6, <1>7 DEF Beat!Next

-----------------------------------------------------------------------------
(* Messenger *)

LEMMA TakenSame ==
  ASSUME answer' = answer, NEW r \in Request PROVE Msg!Taken(r)' = Msg!Taken(r)
BY DEF Msg!Taken

LEMMA TypedStep ==
  ASSUME MessengerInv, Msg!Next
  PROVE  /\ pendingReqs' \subseteq Request /\ replyCh' \subseteq Request
         /\ req' \in [Request -> {"none", "publish", "wait", "giveup", "done"}]
         /\ outcome' \in [Request -> {"none", "refused", "response", "timeout"}]
         /\ answer' \in [Msg!Completer -> Answer]
<1>1. ASSUME NEW r \in Request,
             \/ Msg!Refuse(r) \/ Msg!RequestAction(r) \/ Msg!Published(r) \/ Msg!Receive(r)
             \/ Msg!GiveUp(r) \/ Msg!Forget(r)
      PROVE  /\ pendingReqs' \subseteq Request /\ replyCh' \subseteq Request
             /\ req' \in [Request -> {"none", "publish", "wait", "giveup", "done"}]
             /\ outcome' \in [Request -> {"none", "refused", "response", "timeout"}]
             /\ answer' = answer
  BY <1>1 DEF Msg!Refuse, Msg!RequestAction, Msg!Published, Msg!Receive, Msg!GiveUp,
              Msg!Forget, MessengerInv
<1>2. ASSUME NEW c \in Msg!Completer, Msg!Deliver(c)
      PROVE  replyCh' \subseteq Request /\ answer' \in [Msg!Completer -> Answer]
             /\ UNCHANGED <<pendingReqs, req, outcome>>
  <2>1. answer[c] \in [pc : {"deliver"}, req : Request]
    BY <1>2 DEF Msg!Deliver, MessengerInv, Answer, Msg!Free
  <2>2. [pc |-> "over", req |-> answer[c].req, result |-> "ok"] \in Answer
    BY <2>1 DEF Answer
  <2> QED BY <1>2, <2>1, <2>2 DEF Msg!Deliver, MessengerInv
<1>3. ASSUME NEW c \in Msg!Completer, NEW r \in Request, Msg!Take(c, r) \/ Msg!Unknown(c, r)
      PROVE  pendingReqs' \subseteq Request /\ answer' \in [Msg!Completer -> Answer]
             /\ UNCHANGED <<replyCh, req, outcome>>
  <2>1. /\ [pc |-> "deliver", req |-> r] \in Answer
        /\ [pc |-> "over", req |-> r, result |-> "unknown"] \in Answer
    BY DEF Answer
  <2> QED BY <1>3, <2>1 DEF Msg!Take, Msg!Unknown, MessengerInv
<1> QED BY <1>1, <1>2, <1>3 DEF Msg!Next, Msg!Step, MessengerInv

LEMMA LimitStep ==
  ASSUME MessengerInv, Msg!Next PROVE Cardinality(pendingReqs') <= MaxPendingReqs
<1>1. IsFiniteSet(pendingReqs) /\ Cardinality(pendingReqs) \in Nat /\ MaxPendingReqs \in Nat
  BY AgentsAssumption, FS_Subset, FS_CardinalityType DEF BoundsAssumption, MessengerInv
<1>2. ASSUME NEW r \in Request, pendingReqs' = pendingReqs \cup {r},
             Cardinality(pendingReqs) < MaxPendingReqs
      PROVE  Cardinality(pendingReqs') <= MaxPendingReqs
  BY <1>1, <1>2, FS_AddElement
<1>3. ASSUME pendingReqs' \subseteq pendingReqs PROVE Cardinality(pendingReqs') <= MaxPendingReqs
  <2>1. Cardinality(pendingReqs') <= Cardinality(pendingReqs) /\ Cardinality(pendingReqs') \in Nat
    BY <1>1, <1>3, FS_Subset, FS_CardinalityType
  <2> QED BY <1>1, <2>1 DEF MessengerInv
<1>4. Msg!Cardinality(pendingReqs) = Cardinality(pendingReqs)
  BY DEF Msg!Cardinality, Cardinality
<1> QED
  BY <1>2, <1>3, <1>4 DEF Msg!Next, Msg!Step, Msg!Refuse, Msg!RequestAction, Msg!Published, Msg!Receive,
     Msg!GiveUp, Msg!Forget, Msg!Deliver, Msg!Take, Msg!Unknown

RequestOK(r) ==
  /\ \A c, d \in Msg!Taken(r) : c = d
  /\ r \in pendingReqs <=> req[r] \in {"publish", "wait", "giveup"} /\ Msg!Taken(r) = {}
  /\ req[r] = "none" => Msg!Taken(r) = {}
  /\ r \in replyCh \/ outcome[r] = "response" => Msg!Taken(r) # {}

LEMMA RequestStep == ASSUME MessengerInv, Msg!Next, NEW q \in Request PROVE RequestOK(q)'
<1>0. RequestOK(q)
  BY DEF MessengerInv, RequestOK
<1>1. ASSUME NEW r \in Request,
             \/ Msg!Refuse(r) \/ Msg!RequestAction(r) \/ Msg!Published(r) \/ Msg!Receive(r)
             \/ Msg!GiveUp(r) \/ Msg!Forget(r)
      PROVE  RequestOK(q)'
  <2>1. Msg!Taken(q)' = Msg!Taken(q)
    BY <1>1, TakenSame DEF Msg!Refuse, Msg!RequestAction, Msg!Published, Msg!Receive,
       Msg!GiveUp, Msg!Forget
  <2>2. CASE q # r
    <3>1. /\ req'[q] = req[q] /\ outcome'[q] = outcome[q]
          /\ q \in pendingReqs' <=> q \in pendingReqs
          /\ q \in replyCh' <=> q \in replyCh
      BY <1>1, <2>2 DEF Msg!Refuse, Msg!RequestAction, Msg!Published, Msg!Receive,
         Msg!GiveUp, Msg!Forget, MessengerInv
    <3> QED BY <1>0, <2>1, <3>1 DEF RequestOK
  <2>3. CASE q = r
    <3>1. CASE Msg!Refuse(r)
      <4>1. req[q] = "none" /\ req'[q] = "done" /\ outcome'[q] = "refused"
            /\ pendingReqs' = pendingReqs /\ replyCh' = replyCh
        BY <2>3, <3>1 DEF Msg!Refuse, MessengerInv
      <4> QED BY <1>0, <2>1, <4>1 DEF RequestOK
    <3>2. CASE Msg!RequestAction(r)
      <4>1. req[q] = "none" /\ req'[q] = "publish" /\ outcome' = outcome
            /\ q \in pendingReqs' /\ replyCh' = replyCh
        BY <2>3, <3>2 DEF Msg!RequestAction, MessengerInv
      <4> QED BY <1>0, <2>1, <4>1 DEF RequestOK
    <3>3. CASE Msg!Published(r) \/ Msg!GiveUp(r)
      <4>1. req[q] \in {"publish", "wait"} /\ req'[q] \in {"wait", "giveup"} /\ outcome' = outcome
            /\ pendingReqs' = pendingReqs /\ replyCh' = replyCh
        BY <2>3, <3>3 DEF Msg!Published, Msg!GiveUp, MessengerInv
      <4> QED BY <1>0, <2>1, <4>1 DEF RequestOK
    <3>4. CASE Msg!Receive(r)
      <4>1. req[q] = "wait" /\ req'[q] = "done" /\ q \in replyCh
            /\ pendingReqs' = pendingReqs /\ replyCh' \subseteq replyCh
        BY <2>3, <3>4 DEF Msg!Receive, MessengerInv
      <4> QED BY <1>0, <2>1, <4>1 DEF RequestOK
    <3>5. CASE Msg!Forget(r)
      <4>1. req[q] = "giveup" /\ req'[q] = "done" /\ outcome'[q] = "timeout"
            /\ q \notin pendingReqs' /\ replyCh' = replyCh
        BY <2>3, <3>5 DEF Msg!Forget, MessengerInv
      <4> QED BY <1>0, <2>1, <4>1 DEF RequestOK
    <3> QED BY <1>1, <3>1, <3>2, <3>3, <3>4, <3>5
  <2> QED BY <2>2, <2>3
<1>2. ASSUME NEW c \in Msg!Completer, Msg!Deliver(c) PROVE RequestOK(q)'
  <2>1. answer[c] \in [pc : {"deliver"}, req : Request]
    BY <1>2 DEF Msg!Deliver, MessengerInv, Answer, Msg!Free
  <2>2. answer'[c] = [pc |-> "over", req |-> answer[c].req, result |-> "ok"]
    BY <1>2 DEF Msg!Deliver, MessengerInv
  <2>3. \A d \in Msg!Completer : d # c => answer'[d] = answer[d]
    BY <1>2 DEF Msg!Deliver, MessengerInv
  <2>4. Msg!Taken(q)' = Msg!Taken(q)
    <3>1. ASSUME NEW d \in Msg!Completer PROVE d \in Msg!Taken(q)' <=> d \in Msg!Taken(q)
      BY <2>1, <2>2, <2>3 DEF Msg!Taken
    <3> QED BY <3>1 DEF Msg!Taken
  <2>5. req' = req /\ outcome' = outcome /\ pendingReqs' = pendingReqs
        /\ replyCh' = replyCh \cup {answer[c].req}
    BY <1>2 DEF Msg!Deliver
  <2>6. answer[c].req = q => c \in Msg!Taken(q)
    BY <1>2 DEF Msg!Taken, Msg!Deliver
  <2> QED BY <1>0, <2>4, <2>5, <2>6 DEF RequestOK
<1>3. ASSUME NEW c \in Msg!Completer, NEW r \in Request, Msg!Take(c, r) PROVE RequestOK(q)'
  <2>1. answer[c].pc = "free" /\ answer'[c] = [pc |-> "deliver", req |-> r]
    BY <1>3 DEF Msg!Take, Msg!MayAnswer, MessengerInv
  <2>2. \A d \in Msg!Completer : d # c => answer'[d] = answer[d]
    BY <1>3 DEF Msg!Take, MessengerInv
  <2>3. req' = req /\ outcome' = outcome /\ pendingReqs' = pendingReqs \ {r} /\ r \in pendingReqs
        /\ replyCh' = replyCh
    BY <1>3 DEF Msg!Take
  <2>4. CASE q # r
    <3>1. ASSUME NEW d \in Msg!Completer PROVE d \in Msg!Taken(q)' <=> d \in Msg!Taken(q)
      BY <2>1, <2>2, <2>4 DEF Msg!Taken
    <3>2. Msg!Taken(q)' = Msg!Taken(q)
      BY <3>1 DEF Msg!Taken
    <3> QED BY <1>0, <2>3, <2>4, <3>2 DEF RequestOK
  <2>5. CASE q = r
    <3>1. Msg!Taken(q) = {}
      BY <1>0, <2>3, <2>5 DEF RequestOK
    <3>2. ASSUME NEW d \in Msg!Completer PROVE d \in Msg!Taken(q)' <=> d = c
      BY <2>1, <2>2, <2>5, <3>1 DEF Msg!Taken
    <3>3. Msg!Taken(q)' = {c}
      BY <3>2 DEF Msg!Taken
    <3> QED BY <1>0, <2>3, <2>5, <3>3 DEF RequestOK
  <2> QED BY <2>4, <2>5
<1>4. ASSUME NEW c \in Msg!Completer, NEW r \in Request, Msg!Unknown(c, r) PROVE RequestOK(q)'
  <2>1. answer[c].pc = "free" /\ answer'[c] = [pc |-> "over", req |-> r, result |-> "unknown"]
    BY <1>4 DEF Msg!Unknown, Msg!MayAnswer, MessengerInv
  <2>2. \A d \in Msg!Completer : d # c => answer'[d] = answer[d]
    BY <1>4 DEF Msg!Unknown, MessengerInv
  <2>3. Msg!Taken(q)' = Msg!Taken(q)
    <3>1. ASSUME NEW d \in Msg!Completer PROVE d \in Msg!Taken(q)' <=> d \in Msg!Taken(q)
      BY <2>1, <2>2 DEF Msg!Taken
    <3> QED BY <3>1 DEF Msg!Taken
  <2>4. UNCHANGED <<req, outcome, pendingReqs, replyCh>>
    BY <1>4 DEF Msg!Unknown
  <2> QED BY <1>0, <2>3, <2>4 DEF RequestOK
<1> QED BY <1>1, <1>2, <1>3, <1>4 DEF Msg!Next, Msg!Step

LEMMA MessengerStep == ASSUME MessengerInv, Msg!Next PROVE MessengerInv'
<1>1. \A r \in Request : RequestOK(r)'
  BY RequestStep
<1> QED BY <1>1, TypedStep, LimitStep DEF MessengerInv, RequestOK

LEMMA MessengerInit == Msg!Init => MessengerInv
<1> SUFFICES ASSUME Msg!Init PROVE MessengerInv
  OBVIOUS
<1>1. Cardinality(pendingReqs) <= MaxPendingReqs
  BY AgentsAssumption, FS_EmptySet DEF BoundsAssumption, Msg!Init
<1>2. \A r \in Request : Msg!Taken(r) = {}
  BY DEF Msg!Init, Msg!Taken, Msg!Free
<1> QED BY <1>1, <1>2 DEF Msg!Init, MessengerInv, Answer

LEMMA MessengerKept == MessengerInv => Msg!TypeOK /\ Msg!RequestsExact
<1> SUFFICES ASSUME MessengerInv PROVE Msg!TypeOK /\ Msg!RequestsExact
  OBVIOUS
<1>1. \A c \in Msg!Completer : answer[c].pc \in {"free", "deliver", "over"}
  BY DEF MessengerInv, Answer, Msg!Free
<1>2. ASSUME NEW r \in Request PROVE Cardinality(Msg!Taken(r)) <= 1
  <2>1. CASE Msg!Taken(r) = {}
    BY <2>1, FS_EmptySet
  <2>2. CASE Msg!Taken(r) # {}
    <3>0. PICK c : c \in Msg!Taken(r)
      BY <2>2
    <3>1. Msg!Taken(r) = {c}
      BY <3>0 DEF MessengerInv
    <3>2. Cardinality({c}) = 1
      BY FS_Singleton
    <3> QED BY <3>1, <3>2
  <2> QED BY <2>1, <2>2
<1>3. \A S : Msg!Cardinality(S) = Cardinality(S)
  BY DEF Msg!Cardinality, Cardinality
<1> QED BY <1>1, <1>2, <1>3 DEF MessengerInv, Msg!TypeOK, Msg!RequestsExact

-----------------------------------------------------------------------------
(* WsHub.  The two bounds on envelopes do not matter: both parts take steps  *)
(* of Hub, which allows as many as both together.                            *)

LEMMA HubSteps ==
  ASSUME messages \in Nat PROVE Pair!Next \/ Single!Next => Hub!Next
<1>1. PairMessages \in Nat /\ SingleMessages \in Nat
  BY AgentsAssumption DEF BoundsAssumption
<1>2. /\ messages < PairMessages => messages < PairMessages + SingleMessages
      /\ messages < SingleMessages => messages < PairMessages + SingleMessages
  BY <1>1
<1>3. ASSUME Pair!Next PROVE Hub!Next
  <2>1. (\E to \in Pair!Targets : Pair!Post(to)) => \E to \in Hub!Targets : Hub!Post(to)
    BY <1>2 DEF Pair!Targets, Hub!Targets, Pair!Post, Hub!Post, Pair!Envelope, Hub!Envelope, Pair!pumps, Hub!pumps
  <2>2. \A c \in Client : Pair!ReadMessage(c) => Hub!ReadMessage(c)
    BY <1>2 DEF Pair!ReadMessage, Hub!ReadMessage, Pair!channels, Hub!channels
  <2>3. \A c \in Client : /\ Pair!Connect(c) => Hub!Connect(c)
                          /\ Pair!Forward(c) => Hub!Forward(c)
                          /\ Pair!ReadFails(c) => Hub!ReadFails(c)
                          /\ Pair!Leave(c) => Hub!Leave(c)
    BY DEF Pair!Connect, Hub!Connect, Pair!Forward, Hub!Forward, Pair!ReadFails, Hub!ReadFails,
           Pair!Leave, Hub!Leave, Pair!Envelope, Hub!Envelope, Pair!channels, Hub!channels
  <2>4. \A c \in Client : /\ Pair!Write(c) => Hub!Write(c)
                          /\ Pair!WriteFails(c) => Hub!WriteFails(c)
                          /\ Pair!WriterSeesClose(c) => Hub!WriterSeesClose(c)
    BY DEF Pair!Write, Hub!Write, Pair!WriteFails, Hub!WriteFails, Pair!WriterSeesClose,
           Hub!WriterSeesClose, Pair!WriterEnds, Hub!WriterEnds, Pair!channels, Hub!channels
  <2>5. /\ Pair!HubStep => Hub!HubStep
        /\ Pair!Stop => Hub!Stop
        /\ Pair!StopCloses => Hub!StopCloses
    BY DEF Pair!HubStep, Hub!HubStep, Pair!OnRegister, Hub!OnRegister, Pair!OnUnregister,
           Hub!OnUnregister, Pair!OnBroadcast, Hub!OnBroadcast, Pair!LoopEnds, Hub!LoopEnds,
           Pair!Stop, Hub!Stop, Pair!StopCloses, Hub!StopCloses, Pair!Running, Hub!Running,
           Pair!channels, Hub!channels, Pair!pumps, Hub!pumps
  <2> QED BY <1>3, <2>1, <2>2, <2>3, <2>4, <2>5 DEF Pair!Next, Hub!Next
<1>4. ASSUME Single!Next PROVE Hub!Next
  <2>1. (\E to \in Single!Targets : Single!Post(to)) => \E to \in Hub!Targets : Hub!Post(to)
    BY <1>2 DEF Single!Targets, Hub!Targets, Single!Post, Hub!Post, Single!Envelope, Hub!Envelope, Single!pumps, Hub!pumps
  <2>2. \A c \in Client : Single!ReadMessage(c) => Hub!ReadMessage(c)
    BY <1>2 DEF Single!ReadMessage, Hub!ReadMessage, Single!channels, Hub!channels
  <2>3. \A c \in Client : /\ Single!Connect(c) => Hub!Connect(c)
                          /\ Single!Forward(c) => Hub!Forward(c)
                          /\ Single!ReadFails(c) => Hub!ReadFails(c)
                          /\ Single!Leave(c) => Hub!Leave(c)
    BY DEF Single!Connect, Hub!Connect, Single!Forward, Hub!Forward, Single!ReadFails, Hub!ReadFails,
           Single!Leave, Hub!Leave, Single!Envelope, Hub!Envelope, Single!channels, Hub!channels
  <2>4. \A c \in Client : /\ Single!Write(c) => Hub!Write(c)
                          /\ Single!WriteFails(c) => Hub!WriteFails(c)
                          /\ Single!WriterSeesClose(c) => Hub!WriterSeesClose(c)
    BY DEF Single!Write, Hub!Write, Single!WriteFails, Hub!WriteFails, Single!WriterSeesClose,
           Hub!WriterSeesClose, Single!WriterEnds, Hub!WriterEnds, Single!channels, Hub!channels
  <2>5. /\ Single!HubStep => Hub!HubStep
        /\ Single!Stop => Hub!Stop
        /\ Single!StopCloses => Hub!StopCloses
    BY DEF Single!HubStep, Hub!HubStep, Single!OnRegister, Hub!OnRegister, Single!OnUnregister,
           Hub!OnUnregister, Single!OnBroadcast, Hub!OnBroadcast, Single!LoopEnds, Hub!LoopEnds,
           Single!Stop, Hub!Stop, Single!StopCloses, Hub!StopCloses, Single!Running, Hub!Running,
           Single!channels, Hub!channels, Single!pumps, Hub!pumps
  <2> QED BY <1>4, <2>1, <2>2, <2>3, <2>4, <2>5 DEF Single!Next, Hub!Next
<1> QED BY <1>3, <1>4

LEMMA TailOf ==
  ASSUME NEW S, NEW q \in Seq(S), q # << >>
  PROVE  /\ Tail(q) \in Seq(S) /\ Head(q) = q[1] /\ q[1] \in S /\ 1 \in DOMAIN q
         /\ Len(Tail(q)) = Len(q) - 1 /\ Len(q) \in Nat
         /\ \A k \in DOMAIN Tail(q) : k + 1 \in DOMAIN q /\ Tail(q)[k] = q[k + 1]
OBVIOUS

LEMMA AppendOf ==
  ASSUME NEW S, NEW q \in Seq(S), NEW x \in S
  PROVE  /\ Append(q, x) \in Seq(S) /\ Len(q) \in Nat /\ Len(Append(q, x)) = Len(q) + 1
         /\ DOMAIN Append(q, x) = 1..(Len(q) + 1) /\ DOMAIN q = 1..Len(q)
         /\ \A k \in 1..Len(q) : Append(q, x)[k] = q[k]
         /\ Append(q, x)[Len(q) + 1] = x
OBVIOUS

\* Who enters the set, whose connection is made and what is sent have their
\* types, in every step.
LEMMA CapsNat ==
  {RegisterCap, BroadcastCap, SendCap} \subseteq Nat
BY AgentsAssumption DEF BoundsAssumption

LEMMA HubDataStep == ASSUME HubData, Hub!Next PROVE HubData'
<1> DEFINE Packet == [no : Nat, to : SUBSET Client]
<1>0. /\ Len(register) \in Nat /\ Len(unregister) \in Nat /\ Len(broadcast) \in Nat
      /\ messages + 1 \in Nat
  BY DEF HubData
<1>1. ASSUME NEW c \in Client, Hub!Connect(c) PROVE HubData'
  <2>1. register' \in Seq(Client) /\ Len(register') = Len(register) + 1
    BY <1>1, AppendOf DEF Hub!Connect, HubData
  <2> QED BY <1>0, <1>1, <2>1, CapsNat DEF Hub!Connect, HubData
<1>2. ASSUME NEW c \in Client, Hub!ReadMessage(c) \/ Hub!ReadFails(c) PROVE HubData'
  BY <1>2 DEF Hub!ReadMessage, Hub!ReadFails, Hub!channels, HubData
<1>3. ASSUME NEW to \in SUBSET Client, broadcast' = Append(broadcast, Hub!Envelope(messages', to)),
             messages' = messages + 1, Len(broadcast) < BroadcastCap
      PROVE  /\ broadcast' \in Seq(Packet) /\ Len(broadcast') <= BroadcastCap
             /\ messages' \in Nat
  <2>1. Hub!Envelope(messages', to) \in Packet
    BY <1>0, <1>3 DEF Hub!Envelope
  <2>2. broadcast \in Seq(Packet)
    BY DEF HubData
  <2>3. broadcast' \in Seq(Packet) /\ Len(broadcast') = Len(broadcast) + 1
    BY <1>3, <2>1, <2>2, AppendOf
  <2> QED BY <1>0, <1>3, <2>3, CapsNat
<1>4. ASSUME NEW to \in Hub!Targets, Hub!Post(to) PROVE HubData'
  <2>1. to \in SUBSET Client
    BY <1>4 DEF Hub!Targets
  <2> QED BY <1>3, <1>4, <2>1 DEF Hub!Post, Hub!pumps, HubData
<1>5. ASSUME NEW c \in Client, Hub!Forward(c) PROVE HubData'
  BY <1>3, <1>5 DEF Hub!Forward, HubData
<1>6. ASSUME NEW c \in Client, Hub!Leave(c) PROVE HubData'
  <2>1. unregister' \in Seq(Client) /\ Len(unregister') = Len(unregister) + 1
    BY <1>6, AppendOf DEF Hub!Leave, HubData
  <2> QED BY <1>0, <1>6, <2>1, CapsNat DEF Hub!Leave, HubData
<1>7. ASSUME NEW c \in Client, Hub!Write(c) PROVE HubData'
  <2>1. << >> \in Seq(Nat) /\ Len(<< >>) = 0 /\ written[c] \o send[c] \in Seq(Nat)
    BY DEF HubData
  <2>2. send' \in [Client -> Seq(Nat)] /\ \A d \in Client : Len(send'[d]) <= SendCap
    BY <1>7, <2>1, CapsNat DEF Hub!Write, HubData
  <2>3. written' \in [Client -> Seq(Nat)]
    BY <1>7, <2>1 DEF Hub!Write, HubData
  <2> QED BY <1>7, <2>2, <2>3 DEF Hub!Write, Hub!WriterEnds, Hub!channels, HubData
<1>8. ASSUME NEW c \in Client, Hub!WriteFails(c) \/ Hub!WriterSeesClose(c) PROVE HubData'
  BY <1>8 DEF Hub!WriteFails, Hub!WriterSeesClose, Hub!WriterEnds, Hub!channels, HubData
<1>9. CASE Hub!OnRegister
  <2>1. register' \in Seq(Client) /\ Len(register') = Len(register) - 1 /\ Head(register) \in Client
    BY <1>9, TailOf DEF Hub!OnRegister, HubData
  <2> QED BY <1>0, <1>9, <2>1, CapsNat DEF Hub!OnRegister, Hub!pumps, HubData
<1>10. CASE Hub!OnUnregister
  <2>1. unregister' \in Seq(Client) /\ Len(unregister') = Len(unregister) - 1
    BY <1>10, TailOf DEF Hub!OnUnregister, HubData
  <2> QED BY <1>0, <1>10, <2>1, CapsNat DEF Hub!OnUnregister, Hub!pumps, HubData
<1>11. CASE Hub!OnBroadcast
  <2>1. broadcast \in Seq(Packet) /\ broadcast # << >>
    BY <1>11 DEF Hub!OnBroadcast, HubData
  <2> HIDE DEF Packet
  <2>a. Tail(broadcast) \in Seq(Packet) /\ Len(Tail(broadcast)) = Len(broadcast) - 1
        /\ Head(broadcast) \in Packet
    BY <2>1, TailOf
  <2> USE DEF Packet
  <2>2. broadcast' \in Seq(Packet) /\ Len(broadcast') = Len(broadcast) - 1
        /\ Head(broadcast).no \in Nat
    BY <1>11, <2>a DEF Hub!OnBroadcast
  <2>3. \A c \in Client : Len(send[c]) < SendCap =>
          /\ Append(send[c], Head(broadcast).no) \in Seq(Nat)
          /\ Len(Append(send[c], Head(broadcast).no)) <= SendCap
    BY <2>2, AppendOf, CapsNat DEF HubData
  <2>4. send' \in [Client -> Seq(Nat)] /\ \A c \in Client : Len(send'[c]) <= SendCap
    <3>1. send \in [Client -> Seq(Nat)] /\ \A c \in Client : Len(send[c]) <= SendCap
      BY DEF HubData
    <3>2. CASE send' = send
      BY <3>1, <3>2
    <3>3. CASE send' # send
      <4>1. PICK hit \in SUBSET Client : send' = [c \in Client |->
              IF c \in hit /\ Len(send[c]) < SendCap THEN Append(send[c], Head(broadcast).no) ELSE send[c]]
        BY <1>11, <3>3 DEF Hub!OnBroadcast, HubData
      <4> QED BY <2>3, <3>1, <4>1
    <3> QED BY <3>2, <3>3
  <2>5. panicked' \in BOOLEAN
    BY <1>11 DEF Hub!OnBroadcast, HubData
  <2> QED BY <1>0, <1>11, <2>2, <2>4, <2>5, CapsNat DEF Hub!OnBroadcast, Hub!pumps, HubData
<1>12. CASE Hub!LoopEnds \/ Hub!Stop \/ Hub!StopCloses
  BY <1>12 DEF Hub!LoopEnds, Hub!Stop, Hub!StopCloses, Hub!channels, Hub!pumps, HubData
<1> QED BY <1>1, <1>2, <1>4, <1>5, <1>6, <1>7, <1>8, <1>9, <1>10, <1>11, <1>12 DEF Hub!Next, Hub!HubStep

\* But for the two that let a client in, steps only move clients on.
LEMMA EntersSame ==
  ASSUME HubData, EntersOnce, register' = register,
         clients' \cup closed' \subseteq clients \cup closed,
         \A c \in Client : reader[c] # "none" => reader'[c] # "none"
  PROVE  EntersOnce'
<1>1. \A k \in DOMAIN register : register[k] \in Client
  BY DEF HubData
<1> QED BY <1>1 DEF EntersOnce, HubData

LEMMA EntersStep ==
  ASSUME HubData, EntersOnce, Hub!Next PROVE EntersOnce'
<1>1. ASSUME NEW c \in Client, Hub!Connect(c) PROVE EntersOnce'
  <2>1. /\ DOMAIN register' = 1..(Len(register) + 1) /\ DOMAIN register = 1..Len(register)
        /\ \A k \in 1..Len(register) : register'[k] = register[k] /\ register[k] \in Client
        /\ register'[Len(register) + 1] = c /\ Len(register) \in Nat
    BY <1>1, AppendOf DEF Hub!Connect, HubData
  <2>2. \A d \in Client : reader'[d] # "none" <=> (d = c \/ reader[d] # "none")
    BY <1>1 DEF Hub!Connect, HubData
  <2>3. c \notin clients \cup closed /\ \A k \in DOMAIN register : register[k] # c
    BY <1>1 DEF Hub!Connect, EntersOnce
  <2>4. clients' = clients /\ closed' = closed
    BY <1>1 DEF Hub!Connect
  <2>5. \A k \in DOMAIN register' : k = Len(register) + 1 \/ k \in DOMAIN register
    BY <2>1
  <2>6. clients \cup closed \subseteq Client
    BY DEF HubData
  <2> QED BY <1>1, <2>1, <2>2, <2>3, <2>4, <2>5, <2>6 DEF EntersOnce
<1>2. CASE Hub!OnRegister
  <2>1. /\ 1 \in DOMAIN register /\ Head(register) = register[1]
        /\ \A k \in DOMAIN register' : k + 1 \in DOMAIN register /\ register'[k] = register[k + 1]
        /\ DOMAIN register' \subseteq Nat
    BY <1>2, TailOf DEF Hub!OnRegister, HubData
  <2>2. clients' = clients \cup {register[1]} /\ closed' = closed /\ reader' = reader
    BY <1>2, <2>1 DEF Hub!OnRegister, Hub!pumps
  <2>3. \A k \in DOMAIN register' : register[k + 1] # register[1] /\ k + 1 # 1
    <3> SUFFICES ASSUME NEW k \in DOMAIN register' PROVE register[k + 1] # register[1] /\ k + 1 # 1
      OBVIOUS
    <3>1. k \in Nat /\ k >= 1
      BY <1>2, TailOf DEF Hub!OnRegister, HubData
    <3> QED BY <3>1, <2>1 DEF EntersOnce
  <2>4. \A k, m \in DOMAIN register' : register'[k] = register'[m] => k = m
    BY <2>1 DEF EntersOnce
  <2> QED BY <2>1, <2>2, <2>3, <2>4 DEF EntersOnce
<1>3. CASE Hub!OnUnregister
  BY <1>3, EntersSame DEF Hub!OnUnregister, Hub!pumps
<1>4. CASE Hub!OnBroadcast \/ Hub!LoopEnds \/ Hub!Stop \/ Hub!StopCloses
  BY <1>4, EntersSame DEF Hub!OnBroadcast, Hub!LoopEnds, Hub!Stop, Hub!StopCloses,
     Hub!channels, Hub!pumps
<1>5. ASSUME NEW to \in Hub!Targets, Hub!Post(to) PROVE EntersOnce'
  BY <1>5, EntersSame DEF Hub!Post, Hub!pumps
<1>6. ASSUME NEW c \in Client,
             \/ Hub!ReadMessage(c) \/ Hub!Forward(c) \/ Hub!ReadFails(c) \/ Hub!Leave(c)
      PROVE  EntersOnce'
  <2>1. \A d \in Client : reader[d] # "none" => reader'[d] # "none"
    BY <1>6 DEF Hub!ReadMessage, Hub!Forward, Hub!ReadFails, Hub!Leave, HubData
  <2>2. register' = register /\ clients' = clients /\ closed' = closed
    BY <1>6 DEF Hub!ReadMessage, Hub!Forward, Hub!ReadFails, Hub!Leave, Hub!channels
  <2> QED BY <2>1, <2>2, EntersSame
<1>7. ASSUME NEW c \in Client, Hub!Write(c) \/ Hub!WriteFails(c) \/ Hub!WriterSeesClose(c)
      PROVE  EntersOnce'
  BY <1>7, EntersSame DEF Hub!Write, Hub!WriteFails, Hub!WriterSeesClose, Hub!channels
<1> QED BY <1>1, <1>2, <1>3, <1>4, <1>5, <1>6, <1>7 DEF Hub!Next, Hub!HubStep

LEMMA PanicStep ==
  ASSUME HubData, EntersOnce, Hub!PanicOnlyAfterStop, Hub!Next
  PROVE  Hub!PanicOnlyAfterStop'
<1>1. CASE Hub!OnRegister
  <2>1. Head(register) \notin closed
    BY <1>1, TailOf DEF Hub!OnRegister, HubData, EntersOnce
  <2> QED BY <1>1, <2>1 DEF Hub!OnRegister, Hub!PanicOnlyAfterStop
<1>2. CASE Hub!OnUnregister
  BY <1>2 DEF Hub!OnUnregister, Hub!PanicOnlyAfterStop
<1>3. CASE Hub!OnBroadcast
  BY <1>3 DEF Hub!OnBroadcast, Hub!PanicOnlyAfterStop
<1>4. CASE Hub!LoopEnds \/ Hub!Stop \/ Hub!StopCloses
  BY <1>4 DEF Hub!LoopEnds, Hub!Stop, Hub!StopCloses, Hub!PanicOnlyAfterStop
<1>5. ASSUME NEW to \in Hub!Targets, Hub!Post(to) PROVE Hub!PanicOnlyAfterStop'
  BY <1>5 DEF Hub!Post, Hub!PanicOnlyAfterStop
<1>6. ASSUME NEW c \in Client,
             \/ Hub!Connect(c) \/ Hub!ReadMessage(c) \/ Hub!Forward(c) \/ Hub!ReadFails(c)
             \/ Hub!Leave(c) \/ Hub!Write(c) \/ Hub!WriteFails(c) \/ Hub!WriterSeesClose(c)
      PROVE  Hub!PanicOnlyAfterStop'
  <2>1. UNCHANGED <<clients, closed, stopping, panicked>>
    BY <1>6 DEF Hub!Connect, Hub!ReadMessage, Hub!Forward, Hub!ReadFails, Hub!Leave, Hub!Write,
       Hub!WriteFails, Hub!WriterSeesClose
  <2> QED BY <2>1 DEF Hub!PanicOnlyAfterStop
<1> QED BY <1>1, <1>2, <1>3, <1>4, <1>5, <1>6 DEF Hub!Next, Hub!HubStep

\* Nothing is numbered anew, nor moves backwards.
LEMMA NumberedSame ==
  ASSUME HubData, Numbered, UNCHANGED <<broadcast, messages, send, written>> PROVE Numbered'
BY DEF Numbered

LEMMA PostNumbers ==
  ASSUME HubData, Numbered, NEW to \in SUBSET Client,
         broadcast' = Append(broadcast, Hub!Envelope(messages', to)),
         messages' = messages + 1, UNCHANGED <<send, written>>
  PROVE  Numbered'
<1> DEFINE Packet == [no : Nat, to : SUBSET Client]
           x == Hub!Envelope(messages', to)
           n == Len(broadcast)
<1>0. messages \in Nat /\ broadcast \in Seq(Packet)
      /\ send \in [Client -> Seq(Nat)] /\ written \in [Client -> Seq(Nat)]
  BY DEF HubData
<1>1. x \in Packet /\ x.no = messages + 1
  BY <1>0 DEF Hub!Envelope
<1> HIDE DEF x, Packet
<1>2. /\ n \in Nat /\ DOMAIN broadcast' = 1..(n + 1) /\ DOMAIN broadcast = 1..n
      /\ \A k \in 1..n : broadcast'[k] = broadcast[k]
      /\ broadcast'[n + 1] = x
  BY <1>0, <1>1, AppendOf DEF x
<1>3. \A k \in 1..n : broadcast[k].no \in Nat
  <2>1. \A k \in 1..n : broadcast[k] \in Packet
    BY <1>0, <1>2
  <2> QED BY <2>1 DEF Packet
<1> HIDE DEF n
<1>4. \A k \in 1..(n + 1) : k \in 1..n \/ k = n + 1
  BY <1>2
<1>5. \A k \in 1..n : broadcast'[k].no <= messages /\ broadcast'[k].no \in Nat
  BY <1>2, <1>3 DEF Numbered
<1>6. broadcast'[n + 1].no = messages + 1
  BY <1>1, <1>2
<1>7. \A k \in DOMAIN broadcast' : broadcast'[k].no <= messages'
  BY <1>0, <1>2, <1>4, <1>5, <1>6
<1>8. ASSUME NEW k \in DOMAIN broadcast', NEW m \in DOMAIN broadcast', k < m
      PROVE  broadcast'[k].no < broadcast'[m].no
  <2>1. k \in 1..n /\ broadcast'[k].no <= messages
    BY <1>2, <1>4, <1>5, <1>8
  <2>2. CASE m \in 1..n
    BY <1>2, <1>8, <2>1, <2>2 DEF Numbered
  <2>3. CASE m = n + 1
    BY <1>0, <1>5, <1>6, <2>1, <2>3
  <2> QED BY <1>2, <1>4, <2>2, <2>3
<1>9. ASSUME NEW c \in Client
      PROVE  /\ \A a \in DOMAIN send[c] : send[c][a] <= messages' /\ send[c][a] \in Nat
             /\ \A a \in DOMAIN written[c] : written[c][a] <= messages' /\ written[c][a] \in Nat
             /\ \A a \in DOMAIN send[c] : send[c][a] < messages + 1
             /\ \A a \in DOMAIN written[c] : written[c][a] < messages + 1
  <2>1. \A a \in DOMAIN send[c] : send[c][a] <= messages /\ send[c][a] \in Nat
    BY <1>0 DEF Numbered
  <2>2. \A a \in DOMAIN written[c] : written[c][a] <= messages /\ written[c][a] \in Nat
    BY <1>0 DEF Numbered
  <2> QED BY <1>0, <2>1, <2>2
<1>10. ASSUME NEW c \in Client, NEW k \in DOMAIN broadcast'
       PROVE  /\ \A a \in DOMAIN send[c] : send[c][a] < broadcast'[k].no
              /\ \A a \in DOMAIN written[c] : written[c][a] < broadcast'[k].no
  <2>1. CASE k \in 1..n
    BY <1>2, <2>1 DEF Numbered
  <2>2. CASE k = n + 1
    BY <1>6, <1>9, <2>2
  <2> QED BY <1>2, <1>4, <2>1, <2>2
<1> QED BY <1>7, <1>8, <1>9, <1>10 DEF Numbered

\* A served envelope goes behind everything on its way to a client.
LEMMA BroadcastNumbers == ASSUME HubData, Numbered, Hub!OnBroadcast PROVE Numbered'
<1> DEFINE Packet == [no : Nat, to : SUBSET Client]
           no == Head(broadcast).no
<1>0. /\ messages \in Nat /\ broadcast \in Seq(Packet) /\ broadcast # << >>
      /\ send \in [Client -> Seq(Nat)] /\ written \in [Client -> Seq(Nat)]
      /\ broadcast' = Tail(broadcast) /\ written' = written /\ messages' = messages
  BY DEF HubData, Hub!OnBroadcast, Hub!pumps
<1> HIDE DEF Packet
<1>1. /\ Head(broadcast) = broadcast[1] /\ broadcast[1] \in Packet /\ 1 \in DOMAIN broadcast
      /\ \A k \in DOMAIN broadcast' : k + 1 \in DOMAIN broadcast /\ broadcast'[k] = broadcast[k + 1]
      /\ broadcast' \in Seq(Packet)
  BY <1>0, TailOf
<1>2. no \in Nat /\ no <= messages /\ no = broadcast[1].no
  BY <1>1 DEF Packet, Numbered
<1>3. \A k \in DOMAIN broadcast' : k \in Nat /\ k >= 1 /\ broadcast'[k].no \in Nat
  <2>1. \A k \in DOMAIN broadcast' : k \in Nat /\ k >= 1 /\ broadcast'[k] \in Packet
    BY <1>1
  <2> QED BY <2>1 DEF Packet
<1>4. \A k \in DOMAIN broadcast' : no < broadcast'[k].no /\ broadcast'[k].no <= messages'
  <2> SUFFICES ASSUME NEW k \in DOMAIN broadcast'
               PROVE  no < broadcast'[k].no /\ broadcast'[k].no <= messages'
    OBVIOUS
  <2>1. 1 < k + 1
    BY <1>3
  <2> QED BY <1>0, <1>1, <1>2, <2>1 DEF Numbered
<1>5. \A k, m \in DOMAIN broadcast' : k < m => broadcast'[k].no < broadcast'[m].no
  <2> SUFFICES ASSUME NEW k \in DOMAIN broadcast', NEW m \in DOMAIN broadcast', k < m
               PROVE  broadcast'[k].no < broadcast'[m].no
    OBVIOUS
  <2>1. k + 1 < m + 1
    BY <1>3
  <2> QED BY <1>1, <2>1 DEF Numbered
<1> HIDE DEF no
<1>6. ASSUME NEW c \in Client
      PROVE  /\ \A a, b \in DOMAIN send'[c] : a < b => send'[c][a] < send'[c][b]
             /\ \A a \in DOMAIN written[c], b \in DOMAIN send'[c] : written[c][a] < send'[c][b]
             /\ \A a \in DOMAIN send'[c] : send'[c][a] <= messages
             /\ \A k \in DOMAIN broadcast', a \in DOMAIN send'[c] : send'[c][a] < broadcast'[k].no
  <2>0. /\ send[c] \in Seq(Nat)
        /\ \A a \in DOMAIN send[c] : send[c][a] < no /\ send[c][a] \in Nat
        /\ \A a \in DOMAIN written[c] : written[c][a] < no
    BY <1>0, <1>1, <1>2 DEF Numbered
  <2>1. send'[c] = send[c] \/ send'[c] = Append(send[c], no)
    BY <1>0 DEF Hub!OnBroadcast, no
  <2>2. CASE send'[c] = send[c]
    BY <1>0, <1>1, <2>0, <2>2 DEF Numbered
  <2>3. CASE send'[c] = Append(send[c], no)
    <3> DEFINE n == Len(send[c])
    <3>1. /\ DOMAIN send'[c] = 1..(n + 1) /\ DOMAIN send[c] = 1..n /\ n \in Nat
          /\ \A a \in 1..n : send'[c][a] = send[c][a]
          /\ send'[c][n + 1] = no
      BY <1>2, <2>0, <2>3, AppendOf
    <3> HIDE DEF n
    <3>2. \A a \in 1..(n + 1) : a \in 1..n \/ a = n + 1
      BY <3>1
    <3>3. ASSUME NEW a \in DOMAIN send'[c], NEW b \in DOMAIN send'[c], a < b
          PROVE  send'[c][a] < send'[c][b]
      <4>1. a \in 1..n
        BY <3>1, <3>3
      <4> QED BY <2>0, <3>1, <3>2, <3>3, <4>1 DEF Numbered
    <3>4. \A a \in DOMAIN written[c], b \in DOMAIN send'[c] : written[c][a] < send'[c][b]
      BY <2>0, <3>1, <3>2 DEF Numbered
    <3>5. ASSUME NEW a \in DOMAIN send'[c] PROVE send'[c][a] <= no /\ send'[c][a] \in Nat
      <4>1. CASE a \in 1..n
        <5>1. send'[c][a] = send[c][a] /\ a \in DOMAIN send[c]
          BY <3>1, <4>1
        <5>2. send[c][a] \in Nat /\ send[c][a] <= no
          BY <1>2, <2>0, <5>1
        <5> QED BY <5>1, <5>2
      <4>2. CASE a = n + 1
        BY <1>2, <3>1, <4>2
      <4> QED BY <3>1, <3>2, <3>5, <4>1, <4>2
    <3>6. \A a \in DOMAIN send'[c] : send'[c][a] <= messages
      BY <1>0, <1>2, <3>5
    <3>7. \A k \in DOMAIN broadcast', a \in DOMAIN send'[c] : send'[c][a] < broadcast'[k].no
      BY <1>2, <1>3, <1>4, <3>5
    <3> QED BY <3>3, <3>4, <3>6, <3>7
  <2> QED BY <2>1, <2>2, <2>3
<1>7. ASSUME NEW c \in Client
      PROVE  /\ \A a, b \in DOMAIN written[c] : a < b => written[c][a] < written[c][b]
             /\ \A a \in DOMAIN written[c] : written[c][a] <= messages
             /\ \A k \in DOMAIN broadcast', a \in DOMAIN written[c] : written[c][a] < broadcast'[k].no
  BY <1>1 DEF Numbered
<1> QED BY <1>0, <1>4, <1>5, <1>6, <1>7 DEF Numbered

\* What was queued is behind what was written.
LEMMA ConcatOf ==
  ASSUME NEW u \in Seq(Nat), NEW v \in Seq(Nat)
  PROVE  /\ Len(u) \in Nat /\ Len(v) \in Nat /\ DOMAIN u = 1..Len(u) /\ DOMAIN v = 1..Len(v)
         /\ DOMAIN (u \o v) = 1..(Len(u) + Len(v))
         /\ \A a \in 1..(Len(u) + Len(v)) :
              \/ a \in 1..Len(u) /\ (u \o v)[a] = u[a]
              \/ a - Len(u) \in 1..Len(v) /\ (u \o v)[a] = v[a - Len(u)]
OBVIOUS

LEMMA OneLine ==
  ASSUME NEW u \in Seq(Nat), NEW v \in Seq(Nat),
         \A a, b \in DOMAIN u : a < b => u[a] < u[b],
         \A a, b \in DOMAIN v : a < b => v[a] < v[b],
         \A a \in DOMAIN u, b \in DOMAIN v : u[a] < v[b]
  PROVE  \A a, b \in DOMAIN (u \o v) : a < b => (u \o v)[a] < (u \o v)[b]
<1> DEFINE w == u \o v
<1>0. /\ Len(u) \in Nat /\ Len(v) \in Nat /\ DOMAIN u = 1..Len(u) /\ DOMAIN v = 1..Len(v)
      /\ DOMAIN w = 1..(Len(u) + Len(v))
      /\ \A a \in 1..(Len(u) + Len(v)) :
              \/ a \in 1..Len(u) /\ w[a] = u[a]
              \/ a - Len(u) \in 1..Len(v) /\ w[a] = v[a - Len(u)]
  BY ConcatOf
<1> HIDE DEF w
<1> SUFFICES ASSUME NEW a \in DOMAIN w, NEW b \in DOMAIN w, a < b PROVE w[a] < w[b]
  BY DEF w
<1>1. CASE a \in 1..Len(u) /\ w[a] = u[a] /\ b \in 1..Len(u) /\ w[b] = u[b]
  BY <1>0, <1>1
<1>2. CASE a \in 1..Len(u) /\ w[a] = u[a] /\ b - Len(u) \in 1..Len(v) /\ w[b] = v[b - Len(u)]
  BY <1>0, <1>2
<1>3. CASE a - Len(u) \in 1..Len(v) /\ w[a] = v[a - Len(u)] /\ b - Len(u) \in 1..Len(v) /\ w[b] = v[b - Len(u)]
  <2>1. a - Len(u) < b - Len(u)
    BY <1>0
  <2> QED BY <1>0, <1>3, <2>1
<1>4. CASE a - Len(u) \in 1..Len(v) /\ b \in 1..Len(u)
  BY <1>0, <1>4
<1> QED BY <1>0, <1>1, <1>2, <1>3, <1>4

LEMMA WriteNumbers ==
  ASSUME HubData, Numbered, NEW c \in Client, Hub!Write(c) PROVE Numbered'
<1> DEFINE w == written[c] \o send[c]
<1>0. /\ send \in [Client -> Seq(Nat)] /\ written \in [Client -> Seq(Nat)]
      /\ broadcast' = broadcast /\ messages' = messages
      /\ written[c] \in Seq(Nat) /\ send[c] \in Seq(Nat)
  BY DEF HubData, Hub!Write, Hub!channels
<1>1. \A a, b \in DOMAIN w : a < b => w[a] < w[b]
  BY <1>0, OneLine DEF Numbered
<1>2. \A a \in DOMAIN w : \/ \E k \in DOMAIN written[c] : w[a] = written[c][k]
                          \/ \E k \in DOMAIN send[c] : w[a] = send[c][k]
  <2>1. /\ DOMAIN written[c] = 1..Len(written[c]) /\ DOMAIN send[c] = 1..Len(send[c])
        /\ DOMAIN w = 1..(Len(written[c]) + Len(send[c]))
        /\ \A a \in 1..(Len(written[c]) + Len(send[c])) :
             \/ a \in 1..Len(written[c]) /\ w[a] = written[c][a]
             \/ a - Len(written[c]) \in 1..Len(send[c]) /\ w[a] = send[c][a - Len(written[c])]
    BY <1>0, ConcatOf
  <2> HIDE DEF w
  <2> QED BY <2>1
<1> HIDE DEF w
<1>3. \A a \in DOMAIN w : w[a] <= messages /\ \A k \in DOMAIN broadcast : w[a] < broadcast[k].no
  BY <1>2 DEF Numbered
<1>4. send' = [send EXCEPT ![c] = << >>] /\ (written' = written \/ written' = [written EXCEPT ![c] = w])
  BY DEF Hub!Write, w
<1>5. DOMAIN << >> = {}
  OBVIOUS
<1> DEFINE Line(d) ==
       /\ \A a, b \in DOMAIN send'[d] : a < b => send'[d][a] < send'[d][b]
       /\ \A a, b \in DOMAIN written'[d] : a < b => written'[d][a] < written'[d][b]
       /\ \A a \in DOMAIN written'[d], b \in DOMAIN send'[d] : written'[d][a] < send'[d][b]
       /\ \A a \in DOMAIN send'[d] : send'[d][a] <= messages
       /\ \A a \in DOMAIN written'[d] : written'[d][a] <= messages
       /\ \A k \in DOMAIN broadcast :
            /\ \A a \in DOMAIN send'[d] : send'[d][a] < broadcast[k].no
            /\ \A a \in DOMAIN written'[d] : written'[d][a] < broadcast[k].no
<1>6. ASSUME NEW d \in Client, d # c PROVE Line(d)
  <2>1. send'[d] = send[d] /\ written'[d] = written[d]
    BY <1>0, <1>4, <1>6
  <2> QED BY <2>1 DEF Numbered
<1>7. Line(c)
  <2>1. send'[c] = << >> /\ (written'[c] = written[c] \/ written'[c] = w)
    BY <1>0, <1>4
  <2>2. CASE written'[c] = written[c]
    BY <1>5, <2>1, <2>2 DEF Numbered
  <2>3. CASE written'[c] = w
    BY <1>1, <1>3, <1>5, <2>1, <2>3
  <2> QED BY <2>1, <2>2, <2>3
<1>8. \A d \in Client : Line(d)
  BY <1>6, <1>7
<1> QED BY <1>0, <1>8 DEF Numbered

LEMMA NumberedStep == ASSUME HubData, Numbered, Hub!Next PROVE Numbered'
<1>1. ASSUME NEW to \in Hub!Targets, Hub!Post(to) PROVE Numbered'
  <2>1. to \in SUBSET Client
    BY DEF Hub!Targets
  <2>2. /\ broadcast' = Append(broadcast, Hub!Envelope(messages', to))
        /\ messages' = messages + 1 /\ send' = send /\ written' = written
    BY <1>1 DEF Hub!Post, Hub!pumps
  <2> QED BY <2>1, <2>2, PostNumbers
<1>2. ASSUME NEW c \in Client, Hub!Forward(c) PROVE Numbered'
  <2>1. /\ broadcast' = Append(broadcast, Hub!Envelope(messages', Client))
        /\ messages' = messages + 1 /\ send' = send /\ written' = written
    BY <1>2 DEF Hub!Forward
  <2> QED BY <2>1, PostNumbers
<1>3. ASSUME NEW c \in Client,
             \/ Hub!Connect(c) \/ Hub!ReadMessage(c) \/ Hub!ReadFails(c) \/ Hub!Leave(c)
             \/ Hub!WriteFails(c) \/ Hub!WriterSeesClose(c)
      PROVE  Numbered'
  <2>1. UNCHANGED <<broadcast, messages, send, written>>
    BY <1>3 DEF Hub!Connect, Hub!ReadMessage, Hub!ReadFails, Hub!Leave, Hub!WriteFails,
       Hub!WriterSeesClose, Hub!channels
  <2> QED BY <2>1, NumberedSame
<1>4. CASE Hub!OnRegister \/ Hub!OnUnregister \/ Hub!LoopEnds \/ Hub!Stop \/ Hub!StopCloses
  <2>1. UNCHANGED <<broadcast, messages, send, written>>
    BY <1>4 DEF Hub!OnRegister, Hub!OnUnregister, Hub!LoopEnds, Hub!Stop, Hub!StopCloses,
       Hub!channels, Hub!pumps
  <2> QED BY <2>1, NumberedSame
<1> QED BY <1>1, <1>2, <1>3, <1>4, BroadcastNumbers, WriteNumbers DEF Hub!Next, Hub!HubStep

LEMMA HubStepLemma == ASSUME HubInv, Pair!Next \/ Single!Next PROVE HubInv'
<1>1. Hub!Next
  BY HubSteps DEF HubInv, HubData
<1> QED BY <1>1, HubDataStep, EntersStep, PanicStep, NumberedStep DEF HubInv

LEMMA HubInit == Hub!Init => HubInv
<1> SUFFICES ASSUME Hub!Init PROVE HubInv
  OBVIOUS
<1>1. HubData
  <2>1. << >> \in Seq(Client) /\ << >> \in Seq(Nat) /\ Len(<< >>) = 0
        /\ << >> \in Seq([no : Nat, to : SUBSET Client])
    OBVIOUS
  <2>2. \A c \in Client : send[c] = << >> /\ written[c] = << >>
    BY DEF Hub!Init
  <2>3. send \in [Client -> Seq(Nat)] /\ written \in [Client -> Seq(Nat)]
    BY <2>1 DEF Hub!Init
  <2>4. /\ register \in Seq(Client) /\ unregister \in Seq(Client)
        /\ broadcast \in Seq([no : Nat, to : SUBSET Client])
        /\ Len(register) = 0 /\ Len(unregister) = 0 /\ Len(broadcast) = 0
        /\ \A c \in Client : Len(send[c]) = 0
    BY <2>1, <2>2 DEF Hub!Init
  <2>5. /\ reader \in [Client -> {"none", "read", "forward", "leave", "done"}]
        /\ writer \in [Client -> {"none", "write", "done"}]
        /\ clients \subseteq Client /\ closed \subseteq Client /\ connOpen \subseteq Client
        /\ messages \in Nat /\ stopping \in BOOLEAN /\ panicked \in BOOLEAN
    BY DEF Hub!Init
  <2> QED BY <2>3, <2>4, <2>5, CapsNat DEF HubData
<1>2. EntersOnce /\ Hub!PanicOnlyAfterStop /\ Numbered
  BY DEF Hub!Init, EntersOnce, Hub!PanicOnlyAfterStop, Numbered
<1> QED BY <1>1, <1>2 DEF HubInv

LEMMA HubKept == HubInv => Hub!TypeOK /\ Hub!WrittenInOrder /\ Hub!PanicOnlyAfterStop
<1> SUFFICES ASSUME HubInv PROVE Hub!TypeOK /\ Hub!WrittenInOrder
  BY DEF HubInv
<1>1. Hub!TypeOK
  BY DEF HubInv, HubData, Hub!TypeOK
<1>2. Hub!WrittenInOrder
  <2> SUFFICES ASSUME NEW c \in Client
               PROVE  \A a, b \in DOMAIN (written[c] \o send[c]) :
                        a < b => (written[c] \o send[c])[a] < (written[c] \o send[c])[b]
    BY DEF Hub!WrittenInOrder
  <2>1. written[c] \in Seq(Nat) /\ send[c] \in Seq(Nat)
    BY DEF HubInv, HubData
  <2> QED BY <2>1, OneLine DEF HubInv, Numbered
<1> QED BY <1>1, <1>2

-----------------------------------------------------------------------------
(* ParallelScheduler: the two loops of Kahn's algorithm. *)

LEMMA PlanFacts ==
  ASSUME deps \in Plans
  PROVE  /\ deps \in [Node -> SUBSET Nat] /\ DOMAIN deps = Node
         /\ \A n \in Node : IsFiniteSet(deps[n])
         /\ IsFiniteSet(Node) /\ Cardinality(Node) \in Nat
         /\ MaxConcurrency \in Nat
<1>1. \A S : Sched!IsFiniteSet(S) <=> IsFiniteSet(S)
  BY DEF Sched!IsFiniteSet, IsFiniteSet
<1>2. deps \in [Node -> SUBSET Nat] /\ (\A n \in Node : IsFiniteSet(deps[n])) /\ IsFiniteSet(Node)
      /\ MaxConcurrency \in Nat
  BY <1>1, AgentsAssumption DEF Sched!ScheduleAssumption
<1> QED BY <1>2, FS_CardinalityType

LEMMA SchedCardinality == ASSUME NEW S PROVE Sched!Cardinality(S) = Cardinality(S)
BY DEF Sched!Cardinality, Cardinality

LEMMA FiniteCount ==
  ASSUME NEW S, IsFiniteSet(S) PROVE Cardinality(S) \in Nat /\ (Cardinality(S) = 0 <=> S = {})
BY FS_CardinalityType, FS_EmptySet

LEMMA CountAdded ==
  ASSUME NEW S, IsFiniteSet(S), NEW x, x \notin S, NEW T, T = S \cup {x}
  PROVE  Cardinality(T) = Cardinality(S) + 1
BY FS_AddElement

LEMMA CountLess ==
  ASSUME NEW S, IsFiniteSet(S), NEW x, NEW T, T = S \ {x}
  PROVE  Cardinality(T) \in Nat /\ Cardinality(T) <= Cardinality(S)
<1>1. T \in SUBSET S
  OBVIOUS
<1> QED BY <1>1, FS_Subset, FS_CardinalityType

\* A batch of dependencies that comes off lowers the count of those that are left.
LEMMA TakeOff ==
  ASSUME NEW D, IsFiniteSet(D), NEW P, NEW batch, batch \cap P = {}
  PROVE  /\ Cardinality(D \ P) \in Nat /\ Cardinality(D \cap batch) \in Nat
         /\ Cardinality(D \ (P \cup batch)) \in Nat
         /\ Cardinality(D \ (P \cup batch)) = Cardinality(D \ P) - Cardinality(D \cap batch)
<1>1. IsFiniteSet(D \ P) /\ D \cap batch \subseteq D \ P
  BY FS_Subset
<1>2. IsFiniteSet(D \cap batch) /\ IsFiniteSet(D \ (P \cup batch))
  BY FS_Subset
<1>3. (D \ P) \ (D \cap batch) = D \ (P \cup batch)
  OBVIOUS
<1>4. (D \ P) \cap (D \cap batch) = D \cap batch
  BY <1>1
<1>5. Cardinality((D \ P) \ (D \cap batch)) =
        Cardinality(D \ P) - Cardinality((D \ P) \cap (D \cap batch))
  BY <1>1, FS_Difference
<1> QED BY <1>1, <1>2, <1>3, <1>4, <1>5, FS_CardinalityType

\* Both loops take a batch of the queue off: the degrees stay right, and what
\* has come off grows by the batch.
LEMMA BatchStep ==
  ASSUME deps \in Plans, deps' = deps, inDeg \in [Node -> Nat], queue \subseteq Node, Degrees,
         NEW batch \in SUBSET queue,
         inDeg' = Sched!Decrement(batch), queue' = (queue \ batch) \cup Sched!Freed(batch)
  PROVE  /\ inDeg' \in [Node -> Nat] /\ queue' \subseteq Node
         /\ Degrees' /\ Popped' = Popped \cup batch
<1> DEFINE Left(n) == Cardinality(deps[n] \ (Popped \cup batch))
           Taken(n) == Cardinality(deps[n] \cap batch)
<1>1. DOMAIN deps = Node /\ \A n \in Node : IsFiniteSet(deps[n])
  BY PlanFacts
<1>2. batch \cap Popped = {}
  BY DEF Popped
<1>3. ASSUME NEW n \in Node
      PROVE  /\ inDeg'[n] = inDeg[n] - Taken(n) /\ Taken(n) \in Nat
             /\ inDeg'[n] = Left(n) /\ Left(n) \in Nat
             /\ Taken(n) = 0 <=> deps[n] \cap batch = {}
             /\ inDeg[n] = 0 <=> deps[n] \ Popped = {}
  <2>1. inDeg'[n] = inDeg[n] - Taken(n)
    BY <1>1, SchedCardinality DEF Sched!Decrement
  <2>2. inDeg[n] = Cardinality(deps[n] \ Popped)
    BY DEF Degrees
  <2>3. /\ Taken(n) \in Nat /\ Left(n) \in Nat
        /\ Left(n) = Cardinality(deps[n] \ Popped) - Taken(n)
    BY <1>1, <1>2, TakeOff
  <2>4. IsFiniteSet(deps[n] \cap batch) /\ IsFiniteSet(deps[n] \ Popped)
    BY <1>1, FS_Subset
  <2> QED BY <2>1, <2>2, <2>3, <2>4, FiniteCount
<1> HIDE DEF Left, Taken
<1>4. inDeg' \in [Node -> Nat]
  <2>1. inDeg' = [n \in Node |-> inDeg'[n]]
    BY <1>1 DEF Sched!Decrement
  <2> QED BY <2>1, <1>3
<1>5. \A m : m \in Sched!Freed(batch) <=> m \in Node /\ deps[m] \cap batch # {} /\ inDeg'[m] = 0
  <2>1. \A m : m \in UNION {Sched!Adj(deps, n) : n \in batch} <=> m \in Node /\ deps[m] \cap batch # {}
    BY <1>1 DEF Sched!Adj
  <2> QED BY <2>1 DEF Sched!Freed
<1>6. queue' \subseteq Node
  BY <1>5
<1>7. ASSUME NEW n \in Node PROVE inDeg'[n] = 0 <=> n \in Popped \cup queue \cup Sched!Freed(batch)
  <2>1. CASE inDeg[n] = 0
    <3>1. deps[n] \cap batch = {}
      BY <1>2, <1>3, <2>1
    <3>2. inDeg'[n] = 0
      BY <1>3, <2>1, <3>1
    <3> QED BY <2>1, <3>2 DEF Popped
  <2>2. CASE inDeg[n] # 0
    <3>1. n \notin Popped \cup queue
      BY <2>2 DEF Popped, Degrees
    <3>2. inDeg'[n] = 0 => deps[n] \cap batch # {}
      BY <1>3, <2>2
    <3> QED BY <1>5, <3>1, <3>2
  <2> QED BY <2>1, <2>2
<1>8. Sched!Freed(batch) \cap (Popped \cup queue) = {}
  <2> SUFFICES ASSUME NEW m \in Sched!Freed(batch) PROVE m \notin Popped \cup queue
    OBVIOUS
  <2>1. m \in Node /\ inDeg[m] # 0
    BY <1>2, <1>3, <1>5
  <2> QED BY <2>1 DEF Popped, Degrees
<1>9. Popped' = Popped \cup batch
  <2>1. Popped' = {n \in Node : inDeg'[n] = 0} \ queue'
    BY DEF Popped
  <2>2. Popped \subseteq Node /\ Popped \cap queue = {}
    BY DEF Popped
  <2> QED BY <1>7, <1>8, <2>1, <2>2
<1>10. Degrees'
  <2>1. \A n \in queue' : inDeg'[n] = 0
    BY <1>6, <1>7
  <2>2. \A n \in Node : inDeg'[n] = Cardinality(deps'[n] \ Popped')
    BY <1>3, <1>9 DEF Left
  <2> QED BY <2>1, <2>2 DEF Degrees
<1> QED BY <1>4, <1>6, <1>9, <1>10

\* Each loop begins with the full degrees and nothing come off.
LEMMA BeginDegrees ==
  deps \in Plans /\ inDeg = Sched!InDegree(deps) /\ queue = Sched!Roots(deps) =>
    inDeg \in [Node -> Nat] /\ queue \subseteq Node /\ Degrees /\ Popped = {}
<1> SUFFICES ASSUME deps \in Plans, inDeg = Sched!InDegree(deps), queue = Sched!Roots(deps)
             PROVE  inDeg \in [Node -> Nat] /\ queue \subseteq Node /\ Degrees /\ Popped = {}
  OBVIOUS
<1>1. DOMAIN deps = Node /\ \A n \in Node : Cardinality(deps[n]) \in Nat
  BY PlanFacts, FiniteCount
<1>2. \A n \in Node : inDeg[n] = Cardinality(deps[n])
  BY <1>1, SchedCardinality DEF Sched!InDegree
<1>3. inDeg \in [Node -> Nat]
  BY <1>1, SchedCardinality DEF Sched!InDegree
<1>4. queue = {n \in Node : inDeg[n] = 0}
  BY <1>1 DEF Sched!Roots
<1>5. Popped = {}
  BY <1>4 DEF Popped
<1>6. Degrees
  BY <1>2, <1>4, <1>5 DEF Degrees
<1> QED BY <1>3, <1>4, <1>5, <1>6

LEMMA BeginDegreesAgain ==
  (deps \in Plans /\ inDeg = Sched!InDegree(deps) /\ queue = Sched!Roots(deps))' =>
    (inDeg \in [Node -> Nat] /\ queue \subseteq Node /\ Degrees /\ Popped = {})'
BY BeginDegrees, PTL

\* When the queue is empty what has come off is closed: nothing else could.
LEMMA DrainedClosed ==
  ASSUME deps \in Plans, inDeg \in [Node -> Nat], Degrees, queue = {}
  PROVE  Popped \in SUBSET Node /\ Sched!Closed(deps, {}, Popped)
<1>1. DOMAIN deps = Node
  BY PlanFacts
<1>2. ASSUME NEW s \in Node, deps[s] \subseteq Popped PROVE s \in Popped
  <2>1. deps[s] \ Popped = {}
    BY <1>2
  <2>2. inDeg[s] = 0
    BY <2>1, FS_EmptySet DEF Degrees
  <2> QED BY <2>2 DEF Popped
<1> QED BY <1>1, <1>2 DEF Sched!Closed, Popped

LEMMA ReachableIs ==
  ASSUME deps \in Plans
  PROVE  /\ Sched!Reachable(deps, {}) \subseteq Node
         /\ \A C \in SUBSET Node : Sched!Closed(deps, {}, C) => Sched!Reachable(deps, {}) \subseteq C
         /\ \A P \in SUBSET Node :
              (\A C \in SUBSET Node : Sched!Closed(deps, {}, C) => P \subseteq C)
                => P \subseteq Sched!Reachable(deps, {})
<1>1. DOMAIN deps = Node
  BY PlanFacts
<1> QED BY <1>1 DEF Sched!Reachable

LEMMA PoppedFinite ==
  ASSUME deps \in Plans
  PROVE  /\ IsFiniteSet(Popped) /\ Popped \subseteq Node
         /\ Cardinality(Popped) \in 0..Cardinality(Node)
         /\ Cardinality(Popped) = Cardinality(Node) => Popped = Node
<1>1. Popped \in SUBSET Node
  BY DEF Popped
<1>2. IsFiniteSet(Node) /\ Cardinality(Node) \in Nat
  BY PlanFacts
<1> QED BY <1>1, <1>2, FS_Subset, FS_CardinalityType

\* DetectCycles visits a node of the queue.
LEMMA VisitStep ==
  ASSUME ScheduleInv, NEW n \in Node, Sched!Visit(n) PROVE ScheduleInv'
<1>0. /\ ScheduleData /\ Detecting /\ Degrees /\ phase = "detect" /\ n \in queue
      /\ verdict = "none"
  BY DEF ScheduleInv, Sched!Visit, Detecting
<1>1. /\ deps \in Plans /\ deps' = deps /\ inDeg \in [Node -> Nat] /\ queue \subseteq Node
      /\ {n} \in SUBSET queue
  BY <1>0 DEF ScheduleData, Sched!Visit
<1>2. /\ inDeg' = Sched!Decrement({n}) /\ queue' = (queue \ {n}) \cup Sched!Freed({n})
      /\ UNCHANGED <<st, phase, levels, launched, waiting, errors, counts, verdict>>
      /\ visited' = visited + 1
  BY DEF Sched!Visit
<1>3. /\ inDeg' \in [Node -> Nat] /\ queue' \subseteq Node
      /\ Degrees' /\ Popped' = Popped \cup {n}
  BY <1>0, <1>1, <1>2, BatchStep
<1>4. n \notin Popped /\ deps[n] \subseteq Popped
  <2>1. inDeg[n] = 0 /\ Cardinality(deps[n] \ Popped) = 0
    BY <1>0, <1>1 DEF Degrees
  <2>2. IsFiniteSet(deps[n] \ Popped)
    BY <1>1, PlanFacts, FS_Subset
  <2> QED BY <1>0, <2>1, <2>2, FiniteCount DEF Popped
<1>5. visited' = Cardinality(Popped') /\ visited' \in 0..Cardinality(Node)
  <2>1. IsFiniteSet(Popped) /\ Popped' \subseteq Node /\ visited = Cardinality(Popped)
    BY <1>0, <1>1, <1>3, PoppedFinite DEF Detecting
  <2>2. Cardinality(Popped') = Cardinality(Popped) + 1
    BY <1>3, <1>4, <2>1, FS_AddElement
  <2>3. Cardinality(Popped') <= Cardinality(Node) /\ Cardinality(Popped') \in Nat
    BY <1>1, <2>1, PlanFacts, FS_Subset, FS_CardinalityType
  <2> QED BY <1>1, <1>2, <2>1, <2>2, <2>3, PlanFacts
<1>6. ASSUME NEW C \in SUBSET Node, Sched!Closed(deps, {}, C) PROVE Popped' \subseteq C
  <2>1. Popped \subseteq C /\ DOMAIN deps = Node
    BY <1>0, <1>1, <1>6, PlanFacts DEF Detecting
  <2>2. n \in C
    BY <1>4, <1>6, <2>1 DEF Sched!Closed
  <2> QED BY <1>3, <2>1, <2>2
<1>7. ScheduleData'
  BY <1>0, <1>1, <1>2, <1>3, <1>5 DEF ScheduleData
<1>8. Untouched'
  BY <1>0, <1>2 DEF Detecting, Untouched
<1>9. levels' = << >> /\ verdict' = "none" /\ phase' = "detect"
  BY <1>0, <1>2 DEF Detecting
<1>10. Detecting'
  BY <1>1, <1>3, <1>5, <1>6, <1>8, <1>9 DEF Detecting
<1> QED BY <1>7, <1>9, <1>10 DEF ScheduleInv

\* The search is over: either some node can never be run, or all can.
LEMMA DetectedStep == ASSUME ScheduleInv, Sched!Detected PROVE ScheduleInv'
<1>0. /\ ScheduleData /\ Detecting /\ Untouched /\ Degrees /\ phase = "detect" /\ queue = {}
      /\ verdict = "none" /\ levels = << >> /\ visited = Cardinality(Popped)
  BY DEF ScheduleInv, Sched!Detected, Detecting
<1>1. /\ deps \in Plans /\ deps' = deps /\ DOMAIN deps = Node
      /\ UNCHANGED <<st, visited, levels, launched, waiting, errors, counts>>
  BY <1>0, PlanFacts DEF ScheduleData, Sched!Detected
<1>2. Untouched' /\ levels' = << >>
  BY <1>0, <1>1 DEF Untouched
<1>3. CASE visited # Cardinality(Node)
  <2>1. verdict' = "cycle" /\ UNCHANGED <<phase, inDeg, queue>>
    BY <1>1, <1>3, SchedCardinality DEF Sched!Detected
  <2>2. Popped' = Popped
    BY <2>1 DEF Popped
  <2>3. Degrees'
    BY <1>0, <1>1, <2>1, <2>2 DEF Degrees
  <2>4. Detecting'
    BY <1>0, <1>1, <1>2, <1>3, <2>1, <2>2, <2>3 DEF Detecting
  <2>5. ScheduleData'
    BY <1>0, <1>1, <2>1 DEF ScheduleData
  <2> QED BY <1>0, <2>1, <2>4, <2>5 DEF ScheduleInv
<1>4. CASE visited = Cardinality(Node)
  <2>1. /\ phase' = "sort" /\ inDeg' = Sched!InDegree(deps) /\ queue' = Sched!Roots(deps)
        /\ verdict' = "none"
    BY <1>0, <1>1, <1>4, SchedCardinality DEF Sched!Detected
  <2>2. inDeg' \in [Node -> Nat] /\ queue' \subseteq Node /\ Degrees' /\ Popped' = {}
    <3>1. (deps \in Plans /\ inDeg = Sched!InDegree(deps) /\ queue = Sched!Roots(deps))'
      BY <1>1, <2>1
    <3> QED BY <3>1, BeginDegreesAgain
  <2>3. Popped = Node
    BY <1>0, <1>1, <1>4, PoppedFinite
  <2>4. Acyclic
    BY <1>0, <1>1, <2>3, ReachableIs DEF Detecting, Acyclic
  <2>5. Acyclic'
    BY <1>1, <2>4 DEF Acyclic
  <2>6. DOMAIN levels' = {}
    BY <1>2
  <2>7. Ordered' /\ \A n \in Node : n \in Popped' <=> \E k \in DOMAIN levels' : n \in levels'[k]
    BY <2>2, <2>6 DEF Ordered
  <2>8. Sorting'
    BY <1>2, <2>1, <2>2, <2>5, <2>7 DEF Sorting
  <2>9. ScheduleData'
    BY <1>0, <1>1, <2>1, <2>2 DEF ScheduleData
  <2> QED BY <2>1, <2>8, <2>9 DEF ScheduleInv
<1> QED BY <1>3, <1>4

\* TopologicalSort takes off the queue as the next level.
LEMMA NextLevelStep == ASSUME ScheduleInv, Sched!NextLevel PROVE ScheduleInv'
<1> DEFINE n == Len(levels)
<1>0. ScheduleData /\ Sorting /\ Untouched /\ Degrees /\ Ordered /\ Acyclic /\ phase = "sort"
  BY DEF ScheduleInv, Sched!NextLevel, Sorting
<1>1. /\ deps \in Plans /\ deps' = deps /\ inDeg \in [Node -> Nat] /\ queue \subseteq Node
      /\ levels \in Seq(SUBSET Node) /\ queue \in SUBSET Node
  BY <1>0 DEF ScheduleData, Sched!NextLevel
<1>2. /\ inDeg' = Sched!Decrement(queue) /\ queue' = (queue \ queue) \cup Sched!Freed(queue)
      /\ levels' = Append(levels, queue)
      /\ UNCHANGED <<st, phase, visited, launched, waiting, errors, counts, verdict>>
  BY DEF Sched!NextLevel
<1>3. /\ inDeg' \in [Node -> Nat] /\ queue' \subseteq Node
      /\ Degrees' /\ Popped' = Popped \cup queue
  BY <1>0, <1>1, <1>2, BatchStep
<1>4. /\ levels' \in Seq(SUBSET Node) /\ n \in Nat /\ DOMAIN levels = 1..n
      /\ DOMAIN levels' = 1..(n + 1) /\ levels'[n + 1] = queue
      /\ \A k \in 1..n : levels'[k] = levels[k]
  BY <1>1, <1>2, AppendOf
<1> HIDE DEF n
<1>5. \A k \in 1..(n + 1) : k \in 1..n \/ k = n + 1
  BY <1>4
<1>6. queue \cap Popped = {} /\ \A m \in queue : deps[m] \subseteq Popped
  <2>1. ASSUME NEW m \in queue PROVE deps[m] \subseteq Popped
    <3>1. m \in Node /\ Cardinality(deps[m] \ Popped) = 0
      BY <1>0, <1>1 DEF Degrees
    <3>2. IsFiniteSet(deps[m] \ Popped)
      BY <1>1, <3>1, PlanFacts, FS_Subset
    <3> QED BY <3>1, <3>2, FiniteCount
  <2> QED BY <2>1 DEF Popped
<1>7. \A k \in 1..n : \A m \in levels[k] : m \in Popped /\ deps[m] \subseteq Popped
  <2> SUFFICES ASSUME NEW k \in 1..n, NEW m \in levels[k] PROVE m \in Popped /\ deps[m] \subseteq Popped
    OBVIOUS
  <2>1. m \in Node
    BY <1>1, <1>4
  <2>2. m \in Popped
    BY <1>0, <1>4, <2>1 DEF Sorting
  <2>3. Cardinality(deps[m] \ Popped) = 0
    BY <1>0, <2>1, <2>2 DEF Degrees, Popped
  <2>4. IsFiniteSet(deps[m] \ Popped)
    BY <1>1, <2>1, PlanFacts, FS_Subset
  <2> QED BY <2>2, <2>3, <2>4, FiniteCount
<1>8. Ordered'
  <2> SUFFICES ASSUME NEW k \in 1..(n + 1), NEW m \in 1..(n + 1), NEW a \in levels'[k], NEW d \in levels'[m]
               PROVE  (d \in deps[a] => m < k) /\ (a = d => m = k)
    BY <1>1, <1>4 DEF Ordered
  <2>1. CASE k \in 1..n /\ m \in 1..n
    BY <1>0, <1>4, <2>1 DEF Ordered
  <2>2. CASE k \in 1..n /\ m = n + 1
    BY <1>4, <1>6, <1>7, <2>2
  <2>3. CASE k = n + 1 /\ m \in 1..n
    BY <1>4, <1>6, <1>7, <2>3
  <2>4. CASE k = n + 1 /\ m = n + 1
    BY <1>4, <1>6, <2>4
  <2> QED BY <1>5, <2>1, <2>2, <2>3, <2>4
<1>9. ASSUME NEW m \in Node
      PROVE  m \in Popped' <=> \E k \in DOMAIN levels' : m \in levels'[k]
  <2>1. m \in Popped <=> \E k \in 1..n : m \in levels[k]
    BY <1>0, <1>4 DEF Sorting
  <2>2. (\E k \in DOMAIN levels' : m \in levels'[k]) <=> (\E k \in 1..n : m \in levels[k]) \/ m \in queue
    BY <1>4, <1>5
  <2> QED BY <1>3, <2>1, <2>2
<1>10. Acyclic' /\ Untouched' /\ verdict' = "none" /\ phase' = "sort"
  BY <1>0, <1>1, <1>2 DEF Acyclic, Untouched, Sorting
<1>11. Sorting'
  BY <1>3, <1>8, <1>9, <1>10 DEF Sorting
<1>12. ScheduleData'
  BY <1>0, <1>1, <1>2, <1>3, <1>4 DEF ScheduleData
<1> QED BY <1>10, <1>11, <1>12 DEF ScheduleInv

\* The sort is over: all nodes are in levels.
LEMMA SortedStep == ASSUME ScheduleInv, Sched!Sorted PROVE ScheduleInv'
<1>0. /\ ScheduleData /\ Sorting /\ Untouched /\ Degrees /\ Ordered /\ Acyclic
      /\ phase = "sort" /\ queue = {}
  BY DEF ScheduleInv, Sched!Sorted, Sorting
<1>1. /\ deps \in Plans /\ inDeg \in [Node -> Nat] /\ DOMAIN deps = Node /\ phase' = "run"
      /\ verdict' = IF levels = << >> THEN "done" ELSE "none"
      /\ UNCHANGED <<deps, st, inDeg, queue, visited, levels, launched, waiting, errors, counts>>
  BY <1>0, PlanFacts DEF ScheduleData, Sched!Sorted
<1>2. Popped = Node
  BY <1>0, <1>1, DrainedClosed, ReachableIs DEF Acyclic
<1>3. \A n \in Node : \E k \in DOMAIN levels : n \in levels[k]
  BY <1>0, <1>2 DEF Sorting
<1>4. ASSUME NEW n \in Node PROVE deps[n] \subseteq Node
  <2>1. Cardinality(deps[n] \ Popped) = 0
    BY <1>0, <1>2 DEF Degrees, Popped
  <2>2. IsFiniteSet(deps[n] \ Popped)
    BY <1>1, PlanFacts, FS_Subset
  <2> QED BY <1>2, <2>1, <2>2, FiniteCount
<1>5. /\ levels' = levels /\ deps' = deps /\ launched' = {} /\ waiting' = {}
      /\ \A n \in Node : st'[n] = "pending"
  BY <1>0, <1>1 DEF Untouched
<1>6. \A k \in DOMAIN levels : levels[k] \subseteq Node
  BY <1>0 DEF ScheduleData
<1>7. Ordered' /\ Acyclic'
  BY <1>0, <1>1 DEF Ordered, Acyclic
<1>8. levels # << >> => 1 \in DOMAIN levels
  BY <1>0 DEF ScheduleData
<1>9. Executing'
  BY <1>1, <1>3, <1>4, <1>5, <1>6, <1>7, <1>8 DEF Executing
<1>10. Sched!Completed(st) = {} /\ Sched!Failed(st) = {} /\ Sched!Running = {}
  BY <1>0, <1>1 DEF Untouched, Sched!Completed, Sched!Failed, Sched!Running
<1>11. Counted'
  <2>1. Sched!Completed(st)' = {} /\ Sched!Failed(st)' = {} /\ Sched!Running' = {}
    BY <1>1, <1>10 DEF Sched!Completed, Sched!Failed, Sched!Running
  <2>2. Cardinality({}) = 0 /\ MaxConcurrency \in Nat
    BY <1>1, FS_EmptySet, PlanFacts
  <2>3. errors' = {} /\ counts'.completed = 0 /\ counts'.failed = 0
    BY <1>0, <1>1 DEF Untouched
  <2> QED BY <2>1, <2>2, <2>3 DEF Counted
<1>12. Grounded'
  BY <1>1, <1>10 DEF Grounded
<1>13. ScheduleData'
  BY <1>0, <1>1 DEF ScheduleData
<1> QED BY <1>1, <1>9, <1>11, <1>12, <1>13 DEF ScheduleInv

-----------------------------------------------------------------------------
(* ParallelScheduler: the execution of the levels. *)

\* One node's state changes, and so does its place in the sets of states.
LEMMA StateSet ==
  ASSUME ScheduleData, deps' = deps, NEW n \in Node,
         NEW v \in {"in_progress", "completed", "failed"}, st' = [st EXCEPT ![n] = v]
  PROVE  /\ st' \in [Node -> {"pending", "in_progress", "completed", "failed"}]
         /\ st'[n] = v /\ \A m \in Node : m # n => st'[m] = st[m]
         /\ Sched!Completed(st)' = IF v = "completed" THEN Sched!Completed(st) \cup {n}
                                   ELSE Sched!Completed(st) \ {n}
         /\ Sched!Failed(st)' = IF v = "failed" THEN Sched!Failed(st) \cup {n}
                                ELSE Sched!Failed(st) \ {n}
         /\ Sched!Running' = IF v = "in_progress" THEN Sched!Running \cup {n}
                             ELSE Sched!Running \ {n}
<1>1. DOMAIN deps = Node /\ st \in [Node -> {"pending", "in_progress", "completed", "failed"}]
  BY PlanFacts DEF ScheduleData
<1>2. /\ st' \in [Node -> {"pending", "in_progress", "completed", "failed"}]
      /\ st'[n] = v /\ \A m \in Node : m # n => st'[m] = st[m]
  BY <1>1
<1>3. \A m : /\ m \in Sched!Completed(st)' <=> m \in Node /\ st'[m] = "completed"
             /\ m \in Sched!Completed(st) <=> m \in Node /\ st[m] = "completed"
             /\ m \in Sched!Failed(st)' <=> m \in Node /\ st'[m] = "failed"
             /\ m \in Sched!Failed(st) <=> m \in Node /\ st[m] = "failed"
             /\ m \in Sched!Running' <=> m \in Node /\ st'[m] = "in_progress"
             /\ m \in Sched!Running <=> m \in Node /\ st[m] = "in_progress"
  BY <1>1, <1>2 DEF Sched!Completed, Sched!Failed, Sched!Running
<1>4. Sched!Completed(st)' = IF v = "completed" THEN Sched!Completed(st) \cup {n}
                            ELSE Sched!Completed(st) \ {n}
  <2>1. CASE v = "completed"
    <3>1. \A m : m \in Sched!Completed(st)' <=> m \in Sched!Completed(st) \/ m = n
      BY <1>2, <1>3, <2>1
    <3> QED BY <2>1, <3>1
  <2>2. CASE v # "completed"
    BY <1>2, <1>3, <2>2
  <2> QED BY <2>1, <2>2
<1>5. Sched!Failed(st)' = IF v = "failed" THEN Sched!Failed(st) \cup {n}
                         ELSE Sched!Failed(st) \ {n}
  <2>1. CASE v = "failed"
    <3>1. \A m : m \in Sched!Failed(st)' <=> m \in Sched!Failed(st) \/ m = n
      BY <1>2, <1>3, <2>1
    <3> QED BY <2>1, <3>1
  <2>2. CASE v # "failed"
    BY <1>2, <1>3, <2>2
  <2> QED BY <2>1, <2>2
<1>6. Sched!Running' = IF v = "in_progress" THEN Sched!Running \cup {n}
                      ELSE Sched!Running \ {n}
  BY <1>2, <1>3
<1> QED BY <1>2, <1>4, <1>5, <1>6

LEMMA StateMembers ==
  ASSUME ScheduleData
  PROVE  \A m : /\ m \in Sched!Completed(st) <=> m \in Node /\ st[m] = "completed"
                /\ m \in Sched!Failed(st) <=> m \in Node /\ st[m] = "failed"
                /\ m \in Sched!Running <=> m \in Node /\ st[m] = "in_progress"
BY PlanFacts DEF ScheduleData, Sched!Completed, Sched!Failed, Sched!Running

LEMMA StatesFinite ==
  ASSUME ScheduleData
  PROVE  /\ IsFiniteSet(Sched!Completed(st)) /\ IsFiniteSet(Sched!Failed(st))
         /\ IsFiniteSet(Sched!Running)
         /\ Cardinality(Sched!Completed(st)) \in Nat /\ Cardinality(Sched!Failed(st)) \in Nat
         /\ Cardinality(Sched!Running) \in Nat
<1>1. /\ Sched!Completed(st) \in SUBSET Node /\ Sched!Failed(st) \in SUBSET Node
      /\ Sched!Running \in SUBSET Node
  BY StateMembers
<1>2. IsFiniteSet(Node)
  BY PlanFacts DEF ScheduleData
<1> QED BY <1>1, <1>2, FS_Subset, FS_CardinalityType

Run == ScheduleData /\ phase = "run" /\ Executing /\ Counted /\ Grounded

LEMMA LaunchStep == ASSUME Run, NEW n \in Node, Sched!Launch(n) PROVE Run'
<1>0. /\ ScheduleData /\ Executing /\ Counted /\ Grounded
      /\ levels # << >> /\ n \in levels[1] \ launched /\ deps[n] \cap errors = {}
      /\ levels \in Seq(SUBSET Node) /\ 1 \in DOMAIN levels
  BY DEF Run, Sched!Launch, Sched!InLevel, ScheduleData
<1>1. /\ UNCHANGED <<deps, st, phase, inDeg, queue, visited, levels, errors, counts, verdict>>
      /\ launched' = launched \cup {n} /\ waiting' = waiting \cup {n}
  BY DEF Sched!Launch, Sched!sorting
<1>2. deps[n] \subseteq Sched!Completed(st)
  <2> SUFFICES ASSUME NEW d \in deps[n] PROVE d \in Sched!Completed(st)
    OBVIOUS
  <2>1. d \in Node
    BY <1>0 DEF Executing
  <2>2. ASSUME NEW k \in DOMAIN levels, d \in levels[k] PROVE FALSE
    <3>1. k < 1
      BY <1>0, <2>2 DEF Executing, Ordered
    <3> QED BY <1>0, <3>1
  <2>3. st[d] \in {"completed", "failed"}
    BY <1>0, <2>1, <2>2 DEF Executing
  <2>4. st[d] # "failed"
    BY <1>0, <2>1, StateMembers DEF Counted
  <2> QED BY <1>0, <2>1, <2>3, <2>4, StateMembers
<1>3. Sched!Completed(st)' = Sched!Completed(st) /\ Sched!Failed(st)' = Sched!Failed(st)
      /\ Sched!Running' = Sched!Running
  BY <1>1 DEF Sched!Completed, Sched!Failed, Sched!Running
<1>4. Counted' /\ Grounded'
  BY <1>0, <1>1, <1>3 DEF Counted, Grounded
<1>5. Ordered' /\ Acyclic'
  BY <1>0, <1>1 DEF Executing, Ordered, Acyclic
<1>6. Executing'
  BY <1>0, <1>1, <1>2, <1>3, <1>5 DEF Executing
<1>7. ScheduleData' /\ phase' = "run"
  BY <1>0, <1>1 DEF ScheduleData, Run
<1> QED BY <1>4, <1>6, <1>7 DEF Run

LEMMA SkipStep == ASSUME Run, NEW n \in Node, Sched!SkipNode(n) PROVE Run'
<1>0. /\ ScheduleData /\ Executing /\ Counted /\ Grounded
      /\ levels # << >> /\ n \in levels[1] \ launched
      /\ levels \in Seq(SUBSET Node) /\ 1 \in DOMAIN levels /\ st[n] = "pending" /\ n \notin waiting
  BY DEF Run, Sched!SkipNode, Sched!InLevel, ScheduleData, Executing
<1>1. /\ UNCHANGED <<deps, phase, inDeg, queue, visited, levels, waiting, verdict>>
      /\ launched' = launched \cup {n} /\ st' = [st EXCEPT ![n] = "failed"]
      /\ errors' = errors \cup {n} /\ counts' = [counts EXCEPT !.failed = @ + 1]
  BY DEF Sched!SkipNode, Sched!Fails, Sched!sorting
<1>2. /\ st' \in [Node -> {"pending", "in_progress", "completed", "failed"}]
      /\ st'[n] = "failed" /\ \A m \in Node : m # n => st'[m] = st[m]
      /\ Sched!Completed(st)' = Sched!Completed(st) \ {n}
      /\ Sched!Failed(st)' = Sched!Failed(st) \cup {n}
      /\ Sched!Running' = Sched!Running \ {n}
  BY <1>0, <1>1, StateSet
<1>3. n \notin Sched!Completed(st) /\ n \notin Sched!Failed(st) /\ n \notin Sched!Running
  BY <1>0, StateMembers
<1>4. /\ Sched!Completed(st)' = Sched!Completed(st) /\ Sched!Running' = Sched!Running
      /\ Cardinality(Sched!Failed(st)') = Cardinality(Sched!Failed(st)) + 1
  <2>1. IsFiniteSet(Sched!Failed(st))
    BY <1>0, StatesFinite
  <2>2. Cardinality(Sched!Failed(st)') = Cardinality(Sched!Failed(st)) + 1
    BY <1>2, <1>3, <2>1, CountAdded
  <2> QED BY <1>2, <1>3, <2>2
<1>5. counts' \in [completed : Nat, failed : Nat] /\ counts'.completed = counts.completed
      /\ counts'.failed = counts.failed + 1
  <2>1. counts \in [completed : Nat, failed : Nat]
    BY <1>0 DEF ScheduleData
  <2> QED BY <1>1, <2>1
<1>6. Counted' /\ Grounded'
  BY <1>0, <1>1, <1>2, <1>4, <1>5 DEF Counted, Grounded
<1>7. Ordered' /\ Acyclic'
  BY <1>0, <1>1 DEF Executing, Ordered, Acyclic
<1>8. \A k \in DOMAIN levels : k > 1 => n \notin levels[k]
  BY <1>0 DEF Executing, Ordered
<1>9. \A k \in DOMAIN levels : levels[k] \subseteq Node
  BY <1>0
<1>10. launched \subseteq Node /\ waiting \subseteq launched
  BY <1>0 DEF ScheduleData
<1>11. Executing'
  BY <1>0, <1>1, <1>2, <1>4, <1>7, <1>8, <1>9, <1>10 DEF Executing
<1>12. ScheduleData' /\ phase' = "run"
  BY <1>0, <1>1, <1>2, <1>5 DEF ScheduleData, Run
<1> QED BY <1>6, <1>11, <1>12 DEF Run

\* One more runs only while fewer than the limit do.
LEMMA AcquireStep == ASSUME Run, NEW n \in Node, Sched!Acquire(n) PROVE Run'
<1>0. /\ ScheduleData /\ Executing /\ Counted /\ Grounded
      /\ n \in waiting /\ n \in launched /\ st[n] = "pending" /\ levels # << >> /\ n \in levels[1]
      /\ levels \in Seq(SUBSET Node) /\ 1 \in DOMAIN levels
  BY DEF Run, Sched!Acquire, ScheduleData, Executing
<1>1. /\ UNCHANGED <<deps, phase, inDeg, queue, visited, levels, launched, errors, counts, verdict>>
      /\ waiting' = waiting \ {n} /\ st' = [st EXCEPT ![n] = "in_progress"]
      /\ Cardinality(Sched!Running) < Sched!Workers
  BY SchedCardinality DEF Sched!Acquire, Sched!sorting
<1>2. /\ st' \in [Node -> {"pending", "in_progress", "completed", "failed"}]
      /\ st'[n] = "in_progress" /\ \A m \in Node : m # n => st'[m] = st[m]
      /\ Sched!Completed(st)' = Sched!Completed(st) \ {n}
      /\ Sched!Failed(st)' = Sched!Failed(st) \ {n}
      /\ Sched!Running' = Sched!Running \cup {n}
  BY <1>0, <1>1, StateSet
<1>3. n \notin Sched!Completed(st) /\ n \notin Sched!Failed(st) /\ n \notin Sched!Running
  BY <1>0, StateMembers
<1>4. /\ Sched!Completed(st)' = Sched!Completed(st) /\ Sched!Failed(st)' = Sched!Failed(st)
      /\ Cardinality(Sched!Running') = Cardinality(Sched!Running) + 1
  <2>1. IsFiniteSet(Sched!Running)
    BY <1>0, StatesFinite
  <2>2. Cardinality(Sched!Running') = Cardinality(Sched!Running) + 1
    BY <1>2, <1>3, <2>1, CountAdded
  <2> QED BY <1>2, <1>3, <2>2
<1>5. MaxConcurrency > 0 => Cardinality(Sched!Running') <= MaxConcurrency
  <2>1. Head(levels) \in SUBSET Node
    BY <1>0
  <2>2. Cardinality(Head(levels)) \in Nat /\ MaxConcurrency \in Nat
    BY <1>0, <2>1, PlanFacts, FS_Subset, FS_CardinalityType DEF ScheduleData
  <2>3. MaxConcurrency > 0 => Sched!Workers <= MaxConcurrency /\ Sched!Workers \in Nat
    BY <2>2, SchedCardinality DEF Sched!Workers
  <2>4. Cardinality(Sched!Running) \in Nat
    BY <1>0, StatesFinite
  <2> QED BY <1>1, <1>4, <2>2, <2>3, <2>4
<1>6. Counted' /\ Grounded'
  BY <1>0, <1>1, <1>4, <1>5 DEF Counted, Grounded
<1>7. Ordered' /\ Acyclic'
  BY <1>0, <1>1 DEF Executing, Ordered, Acyclic
<1>8. \A k \in DOMAIN levels : k > 1 => n \notin levels[k]
  BY <1>0 DEF Executing, Ordered
<1>9. \A k \in DOMAIN levels : levels[k] \subseteq Node
  BY <1>0
<1>10. launched \subseteq Node /\ waiting \subseteq launched
  BY <1>0 DEF ScheduleData
<1>11. Executing'
  BY <1>0, <1>1, <1>2, <1>4, <1>7, <1>8, <1>9, <1>10 DEF Executing
<1>12. ScheduleData' /\ phase' = "run"
  BY <1>0, <1>1, <1>2 DEF ScheduleData, Run
<1> QED BY <1>6, <1>11, <1>12 DEF Run

\* A node that completes had all it needs, so it lies in every closed set.
LEMMA SucceedStep == ASSUME Run, NEW n \in Node, Sched!Succeed(n) PROVE Run'
<1>0. /\ ScheduleData /\ Executing /\ Counted /\ Grounded
      /\ st[n] = "in_progress" /\ levels \in Seq(SUBSET Node)
  BY StateMembers DEF Run, Sched!Succeed, ScheduleData
<1>1. /\ UNCHANGED <<deps, phase, inDeg, queue, visited, levels, launched, waiting, errors, verdict>>
      /\ st' = [st EXCEPT ![n] = "completed"] /\ counts' = [counts EXCEPT !.completed = @ + 1]
  BY DEF Sched!Succeed, Sched!sorting
<1>2. /\ st' \in [Node -> {"pending", "in_progress", "completed", "failed"}]
      /\ st'[n] = "completed" /\ \A m \in Node : m # n => st'[m] = st[m]
      /\ Sched!Completed(st)' = Sched!Completed(st) \cup {n}
      /\ Sched!Failed(st)' = Sched!Failed(st) \ {n}
      /\ Sched!Running' = Sched!Running \ {n}
  BY <1>0, <1>1, StateSet
<1>3. n \notin Sched!Completed(st) /\ n \notin Sched!Failed(st)
  BY <1>0, StateMembers
<1>4. /\ Sched!Failed(st)' = Sched!Failed(st)
      /\ Cardinality(Sched!Completed(st)') = Cardinality(Sched!Completed(st)) + 1
      /\ Cardinality(Sched!Running') <= Cardinality(Sched!Running)
      /\ Cardinality(Sched!Running') \in Nat /\ Cardinality(Sched!Running) \in Nat
  <2>1. IsFiniteSet(Sched!Completed(st)) /\ IsFiniteSet(Sched!Running)
        /\ Cardinality(Sched!Running) \in Nat
    BY <1>0, StatesFinite
  <2>2. Cardinality(Sched!Completed(st)') = Cardinality(Sched!Completed(st)) + 1
    BY <1>2, <1>3, <2>1, CountAdded
  <2>3. Cardinality(Sched!Running') \in Nat /\ Cardinality(Sched!Running') <= Cardinality(Sched!Running)
    BY <1>2, <2>1, CountLess
  <2> QED BY <1>2, <1>3, <2>1, <2>2, <2>3
<1>5. counts' \in [completed : Nat, failed : Nat] /\ counts'.failed = counts.failed
      /\ counts'.completed = counts.completed + 1
  <2>1. counts \in [completed : Nat, failed : Nat]
    BY <1>0 DEF ScheduleData
  <2> QED BY <1>1, <2>1
<1>6. Counted'
  <2>1. MaxConcurrency \in Nat
    BY <1>0, PlanFacts DEF ScheduleData
  <2> QED BY <1>0, <1>1, <1>4, <1>5, <2>1 DEF Counted
<1>7. Grounded'
  <2> SUFFICES ASSUME NEW C \in SUBSET Node,
                      \A s \in Sched!Completed(st)' : deps[s] \subseteq C => s \in C
               PROVE  Sched!Completed(st)' \subseteq C
    BY <1>1 DEF Grounded
  <2>1. Sched!Completed(st) \subseteq C
    BY <1>0, <1>2 DEF Grounded
  <2>2. deps[n] \subseteq Sched!Completed(st)
    BY <1>0 DEF Executing
  <2> QED BY <1>2, <2>1, <2>2
<1>8. Ordered' /\ Acyclic'
  BY <1>0, <1>1 DEF Executing, Ordered, Acyclic
<1>9. \A k \in DOMAIN levels : levels[k] \subseteq Node
  BY <1>0
<1>10. launched \subseteq Node /\ waiting \subseteq launched
  BY <1>0 DEF ScheduleData
<1>11. Executing'
  <2>1. \A m \in Node : st'[m] \in {"in_progress", "completed"} \/ m \in waiting' =>
          deps'[m] \subseteq Sched!Completed(st)'
    <3> SUFFICES ASSUME NEW m \in Node, st'[m] \in {"in_progress", "completed"} \/ m \in waiting
                 PROVE  deps[m] \subseteq Sched!Completed(st)
      BY <1>1, <1>2
    <3> QED BY <1>0, <1>2 DEF Executing
  <2>2. n \notin waiting /\ \A k \in DOMAIN levels : k > 1 => n \notin levels[k]
    BY <1>0 DEF Executing
  <2>3. levels # << >> => n \notin levels[1] \ launched
    BY <1>0 DEF Executing
  <2>4. \A m \in Node : \/ st'[m] \in {"completed", "failed"}
                          \/ \E k \in DOMAIN levels : m \in levels[k]
    BY <1>0, <1>2 DEF Executing
  <2>5. \A k \in DOMAIN levels : k > 1 => \A m \in levels[k] : st'[m] = "pending"
    <3> SUFFICES ASSUME NEW k \in DOMAIN levels, k > 1, NEW m \in levels[k] PROVE st'[m] = "pending"
      OBVIOUS
    <3>1. st[m] = "pending" /\ m \in Node /\ m # n
      BY <1>0, <1>9, <2>2 DEF Executing
    <3> QED BY <1>2, <3>1
  <2>6. \A m \in waiting : st'[m] = "pending"
    BY <1>0, <1>2, <1>10, <2>2 DEF Executing
  <2>7. levels # << >> => \A m \in levels[1] \ launched : st'[m] = "pending"
    <3> SUFFICES ASSUME levels # << >>, NEW m \in levels[1] \ launched PROVE st'[m] = "pending"
      OBVIOUS
    <3>1. st[m] = "pending" /\ m \in Node /\ m # n
      BY <1>0, <2>3 DEF Executing
    <3> QED BY <1>2, <3>1
  <2>8. \A m \in launched \ waiting : st'[m] # "pending"
    BY <1>0, <1>2, <1>10 DEF Executing
  <2>9. /\ verdict' # "cycle" /\ \A m \in Node : deps'[m] \subseteq Node
        /\ \A m \in launched : levels # << >> /\ m \in levels[1]
        /\ verdict' = "none" => levels' # << >>
        /\ verdict' = "done" => levels' = << >>
    BY <1>0, <1>1 DEF Executing
  <2> QED BY <1>1, <1>8, <2>1, <2>4, <2>5, <2>6, <2>7, <2>8, <2>9 DEF Executing
<1>12. ScheduleData' /\ phase' = "run"
  BY <1>0, <1>1, <1>2, <1>5 DEF ScheduleData, Run
<1> QED BY <1>6, <1>7, <1>11, <1>12 DEF Run

LEMMA FailStep == ASSUME Run, NEW n \in Node, Sched!Fail(n) PROVE Run'
<1>0. /\ ScheduleData /\ Executing /\ Counted /\ Grounded
      /\ st[n] = "in_progress" /\ levels \in Seq(SUBSET Node)
  BY StateMembers DEF Run, Sched!Fail, ScheduleData
<1>1. /\ UNCHANGED <<deps, phase, inDeg, queue, visited, levels, launched, waiting, verdict>>
      /\ st' = [st EXCEPT ![n] = "failed"]
      /\ errors' = errors \cup {n} /\ counts' = [counts EXCEPT !.failed = @ + 1]
  BY DEF Sched!Fail, Sched!Fails, Sched!sorting
<1>2. /\ st' \in [Node -> {"pending", "in_progress", "completed", "failed"}]
      /\ st'[n] = "failed" /\ \A m \in Node : m # n => st'[m] = st[m]
      /\ Sched!Completed(st)' = Sched!Completed(st) \ {n}
      /\ Sched!Failed(st)' = Sched!Failed(st) \cup {n}
      /\ Sched!Running' = Sched!Running \ {n}
  BY <1>0, <1>1, StateSet
<1>3. n \notin Sched!Completed(st) /\ n \notin Sched!Failed(st)
  BY <1>0, StateMembers
<1>4. /\ Sched!Completed(st)' = Sched!Completed(st)
      /\ Cardinality(Sched!Failed(st)') = Cardinality(Sched!Failed(st)) + 1
      /\ Cardinality(Sched!Running') <= Cardinality(Sched!Running)
      /\ Cardinality(Sched!Running') \in Nat /\ Cardinality(Sched!Running) \in Nat
  <2>1. IsFiniteSet(Sched!Failed(st)) /\ IsFiniteSet(Sched!Running)
        /\ Cardinality(Sched!Running) \in Nat
    BY <1>0, StatesFinite
  <2>2. Cardinality(Sched!Failed(st)') = Cardinality(Sched!Failed(st)) + 1
    BY <1>2, <1>3, <2>1, CountAdded
  <2>3. Cardinality(Sched!Running') \in Nat /\ Cardinality(Sched!Running') <= Cardinality(Sched!Running)
    BY <1>2, <2>1, CountLess
  <2> QED BY <1>2, <1>3, <2>1, <2>2, <2>3
<1>5. counts' \in [completed : Nat, failed : Nat] /\ counts'.completed = counts.completed
      /\ counts'.failed = counts.failed + 1
  <2>1. counts \in [completed : Nat, failed : Nat]
    BY <1>0 DEF ScheduleData
  <2> QED BY <1>1, <2>1
<1>6. Counted' /\ Grounded'
  <2>1. MaxConcurrency \in Nat
    BY <1>0, PlanFacts DEF ScheduleData
  <2>2. errors' = Sched!Failed(st)'
    BY <1>0, <1>1, <1>2 DEF Counted
  <2>3. Counted'
    <3>1. /\ counts'.completed = Cardinality(Sched!Completed(st)')
          /\ counts'.failed = Cardinality(Sched!Failed(st)')
      BY <1>0, <1>4, <1>5 DEF Counted
    <3>2. MaxConcurrency > 0 => Cardinality(Sched!Running') <= MaxConcurrency
      BY <1>0, <1>4, <2>1 DEF Counted
    <3> QED BY <2>2, <3>1, <3>2 DEF Counted
  <2>4. Grounded'
    BY <1>0, <1>1, <1>4 DEF Grounded
  <2> QED BY <2>3, <2>4
<1>7. Ordered' /\ Acyclic'
  BY <1>0, <1>1 DEF Executing, Ordered, Acyclic
<1>8. \A k \in DOMAIN levels : levels[k] \subseteq Node
  BY <1>0
<1>9. launched \subseteq Node /\ waiting \subseteq launched
  BY <1>0 DEF ScheduleData
<1>10. Executing'
  BY <1>0, <1>1, <1>2, <1>4, <1>7, <1>8, <1>9 DEF Executing
<1>11. ScheduleData' /\ phase' = "run"
  BY <1>0, <1>1, <1>2, <1>5 DEF ScheduleData, Run
<1> QED BY <1>6, <1>10, <1>11 DEF Run

LEMMA RaceStep ==
  ASSUME Run, NEW n \in Node, NEW m \in Node, Sched!RaceOnErrors(n, m) PROVE Run'
<1>1. /\ verdict' = "fatal" /\ verdict = "none"
      /\ UNCHANGED <<deps, st, phase, inDeg, queue, visited, levels, launched, waiting, errors, counts>>
  BY DEF Sched!RaceOnErrors, Sched!InLevel, Sched!sorting
<1>2. Sched!Completed(st)' = Sched!Completed(st) /\ Sched!Failed(st)' = Sched!Failed(st)
      /\ Sched!Running' = Sched!Running
  BY <1>1 DEF Sched!Completed, Sched!Failed, Sched!Running
<1>3. Counted' /\ Grounded'
  BY <1>1, <1>2 DEF Run, Counted, Grounded
<1>4. Ordered' /\ Acyclic'
  BY <1>1 DEF Run, Executing, Ordered, Acyclic
<1>5. Executing'
  BY <1>1, <1>2, <1>4 DEF Run, Executing
<1>6. ScheduleData' /\ phase' = "run"
  BY <1>1 DEF Run, ScheduleData
<1> QED BY <1>3, <1>5, <1>6 DEF Run

\* A level is left when all of it has ended; the next one moves up.
LEMMA EndLevelStep == ASSUME Run, Sched!EndLevel PROVE Run'
<1>0. /\ ScheduleData /\ Executing /\ Counted /\ Grounded
      /\ levels # << >> /\ launched = levels[1] /\ waiting = {} /\ Sched!Running = {}
      /\ levels \in Seq(SUBSET Node) /\ 1 \in DOMAIN levels
  BY DEF Run, Sched!EndLevel, Sched!InLevel, ScheduleData
<1>1. /\ UNCHANGED <<deps, st, phase, inDeg, queue, visited, waiting, errors, counts>>
      /\ levels' = Tail(levels) /\ launched' = {}
      /\ verdict' = IF levels' = << >> THEN "done" ELSE "none"
  BY DEF Sched!EndLevel, Sched!sorting
<1>2. /\ levels' \in Seq(SUBSET Node)
      /\ \A k \in DOMAIN levels' : /\ k \in Nat /\ k >= 1 /\ k + 1 \in DOMAIN levels
                                   /\ levels'[k] = levels[k + 1]
      /\ \A k \in DOMAIN levels : k # 1 => k - 1 \in DOMAIN levels' /\ levels'[k - 1] = levels[k]
                                          /\ k \in Nat /\ k > 1
      /\ levels' # << >> => 1 \in DOMAIN levels'
  BY <1>0, <1>1
<1>3. Sched!Completed(st)' = Sched!Completed(st) /\ Sched!Failed(st)' = Sched!Failed(st)
      /\ Sched!Running' = Sched!Running
  BY <1>1 DEF Sched!Completed, Sched!Failed, Sched!Running
<1>4. Counted' /\ Grounded'
  BY <1>0, <1>1, <1>3 DEF Counted, Grounded
<1>5. Ordered'
  <2> SUFFICES ASSUME NEW k \in DOMAIN levels', NEW m \in DOMAIN levels',
                      NEW n \in levels'[k], NEW d \in levels'[m]
               PROVE  (d \in deps[n] => m < k) /\ (n = d => m = k)
    BY <1>1 DEF Ordered
  <2>1. /\ (d \in deps[n] => m + 1 < k + 1) /\ (n = d => m + 1 = k + 1)
    BY <1>0, <1>2 DEF Executing, Ordered
  <2> QED BY <1>2, <2>1
<1>6. Acyclic'
  BY <1>0, <1>1 DEF Executing, Acyclic
<1>7. \A n \in levels[1] : n \in Node /\ st[n] \in {"completed", "failed"}
  BY <1>0, StateMembers DEF Executing, ScheduleData
<1>8. ASSUME NEW n \in Node, st[n] \notin {"completed", "failed"}
      PROVE  \E k \in DOMAIN levels' : n \in levels'[k]
  <2>1. PICK k \in DOMAIN levels : n \in levels[k]
    BY <1>0, <1>8 DEF Executing
  <2>2. k # 1
    BY <1>7, <1>8, <2>1
  <2> QED BY <1>2, <2>1, <2>2
<1>9. \A k \in DOMAIN levels' : \A n \in levels'[k] : st[n] = "pending"
  <2> SUFFICES ASSUME NEW k \in DOMAIN levels', NEW n \in levels'[k] PROVE st[n] = "pending"
    OBVIOUS
  <2>1. k + 1 > 1 /\ k + 1 \in DOMAIN levels /\ n \in levels[k + 1]
    BY <1>2
  <2> QED BY <1>0, <2>1 DEF Executing
<1>10. Executing'
  <2>1. /\ \A n \in launched' : levels' # << >> /\ n \in levels'[1]
        /\ \A n \in waiting' : st'[n] = "pending"
        /\ levels' # << >> => \A n \in levels'[1] \ launched' : st'[n] = "pending"
        /\ \A n \in launched' \ waiting' : st'[n] # "pending"
    BY <1>0, <1>1, <1>2, <1>9 DEF Executing
  <2>2. \A n \in Node : st'[n] \in {"in_progress", "completed"} \/ n \in waiting' =>
          deps'[n] \subseteq Sched!Completed(st)'
    BY <1>0, <1>1, <1>3 DEF Executing
  <2>3. \A n \in Node : \/ st'[n] \in {"completed", "failed"}
                         \/ \E k \in DOMAIN levels' : n \in levels'[k]
    BY <1>1, <1>8
  <2>4. /\ verdict' # "cycle" /\ (\A n \in Node : deps'[n] \subseteq Node)
        /\ (verdict' = "none" => levels' # << >>) /\ (verdict' = "done" => levels' = << >>)
    BY <1>0, <1>1 DEF Executing
  <2> QED BY <1>1, <1>5, <1>6, <1>9, <2>1, <2>2, <2>3, <2>4 DEF Executing
<1>11. ScheduleData' /\ phase' = "run"
  BY <1>0, <1>1, <1>2 DEF ScheduleData, Run
<1> QED BY <1>4, <1>10, <1>11 DEF Run

LEMMA ScheduleStep == ASSUME ScheduleInv, Sched!Next PROVE ScheduleInv'
<1>1. phase = "run" => Run
  BY DEF ScheduleInv, Run
<1>2. Run' => ScheduleInv'
  BY DEF ScheduleInv, Run
<1>3. ASSUME NEW n \in Node, phase # "run",
             \/ Sched!SkipNode(n) \/ Sched!Launch(n) \/ Sched!Acquire(n) \/ Sched!Succeed(n)
             \/ Sched!Fail(n) \/ Sched!EndLevel \/ \E m \in Node : Sched!RaceOnErrors(n, m)
      PROVE  FALSE
  <2>1. waiting = {} /\ Sched!Running = {}
    BY <1>3, StateMembers DEF ScheduleInv, ScheduleData, Detecting, Sorting, Untouched
  <2> QED BY <1>3, <2>1 DEF Sched!SkipNode, Sched!Launch, Sched!Acquire, Sched!Succeed, Sched!Fail,
          Sched!EndLevel, Sched!RaceOnErrors, Sched!InLevel
<1>4. Sched!EndLevel => phase = "run"
  BY DEF Sched!EndLevel, Sched!InLevel
<1> QED
  BY <1>1, <1>2, <1>3, <1>4, VisitStep, DetectedStep, NextLevelStep, SortedStep, LaunchStep, SkipStep,
     AcquireStep, SucceedStep, FailStep, RaceStep, EndLevelStep DEF Sched!Next

LEMMA ScheduleInit == Sched!Init => ScheduleInv
<1> SUFFICES ASSUME Sched!Init PROVE ScheduleInv
  OBVIOUS
<1>1. /\ deps \in Plans /\ DOMAIN deps = Node /\ phase = "detect" /\ verdict = "none"
      /\ inDeg = Sched!InDegree(deps) /\ queue = Sched!Roots(deps) /\ visited = 0 /\ levels = << >>
  BY PlanFacts DEF Sched!Init
<1>2. Untouched
  BY <1>1 DEF Sched!Init, Untouched, Sched!AllPending
<1>3. inDeg \in [Node -> Nat] /\ queue \subseteq Node /\ Degrees /\ Popped = {}
  BY <1>1, BeginDegrees
<1>4. Cardinality({}) = 0 /\ Cardinality(Node) \in Nat
  BY <1>1, FS_EmptySet, PlanFacts
<1>5. Detecting
  BY <1>1, <1>2, <1>3, <1>4 DEF Detecting
<1>6. ScheduleData
  BY <1>1, <1>2, <1>3, <1>4 DEF ScheduleData, Untouched
<1> QED BY <1>1, <1>5, <1>6 DEF ScheduleInv

LEMMA ScheduleTypes == ScheduleInv => Sched!TypeOK
<1> SUFFICES ASSUME ScheduleInv PROVE Sched!TypeOK
  OBVIOUS
<1>1. ScheduleData /\ DOMAIN deps = Node /\ IsFiniteSet(Node) /\ Cardinality(Node) \in Nat
  BY PlanFacts DEF ScheduleInv, ScheduleData
<1>2. counts \in [completed : 0..Cardinality(Node), failed : 0..Cardinality(Node)]
  <2>1. CASE phase = "run"
    <3>1. /\ Sched!Completed(st) \in SUBSET Node /\ Sched!Failed(st) \in SUBSET Node
          /\ counts.completed = Cardinality(Sched!Completed(st))
          /\ counts.failed = Cardinality(Sched!Failed(st))
      BY <1>1, <2>1, StateMembers DEF ScheduleInv, Counted
    <3>2. counts.completed <= Cardinality(Node) /\ counts.failed <= Cardinality(Node)
      BY <1>1, <3>1, FS_Subset
    <3> QED BY <1>1, <3>2 DEF ScheduleData
  <2>2. CASE phase # "run"
    BY <1>1, <2>2 DEF ScheduleInv, ScheduleData, Detecting, Sorting, Untouched
  <2> QED BY <2>1, <2>2
<1> QED BY <1>1, <1>2, SchedCardinality DEF ScheduleData, Sched!TypeOK, Sched!SubtaskState

\* What the three parts of ScheduleExact say follows from the invariant of the
\* phase: the outcome, because completed nodes are both closed and grounded.
LEMMA ScheduleKept ==
  ScheduleInv => Sched!LevelsInOrder /\ Sched!ScheduleExact /\ Sched!CycleVerdictExact
<1> SUFFICES ASSUME ScheduleInv
             PROVE  Sched!LevelsInOrder /\ Sched!ScheduleExact /\ Sched!CycleVerdictExact
  OBVIOUS
<1>1. ScheduleData /\ deps \in Plans /\ DOMAIN deps = Node /\ DOMAIN st = Node
      /\ MaxConcurrency \in Nat /\ phase \in {"detect", "sort", "run"}
  BY PlanFacts DEF ScheduleInv, ScheduleData
<1>2. Sched!LevelsInOrder
  <2>1. CASE phase = "run"
    BY <1>1, <2>1, StateMembers, SchedCardinality
       DEF ScheduleInv, Executing, Counted, Sched!LevelsInOrder
  <2>2. CASE phase # "run"
    <3>1. Sched!Running = {}
      BY <1>1, <2>2, StateMembers DEF ScheduleInv, Detecting, Sorting, Untouched
    <3> QED BY <1>1, <3>1, SchedCardinality, FS_EmptySet DEF Sched!LevelsInOrder
  <2> QED BY <2>1, <2>2
<1>3. Sched!ScheduleExact
  <2> DEFINE bad == {n \in Sched!Failed(st) : deps[n] \subseteq Sched!Completed(st)}
  <2> SUFFICES ASSUME verdict = "done"
               PROVE  /\ Sched!Terminal(st) = DOMAIN deps
                      /\ Sched!Completed(st) = Sched!Reachable(deps, bad)
                      /\ errors = Sched!Failed(st)
                      /\ counts = [completed |-> Cardinality(Sched!Completed(st)),
                                   failed |-> Cardinality(Sched!Failed(st))]
    BY SchedCardinality DEF Sched!ScheduleExact
  <2>1. phase = "run" /\ levels = << >> /\ Executing /\ Counted /\ Grounded
    BY <1>1 DEF ScheduleInv, Detecting, Sorting, Executing
  <2>2. \A n \in Node : st[n] \in {"completed", "failed"}
    BY <2>1 DEF Executing
  <2>3. Sched!Terminal(st) = DOMAIN deps
    BY <1>1, <2>2, StateMembers DEF Sched!Terminal
  <2>4. counts = [completed |-> Cardinality(Sched!Completed(st)),
                  failed |-> Cardinality(Sched!Failed(st))]
    BY <1>1, <2>1 DEF ScheduleData, Counted
  <2>5. Sched!Closed(deps, bad, Sched!Completed(st))
    BY <1>1, <2>2, StateMembers DEF Sched!Closed
  <2>6. Sched!Completed(st) \in SUBSET Node
    BY <1>1, StateMembers
  <2>7. Sched!Reachable(deps, bad) \subseteq Sched!Completed(st)
    BY <1>1, <2>5, <2>6 DEF Sched!Reachable
  <2>8. ASSUME NEW C \in SUBSET Node, Sched!Closed(deps, bad, C) PROVE Sched!Completed(st) \subseteq C
    <3>1. \A s \in Sched!Completed(st) : s \in DOMAIN deps \ bad
      BY <1>1, StateMembers
    <3> QED BY <2>1, <2>8, <3>1 DEF Sched!Closed, Grounded
  <2>9. Sched!Completed(st) \subseteq Sched!Reachable(deps, bad)
    BY <1>1, <2>6, <2>8 DEF Sched!Reachable
  <2> QED BY <2>1, <2>3, <2>4, <2>7, <2>9 DEF Counted
<1>4. Sched!CycleVerdictExact
  <2>1. ASSUME verdict = "cycle" PROVE st = Sched!AllPending(deps) /\ Sched!Reachable(deps, {}) # DOMAIN deps
    <3>1. phase = "detect" /\ Detecting /\ Degrees /\ queue = {} /\ visited # Cardinality(Node)
      BY <1>1, <2>1 DEF ScheduleInv, Detecting, Sorting, Executing
    <3>2. Popped # Node
      BY <3>1 DEF Detecting
    <3>3. Sched!Reachable(deps, {}) \subseteq Popped /\ Popped \subseteq Node
      BY <1>1, <3>1, DrainedClosed, ReachableIs DEF ScheduleData
    <3>4. st = Sched!AllPending(deps)
      BY <1>1, <3>1 DEF Detecting, Untouched, Sched!AllPending
    <3> QED BY <1>1, <3>2, <3>3, <3>4
  <2>2. ASSUME levels # << >> PROVE Sched!Reachable(deps, {}) = DOMAIN deps
    BY <1>1, <2>2 DEF ScheduleInv, Detecting, Sorting, Executing, Acyclic
  <2> QED BY <2>1, <2>2 DEF Sched!CycleVerdictExact
<1> QED BY <1>2, <1>3, <1>4

-----------------------------------------------------------------------------
(* All of them.                                                            *)

LEMMA InitInv == Init => Inv
BY AgentsInit, BeatInit, ScheduleInit, HubInit, MessengerInit DEF Init, Inv

\* Nothing of a component changes while its variables do not.
LEMMA AgentsSame == ASSUME AgentsInv, UNCHANGED agentVars PROVE AgentsInv'
BY DEF agentVars, AgentsInv
LEMMA BeatSame == ASSUME Beat!TypeOK, UNCHANGED presenceVars PROVE Beat!TypeOK'
BY DEF presenceVars, Beat!TypeOK
LEMMA ScheduleSame == ASSUME ScheduleInv, UNCHANGED scheduleVars PROVE ScheduleInv'
<1>1. UNCHANGED <<deps, st, phase, inDeg, queue, visited, levels, launched, waiting, errors, counts, verdict>>
  BY DEF scheduleVars
<1>2. /\ Sched!Completed(st)' = Sched!Completed(st) /\ Sched!Failed(st)' = Sched!Failed(st)
      /\ Sched!Running' = Sched!Running /\ Popped' = Popped
  BY <1>1 DEF Sched!Completed, Sched!Failed, Sched!Running, Popped
<1>3. Sched!Reachable(deps, {})' = Sched!Reachable(deps, {})
  BY <1>1 DEF Sched!Reachable, Sched!Closed
<1>4. ScheduleData'
  BY <1>1 DEF ScheduleInv, ScheduleData
<1>5. ASSUME phase = "detect" PROVE Detecting'
  BY <1>1, <1>2, <1>5 DEF ScheduleInv, Detecting, Untouched, Degrees, Sched!Closed
<1>6. ASSUME phase = "sort" PROVE Sorting'
  BY <1>1, <1>2, <1>3, <1>6 DEF ScheduleInv, Sorting, Untouched, Degrees, Ordered, Acyclic
<1>7. ASSUME phase = "run" PROVE Executing' /\ Counted' /\ Grounded'
  BY <1>1, <1>2, <1>3, <1>7 DEF ScheduleInv, Executing, Ordered, Acyclic, Counted, Grounded
<1> QED BY <1>1, <1>4, <1>5, <1>6, <1>7 DEF ScheduleInv
LEMMA HubSame == ASSUME HubInv, UNCHANGED hubVars PROVE HubInv'
BY DEF hubVars, HubInv, HubData, EntersOnce, Numbered, Hub!PanicOnlyAfterStop
LEMMA MessengerSame == ASSUME MessengerInv, UNCHANGED messengerVars PROVE MessengerInv'
BY DEF messengerVars, MessengerInv, Msg!Taken

LEMMA InvStep == ASSUME Inv, [Next]_vars PROVE Inv'
<1>0. AgentsInv /\ Beat!TypeOK /\ ScheduleInv /\ HubInv /\ MessengerInv
  BY DEF Inv
<1>1. CASE AgentsNext
  BY <1>0, <1>1, AgentsStep, BeatSame, ScheduleSame, HubSame, MessengerSame DEF AgentsNext, Inv
<1>2. CASE PresenceNext
  BY <1>0, <1>2, AgentsSame, BeatStep, ScheduleSame, HubSame, MessengerSame DEF PresenceNext, Inv
<1>3. CASE ScheduleNext
  BY <1>0, <1>3, AgentsSame, BeatSame, ScheduleStep, HubSame, MessengerSame DEF ScheduleNext, Inv
<1>4. CASE HubNext
  BY <1>0, <1>4, AgentsSame, BeatSame, ScheduleSame, HubStepLemma, MessengerSame DEF HubNext, Inv
<1>5. CASE MessengerNext
  BY <1>0, <1>5, AgentsSame, BeatSame, ScheduleSame, HubSame, MessengerStep DEF MessengerNext, Inv
<1>6. CASE UNCHANGED vars
  BY <1>0, <1>6, AgentsSame, BeatSame, ScheduleSame, HubSame, MessengerSame DEF vars, Inv
<1> QED BY <1>1, <1>2, <1>3, <1>4, <1>5, <1>6 DEF Next

\* Whatever part a behaviour picks, every component keeps its inductive invariant.
THEOREM Invariance == Spec => []Inv
<1>1. Inv /\ [Next]_vars => Inv'
  BY InvStep
<1> QED BY <1>1, InitInv, PTL DEF Spec

\* Every component keeps its types: channels stay within their capacities, the
\* counts of a schedule within its subtasks, pending requests within their limit.
THEOREM TypeCorrect == Spec => []TypeOK
<1>1. Inv => TypeOK
  BY AgentsTypes, ScheduleTypes, HubKept, MessengerKept DEF Inv, TypeOK
<1> QED BY <1>1, Invariance, PTL

\* task.ParallelScheduler: whatever the plan, the limit and the order in which
\* subtasks end, one runs when all it depends on has completed and at most
\* MaxConcurrency at a time; Schedule completes what can be reached around the
\* failures, reports the rest, and rejects exactly the impossible plans.
THEOREM ScheduleExactHolds == Spec => []ScheduleExact
<1>1. Inv => ScheduleExact
  BY ScheduleKept DEF Inv, ScheduleExact
<1> QED BY <1>1, Invariance, PTL

\* websocket.Hub and the messenger: whatever the sizes of the channels, nothing
\* is repeated, reordered or sent on a closed channel before Stop; a request is
\* taken by one of those that could answer it, and none is left behind.
THEOREM MessagesExactHolds == Spec => []MessagesExact
<1>1. Inv => MessagesExact
  BY HubKept, MessengerKept DEF Inv, MessagesExact
<1> QED BY <1>1, Invariance, PTL

\* agent.Service: a deleted agent never returns, and a write by somebody who has
\* seen what it replaces follows stateTransitions, whoever else writes.
THEOREM LifecycleKeptHolds == Spec => LifecycleKept
<1> DEFINE Kept(a) ==
      /\ repo[a] = Agents!Gone => repo'[a] = Agents!Gone
      /\ Agents!Exists(a) /\ repo'[a] # repo[a] /\ a \notin lost' =>
           \/ repo'[a].state \in Agents!Transitions(repo[a].state) /\ repo'[a].config = repo[a].config
           \/ repo[a].state # "running" /\ repo'[a].state \in {repo[a].state, "deleted"}
<1>1. Inv /\ [Next]_vars => [\A a \in Agent : Kept(a)]_(Agents!vars)
  <2> SUFFICES ASSUME Inv, Next, ~UNCHANGED Agents!vars PROVE \A a \in Agent : Kept(a)
    BY DEF vars, agentVars, Agents!vars
  <2>1. CASE AgentsNext
    BY <2>1, AgentsKept DEF AgentsNext, Inv, Legal
  <2>2. CASE ~AgentsNext
    BY <2>2 DEF Next, PresenceNext, ScheduleNext, HubNext, MessengerNext, agentVars, Agents!vars
  <2> QED BY <2>1, <2>2
<1> QED BY <1>1, Invariance, PTL DEF Spec, LifecycleKept, Agents!LifecycleKept

\* agent.Presence: only a heartbeat, or an entry within its timeout, is seen
\* online, and the reaper changes nothing that is seen.
THEOREM OnlineNeedsHeartbeatHolds == Spec => OnlineNeedsHeartbeat
<1> DEFINE Seen ==
      /\ \A a \in Peer : Beat!GetStatus(a)' # "offline" /\ Beat!GetStatus(a) = "offline" =>
           entries'[a].age = 0
           \/ (Beat!Tracked(a) /\ ~Beat!Expired(a) /\ entries'[a].age = entries[a].age)
      /\ Beat!Reap => \A a \in Peer : Beat!GetStatus(a)' = Beat!GetStatus(a)
<1>1. Inv /\ [Next]_vars => [Seen]_(Beat!vars)
  <2> SUFFICES ASSUME Inv, Next, ~UNCHANGED Beat!vars PROVE Seen
    BY DEF vars, presenceVars, Beat!vars
  <2>1. CASE PresenceNext
    BY <2>1, BeatKept DEF PresenceNext, Inv
  <2>2. CASE ~PresenceNext
    BY <2>2 DEF Next, AgentsNext, ScheduleNext, HubNext, MessengerNext, presenceVars, Beat!vars
  <2> QED BY <2>1, <2>2
<1> QED BY <1>1, Invariance, PTL DEF Spec, OnlineNeedsHeartbeat, Beat!OnlineNeedsHeartbeat
=============================================================================
