------------------------------- MODULE WsHub -------------------------------
(***************************************************************************)
(* websocket.Hub and websocket.Client (internal/websocket): the hub's      *)
(* event loop owns the set of clients and is fed by three channels; every  *)
(* client has a read pump, which leaves through Unregister, and a write    *)
(* pump, which empties the client's send channel.  The indexes by user and *)
(* by id are changed together with `clients`, under its lock, and are      *)
(* derived here.                                                           *)
(***************************************************************************)
EXTENDS Naturals, Sequences, FiniteSets

CONSTANTS
  Client,
  RegisterCap,   \* capacity of register and of unregister (64 in NewHub)
  BroadcastCap,  \* capacity of broadcast (256)
  SendCap,       \* capacity of Client.send (256)
  MaxMessages    \* bound: envelopes ever sent

VARIABLES
  register, unregister, broadcast,  \* the hub's channels
  clients,    \* Hub.clients
  loop,       \* Hub.Run is "on" or "off"
  stopping,   \* stopCh is closed
  swept,      \* Stop has closed the clients
  panicked,   \* the process has died of a send on, or a close of, a closed channel
  closed,     \* Client.closed: the clients whose send channel is closed
  send,       \* Client.send
  connOpen,   \* the clients whose connection is open on this side
  reader,     \* where ReadPump is
  writer,     \* where WritePump is
  written,    \* history: the messages the write pump has put on the connection
  messages    \* how many envelopes were ever sent

channels == <<register, unregister, broadcast>>
pumps == <<reader, writer, written>>
vars == <<channels, clients, loop, stopping, swept, panicked, closed, send, connOpen,
          pumps, messages>>

Init ==
  /\ register = << >> /\ unregister = << >> /\ broadcast = << >>
  /\ clients = {} /\ loop = "on" /\ stopping = FALSE /\ swept = FALSE /\ panicked = FALSE
  /\ closed = {} /\ connOpen = {} /\ messages = 0
  /\ send = [c \in Client |-> << >>]
  /\ reader = [c \in Client |-> "none"] /\ writer = [c \in Client |-> "none"]
  /\ written = [c \in Client |-> << >>]

Running == ~panicked /\ loop = "on"

-----------------------------------------------------------------------------
\* HandleWS: Register blocks while its channel is full, then the pumps start.
Connect(c) ==
  /\ ~panicked /\ reader[c] = "none"
  /\ Len(register) < RegisterCap
  /\ register' = Append(register, c)
  /\ connOpen' = connOpen \cup {c}
  /\ reader' = [reader EXCEPT ![c] = "read"]
  /\ writer' = [writer EXCEPT ![c] = "write"]
  /\ UNCHANGED <<unregister, broadcast, clients, loop, stopping, swept, panicked, closed, send, written, messages>>

\* Hub.Send by a caller outside; `to` is the set of connections it resolves to
\* when the hub gets to it: one, those of a user, or all.
Envelope(n, to) == [no |-> n, to |-> to]

Post(to) ==
  /\ ~panicked /\ messages < MaxMessages
  /\ Len(broadcast) < BroadcastCap
  /\ messages' = messages + 1
  /\ broadcast' = Append(broadcast, Envelope(messages', to))
  /\ UNCHANGED <<register, unregister, clients, loop, stopping, swept, panicked, closed, send, connOpen, pumps>>

-----------------------------------------------------------------------------
\* Run's select takes any channel that is ready.
OnRegister ==
  /\ Running /\ register # << >>
  /\ register' = Tail(register)
  /\ clients' = clients \cup {Head(register)}
  /\ UNCHANGED <<unregister, broadcast, loop, stopping, swept, panicked, closed, send, connOpen, pumps, messages>>

\* Mutant of OnUnregister: the client is closed but stays in the set.
OnUnregisterKeeps ==
  /\ Running /\ unregister # << >>
  /\ unregister' = Tail(unregister)
  /\ LET c == Head(unregister) IN
       closed' = IF c \in clients THEN closed \cup {c} ELSE closed
  /\ UNCHANGED <<register, broadcast, clients, loop, stopping, swept, panicked, send, connOpen, pumps, messages>>

\* A client that is not in the set is ignored; the send channel is closed
\* unless Close has done it.
OnUnregister ==
  /\ Running /\ unregister # << >>
  /\ unregister' = Tail(unregister)
  /\ LET c == Head(unregister) IN
     /\ clients' = clients \ {c}
     /\ closed' = IF c \in clients THEN closed \cup {c} ELSE closed
  /\ UNCHANGED <<register, broadcast, loop, stopping, swept, panicked, send, connOpen, pumps, messages>>

\* Mutant of OnBroadcast: a full send channel is not looked at.
OnBroadcastUnbounded ==
  /\ Running /\ broadcast # << >>
  /\ broadcast' = Tail(broadcast)
  /\ LET targets == clients \cap Head(broadcast).to IN
     /\ panicked' = (targets \cap closed # {})
     /\ send' = [c \in Client |->
          IF c \in targets THEN Append(send[c], Head(broadcast).no) ELSE send[c]]
  /\ UNCHANGED <<register, unregister, clients, loop, stopping, swept, closed, connOpen, pumps, messages>>

\* A full send channel drops the message; a closed one is fatal.
OnBroadcast ==
  /\ Running /\ broadcast # << >>
  /\ broadcast' = Tail(broadcast)
  /\ LET targets == clients \cap Head(broadcast).to IN
     IF targets \cap closed # {}
     THEN panicked' = TRUE /\ UNCHANGED send
     ELSE /\ send' = [c \in Client |->
               IF c \in targets /\ Len(send[c]) < SendCap
               THEN Append(send[c], Head(broadcast).no) ELSE send[c]]
          /\ UNCHANGED panicked
  /\ UNCHANGED <<register, unregister, clients, loop, stopping, swept, closed, connOpen, pumps, messages>>

LoopEnds ==
  /\ Running /\ stopping
  /\ loop' = "off"
  /\ UNCHANGED <<channels, clients, stopping, swept, panicked, closed, send, connOpen, pumps, messages>>

\* Stop closes stopCh and then, under the hub's lock, every client.
Stop ==
  /\ ~panicked /\ ~stopping
  /\ stopping' = TRUE
  /\ UNCHANGED <<channels, clients, loop, swept, panicked, closed, send, connOpen, pumps, messages>>

StopCloses ==
  /\ ~panicked /\ stopping /\ ~swept
  /\ swept' = TRUE
  /\ closed' = closed \cup clients
  /\ connOpen' = connOpen \ (clients \ closed)
  /\ UNCHANGED <<channels, clients, loop, stopping, panicked, send, pumps, messages>>

-----------------------------------------------------------------------------
\* ReadPump got a message; handleMessage sends it to all through the hub.
ReadMessage(c) ==
  /\ ~panicked /\ reader[c] = "read" /\ c \in connOpen
  /\ messages < MaxMessages
  /\ reader' = [reader EXCEPT ![c] = "forward"]
  /\ UNCHANGED <<channels, clients, loop, stopping, swept, panicked, closed, send, connOpen, writer, written, messages>>

Forward(c) ==
  /\ ~panicked /\ reader[c] = "forward" /\ Len(broadcast) < BroadcastCap
  /\ messages' = messages + 1
  /\ broadcast' = Append(broadcast, Envelope(messages', Client))
  /\ reader' = [reader EXCEPT ![c] = "read"]
  /\ UNCHANGED <<register, unregister, clients, loop, stopping, swept, panicked, closed, send, connOpen, writer, written>>

\* The peer left, was silent for pongWait, or the connection was closed here.
ReadFails(c) ==
  /\ ~panicked /\ reader[c] = "read"
  /\ reader' = [reader EXCEPT ![c] = "leave"]
  /\ UNCHANGED <<channels, clients, loop, stopping, swept, panicked, closed, send, connOpen, writer, written, messages>>

\* The deferred function of ReadPump: Unregister blocks while its channel is full.
Leave(c) ==
  /\ ~panicked /\ reader[c] = "leave" /\ Len(unregister) < RegisterCap
  /\ unregister' = Append(unregister, c)
  /\ connOpen' = connOpen \ {c}
  /\ reader' = [reader EXCEPT ![c] = "done"]
  /\ UNCHANGED <<register, broadcast, clients, loop, stopping, swept, panicked, closed, send, writer, written, messages>>

WriterEnds(c) ==
  /\ writer' = [writer EXCEPT ![c] = "done"]
  /\ connOpen' = connOpen \ {c}

\* Mutant of Write: the batch is written before the message it was taken for.
WriteBatchFirst(c) ==
  /\ ~panicked /\ writer[c] = "write" /\ send[c] # << >>
  /\ send' = [send EXCEPT ![c] = << >>]
  /\ IF c \in connOpen
     THEN /\ written' = [written EXCEPT ![c] = @ \o Tail(send[c]) \o <<Head(send[c])>>]
          /\ UNCHANGED <<writer, connOpen>>
     ELSE WriterEnds(c) /\ UNCHANGED written
  /\ UNCHANGED <<channels, clients, loop, stopping, swept, panicked, closed, reader, messages>>

\* WritePump takes a message and all that are queued behind it.
Write(c) ==
  /\ ~panicked /\ writer[c] = "write" /\ send[c] # << >>
  /\ send' = [send EXCEPT ![c] = << >>]
  /\ IF c \in connOpen
     THEN /\ written' = [written EXCEPT ![c] = @ \o send[c]]
          /\ UNCHANGED <<writer, connOpen>>
     ELSE WriterEnds(c) /\ UNCHANGED written
  /\ UNCHANGED <<channels, clients, loop, stopping, swept, panicked, closed, reader, messages>>

\* Mutant of WriteFails: a ping on a closed connection goes unnoticed.
WriteFailsOnlyWhenOpen(c) ==
  /\ ~panicked /\ writer[c] = "write" /\ c \in connOpen
  /\ WriterEnds(c)
  /\ UNCHANGED <<channels, clients, loop, stopping, swept, panicked, closed, send, reader, written, messages>>

\* The ticker's ping, or a write, fails: for certain if the connection is closed.
WriteFails(c) ==
  /\ ~panicked /\ writer[c] = "write"
  /\ WriterEnds(c)
  /\ UNCHANGED <<channels, clients, loop, stopping, swept, panicked, closed, send, reader, written, messages>>

\* The send channel is closed and empty.
WriterSeesClose(c) ==
  /\ ~panicked /\ writer[c] = "write" /\ c \in closed /\ send[c] = << >>
  /\ WriterEnds(c)
  /\ UNCHANGED <<channels, clients, loop, stopping, swept, panicked, closed, send, reader, written, messages>>

HubStep == OnRegister \/ OnUnregister \/ OnBroadcast \/ LoopEnds
Targets == {Client} \cup {{c} : c \in Client}

Next ==
  \/ HubStep \/ Stop \/ StopCloses
  \/ \E to \in Targets : Post(to)
  \/ \E c \in Client :
       \/ Connect(c) \/ ReadMessage(c) \/ Forward(c) \/ ReadFails(c) \/ Leave(c)
       \/ Write(c) \/ WriteFails(c) \/ WriterSeesClose(c)

ReaderGoesOn(c) == Forward(c) \/ Leave(c) \/ (c \notin connOpen /\ ReadFails(c))

\* The hub goes on as long as one of its channels is ready, blocked senders do
\* when there is room, and a closed connection fails the next read and ping.
\* Connections and messages being bounded, this serves every channel.
Fairness ==
  /\ WF_vars(HubStep)
  /\ \A c \in Client :
       WF_vars(ReaderGoesOn(c)) /\ WF_vars(c \notin connOpen /\ WriteFails(c))

Spec == Init /\ [][Next]_vars /\ Fairness

-----------------------------------------------------------------------------
TypeOK ==
  /\ clients \subseteq Client /\ closed \subseteq Client /\ connOpen \subseteq Client
  /\ Len(register) <= RegisterCap /\ Len(unregister) <= RegisterCap
  /\ Len(broadcast) <= BroadcastCap
  /\ \A c \in Client :
       /\ Len(send[c]) <= SendCap
       /\ reader[c] \in {"none", "read", "forward", "leave", "done"}
       /\ writer[c] \in {"none", "write", "done"}

\* Messages may be dropped on their way to a client but are neither repeated nor
\* reordered, whatever the pumps and the hub do in between.
WrittenInOrder ==
  \A c \in Client : LET all == written[c] \o send[c] IN
    \A a, b \in DOMAIN all : a < b => all[a] < all[b]

\* The hub never sends on a closed channel while it is in service: only Stop
\* closes clients that are still in the set.
PanicOnlyAfterStop ==
  /\ panicked => stopping
  /\ ~stopping => clients \cap closed = {}

\* When one of the pumps of a client has ended the other one ends too, unless
\* the hub stops and no longer empties its channels.
PumpsEndTogether ==
  \A c \in Client :
    (reader[c] = "done" \/ writer[c] = "done")
      ~> (stopping \/ (reader[c] = "done" /\ writer[c] = "done"))

\* What the comment on Hub says: it keeps the set of active clients.  A client
\* that has left, and whose unregister request the hub has served, is not in it.
OnlyActiveClients ==
  \A c \in clients : reader[c] = "done" => \E k \in DOMAIN unregister : unregister[k] = c
=============================================================================
