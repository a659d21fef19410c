----------------------------- MODULE McpClient -----------------------------
(***************************************************************************)
(* mcp.Client over stdioTransport (internal/mcp): requests to a program on *)
(* its standard input, answers from its standard output, told apart by id. *)
(* Callers register an id, write under a lock and wait for the answer, the *)
(* timeout or the end of the connection; a reader hands the answers out.   *)
(* The server answers what it likes, in any order, or not at all.          *)
(***************************************************************************)
EXTENDS Naturals, Sequences

CONSTANTS
  Caller, First,  \* callers; the first one connects
  Kind,       \* kinds of answers: a result, an error
  MaxId,      \* bound: calls of a connection
  Capacity,   \* lines the pipe to the server holds
  MaxLines,   \* bound: lines in the pipe from it
  MaxNoise    \* maxNonJSONLines

VARIABLES
  phase,      \* Connect: shaking hands, ready, failed
  nextID,
  pending,    \* the registered ids
  channel,    \* the answer in the channel of each of them
  op,         \* the call each caller is in, and what the last one returned
  writer,     \* who holds writeMu
  unread,     \* lines the server has not read
  stdout,     \* lines the client has not read
  server,     \* running, exited
  skipped,    \* skippedLines
  reader,     \* readLoop is reading
  closed,     \* Client.closed is closed
  transport,  \* stdioTransport: open, closing, closed
  readErr, err  \* the first errors of the reader and of the transport

vars == <<phase, nextID, pending, channel, op, writer, unread, stdout, server, skipped,
          reader, closed, transport, readErr, err>>
conn == <<reader, closed, transport, readErr, err>>
calls == <<nextID, pending, channel, op, writer>>
pipes == <<unread, stdout, server, skipped>>

Nobody == "nobody"
Nothing == [kind |-> "nothing"]
Answer == [kind : Kind, id : 1..MaxId]
Line == Answer \cup [kind : {"notification", "garbage", "noise"}]
Idle(outcome) == [pc |-> "idle", outcome |-> outcome.kind]

Init ==
  /\ phase = "handshake"
  /\ nextID = 0 /\ pending = {} /\ channel = [i \in 1..MaxId |-> Nothing]
  /\ op = [c \in Caller |-> Idle(Nothing)]
  /\ writer = Nobody
  /\ unread = 0 /\ stdout = <<>> /\ server = "running" /\ skipped = 0
  /\ reader = TRUE /\ closed = FALSE /\ transport = "open"
  /\ readErr = "nil" /\ err = "nil"

-----------------------------------------------------------------------------
\* A call.
Go(c, pc) == op' = [op EXCEPT ![c].pc = pc]
TransportErr == [kind |-> IF readErr = "nil" THEN "closed" ELSE readErr]

\* Before the handshake is over only it calls.
MayCall(c) == phase = "ready" \/ (phase = "handshake" /\ c = First /\ op[c] = Idle(Nothing))

Refuse(c) ==
  /\ op[c].pc = "idle" /\ MayCall(c) /\ closed
  /\ op' = [op EXCEPT ![c] = Idle(TransportErr)]
  /\ UNCHANGED <<phase, nextID, pending, channel, writer, pipes, conn>>

Register(c) ==
  /\ op[c].pc = "idle" /\ MayCall(c) /\ ~closed /\ nextID < MaxId
  /\ nextID' = nextID + 1
  /\ pending' = pending \cup {nextID'}
  /\ op' = [op EXCEPT ![c] = [pc |-> "send", id |-> nextID']]
  /\ UNCHANGED <<phase, channel, writer, pipes, conn>>

\* Mutant of Return: an id stays registered after its call.
ReturnOnly(c, outcome) ==
  /\ op' = [op EXCEPT ![c] = Idle(outcome)]
  /\ channel' = [channel EXCEPT ![op[c].id] = Nothing]
  /\ UNCHANGED pending

\* Every return takes the id out.
Return(c, outcome) ==
  /\ op' = [op EXCEPT ![c] = Idle(outcome)]
  /\ pending' = pending \ {op[c].id}
  /\ channel' = [channel EXCEPT ![op[c].id] = Nothing]

\* Send: not on a transport with an error, nor for a context that has ended ...
Send(c) ==
  /\ op[c].pc = "send"
  /\ \/ err = "nil" /\ Go(c, "lock") /\ UNCHANGED <<pending, channel>>
     \/ err # "nil" /\ Return(c, [kind |-> err])
     \/ Return(c, [kind |-> "gave up"])
  /\ UNCHANGED <<phase, nextID, writer, pipes, conn>>

Lock(c) ==
  /\ op[c].pc = "lock" /\ writer = Nobody
  /\ writer' = c
  /\ Go(c, "write")
  /\ UNCHANGED <<phase, nextID, pending, channel, pipes, conn>>

\* ... and the write blocks while the pipe is full: no timer runs yet.
Write(c) ==
  /\ op[c].pc = "write"
  /\ \/ /\ server = "running" /\ transport = "open" /\ unread < Capacity
        /\ unread' = unread + 1
        /\ Go(c, "wait")
        /\ UNCHANGED <<pending, channel, err>>
     \/ /\ server = "exited" \/ transport # "open"
        /\ err' = IF err = "nil" THEN "transport" ELSE err
        /\ Return(c, [kind |-> "transport"])
        /\ UNCHANGED unread
  /\ writer' = Nobody
  /\ UNCHANGED <<phase, nextID, stdout, server, skipped, reader, closed, transport, readErr>>

Receive(c) ==
  /\ op[c].pc = "wait" /\ channel[op[c].id] # Nothing
  /\ Return(c, channel[op[c].id])
  /\ UNCHANGED <<phase, nextID, writer, pipes, conn>>

\* Its timeout, or its context.
Timeout(c) ==
  /\ op[c].pc = "wait"
  /\ Return(c, [kind |-> "gave up"])
  /\ UNCHANGED <<phase, nextID, writer, pipes, conn>>

WakeUp(c) ==
  /\ op[c].pc = "wait" /\ closed
  /\ Return(c, TransportErr)
  /\ UNCHANGED <<phase, nextID, writer, pipes, conn>>

\* Connect: an answer to the first call and a notification that is written
\* make the connection; anything else closes it.
Connected ==
  /\ phase = "handshake" /\ op[First].pc = "idle"
  /\ op[First].outcome = "result" /\ err = "nil" /\ unread < Capacity
  /\ phase' = "ready"
  /\ unread' = unread + 1
  /\ UNCHANGED <<calls, stdout, server, skipped, conn>>

NotConnected ==
  /\ phase = "handshake" /\ op[First].pc = "idle" /\ op[First].outcome # Nothing.kind
  /\ op[First].outcome = "result" => err # "nil" \/ server = "exited"
  /\ phase' = "failed"
  /\ UNCHANGED <<calls, pipes, conn>>

-----------------------------------------------------------------------------
\* The server: it reads, writes and exits when it likes.
ServerReads ==
  /\ server = "running" /\ unread > 0
  /\ unread' = unread - 1
  /\ UNCHANGED <<phase, calls, stdout, server, skipped, conn>>

ServerWrites ==
  /\ server = "running" /\ Len(stdout) < MaxLines
  /\ \E l \in Line : stdout' = Append(stdout, l)
  /\ UNCHANGED <<phase, calls, unread, server, skipped, conn>>

ServerExits ==
  /\ server = "running"
  /\ server' = "exited"
  /\ UNCHANGED <<phase, calls, unread, stdout, skipped, conn>>

-----------------------------------------------------------------------------
\* readLoop: the first error ends it and wakes the callers up.
ReaderEnds(cause) ==
  /\ readErr' = cause
  /\ reader' = FALSE
  /\ closed' = TRUE

\* Mutant of Dispatch: an answer nobody waits for goes to whoever waits.
DispatchToAnyone(l) ==
  channel' = [i \in 1..MaxId |->
    IF i \in pending /\ (l.id = i \/ l.id \notin pending) /\ channel[i] = Nothing THEN l ELSE channel[i]]

\* An answer goes to the call with its id, if it is still registered and has
\* none yet.
Dispatch(l) ==
  channel' = [channel EXCEPT ![l.id] = IF l.id \in pending /\ @ = Nothing THEN l ELSE @]

\* Mutant of Skip: lines that are not JSON are skipped without end.
SkipForever ==
  /\ skipped' = skipped + 1
  /\ UNCHANGED <<reader, closed, readErr>>

\* A line that is not JSON: skipped, up to maxNonJSONLines of them.
Skip ==
  /\ skipped' = skipped + 1
  /\ IF skipped' > MaxNoise THEN ReaderEnds("protocol") ELSE UNCHANGED <<reader, closed, readErr>>

ReadLine ==
  /\ reader /\ err = "nil" /\ stdout # <<>>
  /\ stdout' = Tail(stdout)
  /\ LET l == Head(stdout) IN
       \/ l \in Answer /\ Dispatch(l) /\ UNCHANGED <<skipped, conn>>
       \/ /\ l.kind = "notification"
          /\ UNCHANGED <<skipped, channel, conn>>
       \/ /\ l.kind = "noise"
          /\ Skip
          /\ UNCHANGED <<channel, transport, err>>
       \/ /\ l.kind = "garbage"
          /\ ReaderEnds("protocol")
          /\ UNCHANGED <<skipped, channel, transport, err>>
  /\ UNCHANGED <<phase, nextID, pending, op, writer, unread, server>>

\* The pipe fails once the server is gone, lines still in it or not; or the
\* transport has an error already.
ReadFails ==
  /\ reader
  /\ \/ /\ server = "exited"
        /\ err' = IF err = "nil" THEN "transport" ELSE err
        /\ ReaderEnds("transport")
     \/ /\ err # "nil"
        /\ ReaderEnds(err)
        /\ UNCHANGED err
  /\ UNCHANGED <<phase, calls, pipes, transport>>

\* Close: the waiting calls are woken ...
Close ==
  /\ transport = "open" /\ phase # "handshake"
  /\ transport' = "closing"
  /\ closed' = TRUE
  /\ err' = IF err = "nil" THEN "closed" ELSE err
  /\ UNCHANGED <<phase, calls, pipes, reader, readErr>>

\* ... and the server is stopped.
StopServer ==
  /\ transport = "closing"
  /\ transport' = "closed"
  /\ server' = "exited"
  /\ UNCHANGED <<phase, calls, unread, stdout, skipped, reader, closed, readErr, err>>

Next ==
  \/ Connected \/ NotConnected \/ ServerReads \/ ServerWrites \/ ServerExits
  \/ ReadLine \/ ReadFails \/ Close \/ StopServer
  \/ \E c \in Caller :
       Refuse(c) \/ Register(c) \/ Send(c) \/ Lock(c) \/ Write(c) \/ Receive(c) \/ Timeout(c) \/ WakeUp(c)

\* The client's own steps and its timers; nothing is asked of the server.  A
\* connection that was not made is closed by Connect, the others by whom they belong to.
Fairness ==
  /\ WF_vars(ReadLine \/ ReadFails) /\ WF_vars(Connected \/ NotConnected) /\ WF_vars(StopServer)
  /\ WF_vars(phase = "failed" /\ Close)
  /\ \A c \in Caller : WF_vars(Send(c)) /\ SF_vars(Lock(c)) /\ WF_vars(Write(c)) /\ WF_vars(Timeout(c))

Spec == Init /\ [][Next]_vars /\ Fairness

-----------------------------------------------------------------------------
TypeOK ==
  /\ phase \in {"handshake", "ready", "failed"}
  /\ nextID \in 0..MaxId /\ pending \subseteq 1..MaxId
  /\ channel \in [1..MaxId -> Answer \cup {Nothing}]
  /\ writer \in Caller \cup {Nobody}
  /\ unread \in 0..Capacity /\ Len(stdout) <= MaxLines /\ skipped \in 0..(MaxNoise + 1)
  /\ readErr \in {"nil", "transport", "protocol", "closed"} /\ err \in {"nil", "transport", "closed"}
  /\ transport \in {"open", "closing", "closed"}

InFlight == {c \in Caller : op[c].pc # "idle"}

\* Ids are those of the calls under way, one each, and an answer waits in the
\* channel of its own id: a late, repeated or invented answer reaches nobody,
\* and none is left behind for a call to come.
AnswersExact ==
  /\ pending = {op[c].id : c \in InFlight}
  /\ \A c, d \in InFlight : op[c].id = op[d].id => c = d
  /\ \A i \in 1..MaxId : channel[i] # Nothing => channel[i].id = i /\ i \in pending

\* The end of the connection is told as it was: garbage on the pipe stays a
\* protocol error, whatever fails after it.
FirstErrorKept == [][readErr # "nil" => UNCHANGED <<readErr, closed, reader>>]_vars

\* A call that was sent ends, by an answer, its timer or the end of the
\* connection; and every call ends once the connection is closed.
SentCallEnds(c) ==
  op[c].pc = "wait" \/ (transport # "open" /\ op[c].pc # "idle") ~> op[c].pc = "idle"

\* A connection that could not be made leaves no server.
FailedIsStopped == phase = "failed" ~> server = "exited"

\* What the comment on requestTimeout says: it bounds every request.
EveryCallEnds == \A c \in Caller : op[c].pc # "idle" ~> op[c].pc = "idle"

\* What the comment on transportErr says: a connection that its own user has
\* closed is not reported as a fault of the server.
CloseIsNoFault ==
  err = "closed" => \A c \in Caller : op[c].pc = "idle" => op[c].outcome # "transport"
=============================================================================
