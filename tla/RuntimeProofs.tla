--------------------------- MODULE RuntimeProofs ---------------------------
(***************************************************************************)
(* Proofs about MCRuntime for every set of callers, sessions, browsers and *)
(* settings and every bound.  The components share no state, so each has   *)
(* an inductive invariant of its own, which its own steps keep and which   *)
(* the steps of the others do not touch.                                   *)
(***************************************************************************)
EXTENDS MCRuntime, TLAPS, FiniteSetTheorems

-----------------------------------------------------------------------------
(* TerminalSessions.                                                       *)

TerminalCall ==
  {Terminal!Idle}
  \cup [pc : {"copy", "execute", "run", "stream"}, session : Session]
  \cup [pc : {"update"}, session : Session, copy : Terminal!SessionSet]

\* The calls that are about to start a streamed command in s.
StreamCalls(s) == {c \in Client : tOp[c].pc = "stream" /\ tOp[c].session = s}

\* Whatever is in use has been created.
Created == [state : Terminal!State, size : Terminal!Size]

TerminalData ==
  /\ live \in [Session -> Terminal!SessionSet] /\ record \in [Session -> Terminal!SessionSet]
  /\ tOp \in [Client -> TerminalCall]
  /\ \A c \in Client : tOp[c].pc # "idle" => live[tOp[c].session] \in Created
  /\ streams \in [Session -> Nat]
  /\ \A s \in Session : streams[s] # 0 => live[s] \in Created
  /\ tSettled \subseteq Session /\ stuck \subseteq Session

\* A command that is about to start has been counted against the bound.
StreamsBounded ==
  \A s \in Session : streams[s] + Cardinality(StreamCalls(s)) <= MaxStreams + Cardinality(Client)

\* A call that is still under way on a settled session stores what it is: closed.
SettledCall(c, s) ==
  tOp[c] # Terminal!Idle /\ tOp[c].session = s =>
    tOp[c].pc = "copy" \/ (tOp[c].pc = "update" /\ tOp[c].copy = live[s])

SettledSession(s) ==
  /\ live[s].state = "closed" /\ streams[s] = 0
  /\ \A c \in Client : SettledCall(c, s)
  /\ Terminal!Calls(s) = {} => record[s] = live[s]

SettledSessions == \A s \in tSettled : SettledSession(s)

TerminalInv == TerminalData /\ StreamsBounded /\ SettledSessions /\ Terminal!RunningHasCommand

\* What a call under way is made of.
LEMMA TerminalCallType ==
  ASSUME TerminalData, NEW c \in Client, tOp[c].pc # "idle"
  PROVE  /\ tOp[c] # Terminal!Idle
         /\ tOp[c].session \in Session /\ live[tOp[c].session] \in Created
         /\ tOp[c].pc = "update" => tOp[c].copy \in Terminal!SessionSet
         /\ tOp[c].pc # "update" => tOp[c] \in [pc : {"copy", "execute", "run", "stream"}, session : Session]
BY DEF TerminalData, TerminalCall, Terminal!Idle

\* A session that has been created stays created, whatever is written.
LEMMA SessionWritten ==
  ASSUME TerminalData, NEW s \in Session, NEW x \in Created, live' = [live EXCEPT ![s] = x]
  PROVE  /\ live' \in [Session -> Terminal!SessionSet]
         /\ \A r \in Session : live[r] \in Created => live'[r] \in Created
<1>1. Created \subseteq Terminal!SessionSet
  BY DEF Created, Terminal!SessionSet
<1> QED BY <1>1 DEF TerminalData

LEMMA StateWritten ==
  ASSUME TerminalData, NEW s \in Session, live[s] \in Created, NEW st \in Terminal!State,
         Terminal!SetState(s, st)
  PROVE  /\ live' \in [Session -> Terminal!SessionSet]
         /\ \A r \in Session : live[r] \in Created => live'[r] \in Created
<1> DEFINE x == [live[s] EXCEPT !.state = st]
<1>1. x \in Created
  BY DEF Created
<1>2. live' = [live EXCEPT ![s] = x]
  BY DEF Terminal!SetState
<1> HIDE DEF x
<1> QED BY <1>1, <1>2, SessionWritten

\* A call begins or goes on with a session that has been created.
LEMMA CallWritten ==
  ASSUME TerminalData, NEW c \in Client, NEW call \in TerminalCall, Terminal!Go(c, call),
         call.pc # "idle" => live[call.session] \in Created,
         \A r \in Session : live[r] \in Created => live'[r] \in Created
  PROVE  /\ tOp' \in [Client -> TerminalCall]
         /\ \A d \in Client : tOp'[d].pc # "idle" => live'[tOp'[d].session] \in Created
<1>1. tOp' = [tOp EXCEPT ![c] = call] /\ tOp \in [Client -> TerminalCall]
  BY DEF Terminal!Go, TerminalData
<1>2. call.pc # "idle" => call.session \in Session
  BY DEF TerminalCall, Terminal!Idle
<1>3. ASSUME NEW d \in Client, tOp'[d].pc # "idle" PROVE live'[tOp'[d].session] \in Created
  <2>1. CASE d = c
    BY <2>1, <1>1, <1>2, <1>3
  <2>2. CASE d # c
    BY <2>2, <1>1, <1>3, TerminalCallType
  <2> QED BY <2>1, <2>2
<1> QED BY <1>1, <1>3

LEMMA TerminalDataStep == ASSUME TerminalData, Terminal!Next PROVE TerminalData'
<1>0. /\ live \in [Session -> Terminal!SessionSet] /\ record \in [Session -> Terminal!SessionSet]
      /\ tOp \in [Client -> TerminalCall]
      /\ \A d \in Client : tOp[d].pc # "idle" => live[tOp[d].session] \in Created
      /\ streams \in [Session -> Nat] /\ \A r \in Session : streams[r] # 0 => live[r] \in Created
      /\ tSettled \subseteq Session /\ stuck \subseteq Session
  BY DEF TerminalData
<1>1. \A s \in Session : Terminal!Open(s) => live[s] \in Created
  BY <1>0 DEF Created, Terminal!Open, Terminal!SessionSet, Terminal!NoSession, Terminal!State
<1>2. {"idle", "running", "closed"} \subseteq Terminal!State
  BY DEF Terminal!State
<1>3. \A s \in Session : \A k \in {"copy", "execute", "run", "stream"} : [pc |-> k, session |-> s] \in TerminalCall
  BY DEF TerminalCall
<1>4. Terminal!Idle \in TerminalCall /\ Terminal!Idle.pc = "idle"
  BY DEF TerminalCall, Terminal!Idle
<1>5. ASSUME NEW s \in Session, Terminal!CreateSession(s) PROVE TerminalData'
  BY <1>5 DEF TerminalData, Created, Terminal!CreateSession, Terminal!SessionSet, Terminal!State, Terminal!Size
<1>6. ASSUME NEW s \in Session, Terminal!StreamEnds(s) PROVE TerminalData'
  <2>1. live[s] \in Created /\ Terminal!SetState(s, "idle")
    BY <1>0, <1>6 DEF Terminal!StreamEnds
  <2>2. /\ live' \in [Session -> Terminal!SessionSet]
        /\ \A r \in Session : live[r] \in Created => live'[r] \in Created
    BY <2>1, <1>2, StateWritten
  <2>3. /\ streams' \in [Session -> Nat] /\ \A r \in Session : streams'[r] # 0 => streams[r] # 0
        /\ record' = record /\ tOp' = tOp /\ tSettled' = tSettled /\ stuck' = stuck
    BY <1>0, <1>6 DEF Terminal!StreamEnds
  <2>4. \A d \in Client : tOp[d].pc # "idle" => tOp[d].session \in Session
    BY TerminalCallType
  <2> QED BY <1>0, <2>2, <2>3, <2>4 DEF TerminalData
<1>7. ASSUME NEW c \in Client, Terminal!GetSession(c) PROVE TerminalData'
  <2>1. tOp[c].session \in Session /\ live[tOp[c].session] \in Created
    BY <1>7, TerminalCallType DEF Terminal!GetSession
  <2> DEFINE call == [pc |-> "update", session |-> tOp[c].session, copy |-> live[tOp[c].session]]
  <2>2. call \in TerminalCall /\ call.session = tOp[c].session
    BY <1>0, <2>1 DEF TerminalCall
  <2>3. Terminal!Go(c, call) /\ live' = live
    BY <1>7 DEF Terminal!GetSession
  <2> HIDE DEF call
  <2>4. /\ tOp' \in [Client -> TerminalCall]
        /\ \A d \in Client : tOp'[d].pc # "idle" => live'[tOp'[d].session] \in Created
    BY <2>1, <2>2, <2>3, CallWritten
  <2> QED BY <1>0, <1>7, <2>4 DEF TerminalData, Terminal!GetSession
<1>8. ASSUME NEW c \in Client, Terminal!Update(c) PROVE TerminalData'
  <2>1. tOp[c].session \in Session /\ tOp[c].copy \in Terminal!SessionSet
    BY <1>8, TerminalCallType DEF Terminal!Update
  <2>2. Terminal!Go(c, Terminal!Idle) /\ live' = live
    BY <1>8 DEF Terminal!Update
  <2>3. /\ tOp' \in [Client -> TerminalCall]
        /\ \A d \in Client : tOp'[d].pc # "idle" => live'[tOp'[d].session] \in Created
    BY <1>4, <2>2, CallWritten
  <2> QED BY <1>0, <1>8, <2>1, <2>3 DEF TerminalData, Terminal!Update
<1>9. ASSUME NEW c \in Client, Terminal!Enter(c) PROVE TerminalData'
  <2> DEFINE s == tOp[c].session
  <2>1. /\ s \in Session /\ live[s] \in Created
        /\ tOp[c] \in [pc : {"copy", "execute", "run", "stream"}, session : Session]
    BY <1>9, TerminalCallType DEF Terminal!Enter
  <2>2. [tOp[c] EXCEPT !.pc = "run"] = [pc |-> "run", session |-> s]
    BY <2>1
  <2>3. Terminal!Go(c, [pc |-> "run", session |-> s]) /\ Terminal!SetState(s, "running")
    BY <1>9, <2>2 DEF Terminal!Enter
  <2> HIDE DEF s
  <2>4. /\ live' \in [Session -> Terminal!SessionSet]
        /\ \A r \in Session : live[r] \in Created => live'[r] \in Created
    BY <2>1, <2>3, <1>2, StateWritten
  <2>5. /\ tOp' \in [Client -> TerminalCall]
        /\ \A d \in Client : tOp'[d].pc # "idle" => live'[tOp'[d].session] \in Created
    BY <1>3, <2>1, <2>3, <2>4, CallWritten
  <2> QED BY <1>0, <1>9, <2>4, <2>5 DEF TerminalData, Terminal!Enter
<1>10. ASSUME NEW c \in Client, Terminal!Leave(c) PROVE TerminalData'
  <2> DEFINE s == tOp[c].session
  <2>1. s \in Session /\ live[s] \in Created
    BY <1>10, TerminalCallType DEF Terminal!Leave
  <2>2. PICK call \in {Terminal!Idle, [pc |-> "copy", session |-> s]} : Terminal!Go(c, call)
    BY <1>10 DEF Terminal!Leave
  <2>3. Terminal!SetState(s, "idle")
    BY <1>10 DEF Terminal!Leave
  <2> HIDE DEF s
  <2>4. /\ live' \in [Session -> Terminal!SessionSet]
        /\ \A r \in Session : live[r] \in Created => live'[r] \in Created
    BY <2>1, <2>3, <1>2, StateWritten
  <2>5. /\ tOp' \in [Client -> TerminalCall]
        /\ \A d \in Client : tOp'[d].pc # "idle" => live'[tOp'[d].session] \in Created
    BY <1>3, <1>4, <2>1, <2>2, <2>4, CallWritten
  <2> QED BY <1>0, <1>10, <2>4, <2>5 DEF TerminalData, Terminal!Leave
<1>11. ASSUME NEW c \in Client, Terminal!StartStream(c) PROVE TerminalData'
  <2> DEFINE s == tOp[c].session
  <2>1. s \in Session /\ live[s] \in Created
    BY <1>11, TerminalCallType DEF Terminal!StartStream
  <2>2. Terminal!SetState(s, "running") /\ Terminal!Go(c, Terminal!Idle)
    BY <1>11 DEF Terminal!StartStream
  <2>3. /\ streams' \in [Session -> Nat] /\ \A r \in Session : streams'[r] # 0 => r = s \/ streams[r] # 0
        /\ stuck' \subseteq Session /\ record' = record /\ tSettled' = tSettled
    BY <1>0, <1>11, <2>1 DEF Terminal!StartStream
  <2> HIDE DEF s
  <2>4. /\ live' \in [Session -> Terminal!SessionSet]
        /\ \A r \in Session : live[r] \in Created => live'[r] \in Created
    BY <2>1, <2>2, <1>2, StateWritten
  <2>5. /\ tOp' \in [Client -> TerminalCall]
        /\ \A d \in Client : tOp'[d].pc # "idle" => live'[tOp'[d].session] \in Created
    BY <1>4, <2>2, <2>4, CallWritten
  <2> QED BY <1>0, <2>1, <2>3, <2>4, <2>5 DEF TerminalData
<1>12. ASSUME NEW c \in Client, NEW s \in Session,
              Terminal!CloseSession(c, s) \/ Terminal!Resize(c, s) \/ Terminal!Execute(c, s) \/ Terminal!Stream(c, s)
       PROVE  TerminalData'
  <2>1. live[s] \in Created
    BY <1>1, <1>12 DEF Terminal!CloseSession, Terminal!Resize, Terminal!Execute, Terminal!Stream
  <2>2. /\ live' \in [Session -> Terminal!SessionSet]
        /\ \A r \in Session : live[r] \in Created => live'[r] \in Created
    <3>1. CASE Terminal!CloseSession(c, s)
      BY <3>1, <2>1, <1>2, StateWritten DEF Terminal!CloseSession
    <3>2. CASE Terminal!Resize(c, s)
      <4> DEFINE x == [live[s] EXCEPT !.size = "resized"]
      <4>1. x \in Created
        BY <2>1 DEF Created, Terminal!Size
      <4>2. live' = [live EXCEPT ![s] = x]
        BY <3>2 DEF Terminal!Resize
      <4> HIDE DEF x
      <4> QED BY <4>1, <4>2, SessionWritten
    <3>3. CASE UNCHANGED live
      BY <3>3, <1>0
    <3> QED BY <1>12, <3>1, <3>2, <3>3 DEF Terminal!Execute, Terminal!Stream
  <2>3. PICK k \in {"copy", "execute", "stream"} : Terminal!Go(c, [pc |-> k, session |-> s])
    BY <1>12 DEF Terminal!CloseSession, Terminal!Resize, Terminal!Execute, Terminal!Stream, Terminal!Begin, Terminal!Go
  <2>4. /\ tOp' \in [Client -> TerminalCall]
        /\ \A d \in Client : tOp'[d].pc # "idle" => live'[tOp'[d].session] \in Created
    BY <1>3, <2>1, <2>2, <2>3, CallWritten
  <2>5. record' = record /\ streams' = streams /\ stuck' = stuck /\ tSettled' \subseteq Session
    BY <1>0, <1>12 DEF Terminal!CloseSession, Terminal!Resize, Terminal!Execute, Terminal!Stream
  <2> QED BY <1>0, <2>2, <2>4, <2>5 DEF TerminalData
<1> QED
  BY <1>5, <1>6, <1>7, <1>8, <1>9, <1>10, <1>11, <1>12 DEF Terminal!Next

\* What a step does to the calls: one of them changes, or none.
LEMMA OneCallMoves ==
  ASSUME TerminalData, NEW c \in Client, NEW call, Terminal!Go(c, call)
  PROVE  tOp'[c] = call /\ \A d \in Client : d # c => tOp'[d] = tOp[d]
BY DEF TerminalData, Terminal!Go

LEMMA StreamCallsFinite ==
  \A s \in Session : /\ IsFiniteSet(StreamCalls(s)) /\ Cardinality(StreamCalls(s)) \in Nat
                   /\ Cardinality(StreamCalls(s)) <= Cardinality(Client)
BY RuntimeAssumption, FS_Subset, FS_CardinalityType DEF StreamCalls, ClientAssumption

LEMMA StreamsBoundedStep == ASSUME TerminalData, StreamsBounded, Terminal!Next PROVE StreamsBounded'
<1> USE RuntimeAssumption DEF ClientAssumption, BoundsAssumption
<1> SUFFICES ASSUME NEW s \in Session
             PROVE  streams'[s] + Cardinality(StreamCalls(s)') <= MaxStreams + Cardinality(Client)
  BY DEF StreamsBounded
<1> DEFINE n == Cardinality(StreamCalls(s))
           max == MaxStreams + Cardinality(Client)
<1>0. /\ streams[s] \in Nat /\ n \in Nat /\ IsFiniteSet(StreamCalls(s)) /\ max \in Nat
      /\ streams[s] + n <= max
  BY StreamCallsFinite, FS_CardinalityType DEF TerminalData, StreamsBounded
<1>1. CASE streams'[s] <= streams[s] /\ streams'[s] \in Nat /\ StreamCalls(s)' = StreamCalls(s)
  BY <1>0, <1>1
<1>2. ASSUME NEW r \in Session, Terminal!CreateSession(r) \/ Terminal!StreamEnds(r)
      PROVE  streams'[s] <= streams[s] /\ streams'[s] \in Nat /\ StreamCalls(s)' = StreamCalls(s)
  BY <1>2 DEF Terminal!CreateSession, Terminal!StreamEnds, StreamCalls, TerminalData
<1>3. ASSUME NEW c \in Client, NEW call, Terminal!Go(c, call), call.pc # "stream", tOp[c].pc # "stream"
      PROVE  StreamCalls(s)' = StreamCalls(s)
  BY <1>3, OneCallMoves DEF StreamCalls
<1>4. ASSUME NEW c \in Client, Terminal!GetSession(c) \/ Terminal!Update(c) \/ Terminal!Enter(c) \/ Terminal!Leave(c)
      PROVE  streams'[s] <= streams[s] /\ streams'[s] \in Nat /\ StreamCalls(s)' = StreamCalls(s)
  <2>1. PICK call : Terminal!Go(c, call) /\ call.pc # "stream"
    BY <1>4, TerminalCallType
    DEF Terminal!GetSession, Terminal!Update, Terminal!Enter, Terminal!Leave, Terminal!Idle
  <2>2. streams' = streams /\ tOp[c].pc # "stream"
    BY <1>4 DEF Terminal!GetSession, Terminal!Update, Terminal!Enter, Terminal!Leave
  <2> QED BY <1>0, <1>3, <2>1, <2>2
<1>5. ASSUME NEW c \in Client, NEW r \in Session,
             Terminal!CloseSession(c, r) \/ Terminal!Resize(c, r) \/ Terminal!Execute(c, r)
      PROVE  streams'[s] <= streams[s] /\ streams'[s] \in Nat /\ StreamCalls(s)' = StreamCalls(s)
  <2>1. PICK k \in {"copy", "execute"} : Terminal!Go(c, [pc |-> k, session |-> r])
    BY <1>5 DEF Terminal!CloseSession, Terminal!Resize, Terminal!Execute, Terminal!Begin, Terminal!Go
  <2>2. streams' = streams /\ tOp[c].pc # "stream"
    BY <1>5 DEF Terminal!CloseSession, Terminal!Resize, Terminal!Execute, Terminal!Begin, Terminal!Idle
  <2> QED BY <1>0, <1>3, <2>1, <2>2
<1>6. ASSUME NEW c \in Client, NEW r \in Session, Terminal!Stream(c, r)
      PROVE  streams'[s] + Cardinality(StreamCalls(s)') <= max
  <2>1. Terminal!Go(c, [pc |-> "stream", session |-> r]) /\ streams' = streams /\ tOp[c].pc # "stream"
    BY <1>6 DEF Terminal!Stream, Terminal!Begin, Terminal!Go, Terminal!Idle
  <2>2. CASE r = s
    <3>1. StreamCalls(s)' \subseteq Client
      BY DEF StreamCalls
    <3>2. Cardinality(StreamCalls(s)') \in Nat /\ Cardinality(StreamCalls(s)') <= Cardinality(Client)
      BY <3>1, FS_Subset, FS_CardinalityType
    <3>3. streams[s] < MaxStreams
      BY <1>6, <2>2 DEF Terminal!Stream
    <3>4. Cardinality(Client) \in Nat
      BY FS_CardinalityType
    <3> QED BY <1>0, <2>1, <3>2, <3>3, <3>4
  <2>3. CASE r # s
    <3>1. StreamCalls(s)' = StreamCalls(s)
      BY <2>1, <2>3, OneCallMoves DEF StreamCalls
    <3> QED BY <1>0, <2>1, <3>1
  <2> QED BY <2>2, <2>3
<1>7. ASSUME NEW c \in Client, Terminal!StartStream(c)
      PROVE  streams'[s] + Cardinality(StreamCalls(s)') <= max
  <2>1. tOp[c].pc = "stream" /\ tOp[c].session \in Session /\ Terminal!Go(c, Terminal!Idle)
    BY <1>7, TerminalCallType DEF Terminal!StartStream
  <2>2. StreamCalls(s)' = StreamCalls(s) \ {c}
    BY <2>1, OneCallMoves DEF StreamCalls, Terminal!Idle
  <2>3. CASE tOp[c].session = s
    <3>1. c \in StreamCalls(s)
      BY <2>1, <2>3 DEF StreamCalls
    <3>2. Cardinality(StreamCalls(s)') = n - 1
      BY <1>0, <2>2, <3>1, FS_RemoveElement
    <3>3. streams'[s] \in {streams[s], streams[s] + 1}
      BY <1>7, <2>1, <2>3 DEF Terminal!StartStream, TerminalData
    <3> QED BY <1>0, <3>2, <3>3
  <2>4. CASE tOp[c].session # s
    <3>1. StreamCalls(s)' = StreamCalls(s)
      BY <2>2, <2>4 DEF StreamCalls
    <3>2. streams'[s] = streams[s]
      BY <1>7, <2>1, <2>4 DEF Terminal!StartStream, TerminalData
    <3> QED BY <1>0, <3>1, <3>2
  <2> QED BY <2>3, <2>4
<1> QED
  BY <1>1, <1>2, <1>4, <1>5, <1>6, <1>7 DEF Terminal!Next

\* A settled session is left alone but for the call that closed it.
LEMMA SettledStep ==
  ASSUME TerminalData, SettledSessions, Terminal!Next, NEW s \in tSettled
  PROVE  SettledSession(s)'
<1>0. /\ s \in Session /\ live[s].state = "closed" /\ streams[s] = 0
      /\ \A d \in Client : SettledCall(d, s)
      /\ Terminal!Calls(s) = {} => record[s] = live[s]
      /\ live \in [Session -> Terminal!SessionSet] /\ record \in [Session -> Terminal!SessionSet]
      /\ tOp \in [Client -> TerminalCall] /\ streams \in [Session -> Nat]
  BY DEF SettledSessions, SettledSession, TerminalData
<1>1. \A c \in Client : tOp[c].pc \in {"execute", "run", "stream"} => tOp[c].session # s
  BY <1>0 DEF SettledCall, Terminal!Idle
<1>2. ~Terminal!Open(s)
  BY <1>0 DEF Terminal!Open
<1>3. ASSUME NEW c \in Client, NEW call, Terminal!Go(c, call), SettledCall(c, s)',
             live'[s] = live[s], streams'[s] = streams[s],
             \/ /\ record'[s] = record[s]
                /\ (call # Terminal!Idle /\ call.session = s) \/ tOp[c] = Terminal!Idle \/ tOp[c].session # s
             \/ record'[s] = live'[s]
      PROVE  SettledSession(s)'
  <2>1. tOp'[c] = call /\ \A d \in Client : d # c => tOp'[d] = tOp[d]
    BY <1>3, OneCallMoves
  <2>2. ASSUME NEW d \in Client PROVE SettledCall(d, s)'
    BY <1>0, <1>3, <2>1 DEF SettledCall
  <2>3. ASSUME Terminal!Calls(s)' = {}, record'[s] = record[s],
               (call # Terminal!Idle /\ call.session = s) \/ tOp[c] = Terminal!Idle \/ tOp[c].session # s
        PROVE  record'[s] = live'[s]
    <3>1. ~(call # Terminal!Idle /\ call.session = s)
      BY <2>1, <2>3 DEF Terminal!Calls, Terminal!Idle
    <3>2. Terminal!Calls(s) = {}
      BY <2>1, <2>3, <3>1 DEF Terminal!Calls, Terminal!Idle
    <3> QED BY <1>0, <1>3, <2>3, <3>2
  <2> QED BY <1>0, <1>3, <2>2, <2>3 DEF SettledSession
<1>4. ASSUME NEW r \in Session, Terminal!CreateSession(r) \/ Terminal!StreamEnds(r)
      PROVE  SettledSession(s)'
  <2>1. r # s
    BY <1>0, <1>4 DEF Terminal!CreateSession, Terminal!StreamEnds, Terminal!NoSession
  <2>2. live'[s] = live[s] /\ streams'[s] = streams[s] /\ record'[s] = record[s] /\ tOp' = tOp
    BY <1>0, <1>4, <2>1 DEF Terminal!CreateSession, Terminal!StreamEnds, Terminal!SetState, TerminalData
  <2> QED BY <1>0, <2>2 DEF SettledSession, SettledCall, Terminal!Calls, Terminal!Idle
<1>5. ASSUME NEW c \in Client, NEW r \in Session,
             Terminal!CloseSession(c, r) \/ Terminal!Resize(c, r) \/ Terminal!Execute(c, r) \/ Terminal!Stream(c, r)
      PROVE  SettledSession(s)'
  <2>1. r # s /\ tOp[c] = Terminal!Idle
    BY <1>2, <1>5
    DEF Terminal!CloseSession, Terminal!Resize, Terminal!Execute, Terminal!Stream, Terminal!Begin
  <2>2. live'[s] = live[s] /\ streams'[s] = streams[s] /\ record'[s] = record[s]
    BY <1>0, <1>5, <2>1
    DEF Terminal!CloseSession, Terminal!Resize, Terminal!Execute, Terminal!Stream, Terminal!SetState
  <2>3. PICK k \in {"copy", "execute", "stream"} : Terminal!Go(c, [pc |-> k, session |-> r])
    BY <1>5 DEF Terminal!CloseSession, Terminal!Resize, Terminal!Execute, Terminal!Stream, Terminal!Begin, Terminal!Go
  <2>4. SettledCall(c, s)'
    BY <2>1, <2>3, OneCallMoves DEF SettledCall
  <2> QED BY <1>3, <2>1, <2>2, <2>3, <2>4
<1>6. ASSUME NEW c \in Client, Terminal!GetSession(c) PROVE SettledSession(s)'
  <2> DEFINE r == tOp[c].session
             call == [pc |-> "update", session |-> r, copy |-> live[r]]
  <2>1. Terminal!Go(c, call) /\ live' = live /\ streams' = streams /\ record' = record
    BY <1>6 DEF Terminal!GetSession
  <2>2. SettledCall(c, s)'
    BY <2>1, OneCallMoves DEF SettledCall
  <2>3. call # Terminal!Idle /\ call.session = r
    BY DEF Terminal!Idle
  <2> HIDE DEF call
  <2> QED BY <1>0, <1>3, <2>1, <2>2, <2>3
<1>7. ASSUME NEW c \in Client, Terminal!Update(c) PROVE SettledSession(s)'
  <2> DEFINE r == tOp[c].session
  <2>1. Terminal!Go(c, Terminal!Idle) /\ live' = live /\ streams' = streams
    BY <1>7 DEF Terminal!Update
  <2>2. SettledCall(c, s)'
    BY <2>1, OneCallMoves DEF SettledCall
  <2>3. CASE r # s
    <3>1. record'[s] = record[s]
      BY <1>0, <1>7, <2>3 DEF Terminal!Update
    <3> QED BY <1>3, <2>1, <2>2, <2>3, <3>1
  <2>4. CASE r = s
    <3>1. tOp[c] # Terminal!Idle /\ tOp[c].pc # "copy"
      BY <1>7 DEF Terminal!Update, Terminal!Idle
    <3>2. tOp[c].copy = live[s]
      BY <1>0, <2>4, <3>1 DEF SettledCall
    <3>3. record'[s] = live'[s]
      BY <1>0, <1>7, <2>1, <2>4, <3>2 DEF Terminal!Update
    <3> QED BY <1>3, <2>1, <2>2, <3>3
  <2> QED BY <2>3, <2>4
<1>8. ASSUME NEW c \in Client, Terminal!Enter(c) \/ Terminal!Leave(c) \/ Terminal!StartStream(c)
      PROVE  SettledSession(s)'
  <2> DEFINE r == tOp[c].session
  <2>1. r # s
    BY <1>1, <1>8 DEF Terminal!Enter, Terminal!Leave, Terminal!StartStream
  <2>2. live'[s] = live[s] /\ streams'[s] = streams[s] /\ record'[s] = record[s]
    BY <1>0, <1>8, <2>1 DEF Terminal!Enter, Terminal!Leave, Terminal!StartStream, Terminal!SetState
  <2>3. tOp[c].pc # "idle"
    BY <1>8 DEF Terminal!Enter, Terminal!Leave, Terminal!StartStream
  <2>4. PICK call \in {Terminal!Idle, [tOp[c] EXCEPT !.pc = "run"], [pc |-> "copy", session |-> r]} :
          Terminal!Go(c, call)
    BY <1>8 DEF Terminal!Enter, Terminal!Leave, Terminal!StartStream
  <2>5. call = Terminal!Idle \/ call.session = r
    BY <1>0, <2>3, <2>4 DEF TerminalCall, Terminal!Idle
  <2>6. SettledCall(c, s)'
    BY <2>1, <2>4, <2>5, OneCallMoves DEF SettledCall
  <2> QED BY <1>3, <2>1, <2>2, <2>4, <2>6
<1> QED
  BY <1>4, <1>5, <1>6, <1>7, <1>8 DEF Terminal!Next

\* A session is settled by a call that is the only one on it.
LEMMA SettledSessionsStep ==
  ASSUME TerminalData, SettledSessions, Terminal!Next PROVE SettledSessions'
<1> SUFFICES ASSUME NEW s \in tSettled', s \notin tSettled PROVE SettledSession(s)'
  BY SettledStep DEF SettledSessions
<1>1. PICK c \in Client, r \in Session : Terminal!CloseSession(c, r) /\ tSettled' # tSettled
  BY DEF Terminal!Next, Terminal!CreateSession, Terminal!StreamEnds, Terminal!GetSession, Terminal!Update,
         Terminal!Enter, Terminal!Leave, Terminal!StartStream, Terminal!CloseSession, Terminal!Resize,
         Terminal!Execute, Terminal!Stream
<1>2. r = s /\ Terminal!Calls(s) = {} /\ streams[s] = 0 /\ streams' = streams
  BY <1>1 DEF Terminal!CloseSession
<1>3. live'[s].state = "closed"
  <2>1. live[s] \in [state : Terminal!State, size : Terminal!Size]
    BY <1>1, <1>2 DEF Terminal!CloseSession, Terminal!Open, TerminalData, Terminal!SessionSet, Terminal!NoSession
  <2> QED BY <1>1, <1>2, <2>1 DEF Terminal!CloseSession, Terminal!SetState, TerminalData
<1>4. Terminal!Go(c, [pc |-> "copy", session |-> s])
  BY <1>1, <1>2 DEF Terminal!CloseSession, Terminal!Begin, Terminal!Go
<1>5. ASSUME NEW d \in Client PROVE SettledCall(d, s)'
  BY <1>2, <1>4, OneCallMoves DEF SettledCall, Terminal!Calls
<1>6. Terminal!Calls(s)' # {}
  BY <1>4, OneCallMoves DEF Terminal!Calls, Terminal!Idle
<1> QED BY <1>2, <1>3, <1>5, <1>6 DEF SettledSession

\* A command that ends leaves its session idle, whoever else runs one in it.
LEMMA RunningStep ==
  ASSUME TerminalData, Terminal!RunningHasCommand, Terminal!Next
  PROVE  Terminal!RunningHasCommand'
<1> SUFFICES ASSUME NEW s \in Session, live'[s].state = "running"
             PROVE  s \in stuck' \/ streams'[s] > 0 \/ \E d \in Client : tOp'[d].pc = "run" /\ tOp'[d].session = s
  BY DEF Terminal!RunningHasCommand, Terminal!Calls, Terminal!Idle
<1>0. /\ live \in [Session -> Terminal!SessionSet] /\ streams \in [Session -> Nat]
      /\ tOp \in [Client -> TerminalCall]
      /\ live[s].state = "running" =>
           s \in stuck \/ streams[s] > 0 \/ \E d \in Client : tOp[d].pc = "run" /\ tOp[d].session = s
  BY DEF TerminalData, Terminal!RunningHasCommand, Terminal!Calls
<1>1. ASSUME live'[s] = live[s], streams'[s] = streams[s], stuck' = stuck,
             NEW c \in Client, NEW call, Terminal!Go(c, call), tOp[c].pc = "run" => tOp[c].session # s
      PROVE  s \in stuck' \/ streams'[s] > 0 \/ \E d \in Client : tOp'[d].pc = "run" /\ tOp'[d].session = s
  BY <1>0, <1>1, OneCallMoves
<1>2. ASSUME NEW r \in Session, Terminal!CreateSession(r) \/ Terminal!StreamEnds(r)
      PROVE  s \in stuck' \/ streams'[s] > 0 \/ \E d \in Client : tOp'[d].pc = "run" /\ tOp'[d].session = s
  <2>1. r # s
    BY <1>0, <1>2, TerminalDataStep
    DEF Terminal!CreateSession, Terminal!StreamEnds, Terminal!SetState, TerminalData, Created
  <2> QED BY <1>0, <1>2, <2>1 DEF Terminal!CreateSession, Terminal!StreamEnds, Terminal!SetState
<1>3. ASSUME NEW c \in Client, Terminal!GetSession(c) \/ Terminal!Update(c)
      PROVE  s \in stuck' \/ streams'[s] > 0 \/ \E d \in Client : tOp'[d].pc = "run" /\ tOp'[d].session = s
  BY <1>1, <1>3 DEF Terminal!GetSession, Terminal!Update
<1>4. ASSUME NEW c \in Client, Terminal!Enter(c)
      PROVE  s \in stuck' \/ streams'[s] > 0 \/ \E d \in Client : tOp'[d].pc = "run" /\ tOp'[d].session = s
  <2> DEFINE r == tOp[c].session
             call == [tOp[c] EXCEPT !.pc = "run"]
  <2>1. call.pc = "run" /\ call.session = r
    BY <1>4, TerminalCallType DEF Terminal!Enter
  <2>2. Terminal!Go(c, call) /\ streams' = streams /\ stuck' = stuck /\ tOp[c].pc # "run"
    BY <1>4 DEF Terminal!Enter
  <2> HIDE DEF call
  <2>3. CASE r = s
    BY <2>1, <2>2, <2>3, OneCallMoves
  <2>4. CASE r # s
    <3>1. live'[s] = live[s]
      BY <1>0, <1>4, <2>4 DEF Terminal!Enter, Terminal!SetState
    <3> QED BY <1>1, <2>2, <3>1
  <2> QED BY <2>3, <2>4
<1>5. ASSUME NEW c \in Client, Terminal!Leave(c)
      PROVE  s \in stuck' \/ streams'[s] > 0 \/ \E d \in Client : tOp'[d].pc = "run" /\ tOp'[d].session = s
  <2> DEFINE r == tOp[c].session
  <2>1. r # s
    BY <1>0, <1>5, TerminalCallType DEF Terminal!Leave, Terminal!SetState, Created
  <2>2. live'[s] = live[s] /\ streams' = streams /\ stuck' = stuck
    BY <1>0, <1>5, <2>1 DEF Terminal!Leave, Terminal!SetState
  <2>3. PICK call \in {Terminal!Idle, [pc |-> "copy", session |-> r]} : Terminal!Go(c, call)
    BY <1>5 DEF Terminal!Leave
  <2> QED BY <1>1, <2>1, <2>2, <2>3
<1>6. ASSUME NEW c \in Client, Terminal!StartStream(c)
      PROVE  s \in stuck' \/ streams'[s] > 0 \/ \E d \in Client : tOp'[d].pc = "run" /\ tOp'[d].session = s
  <2> DEFINE r == tOp[c].session
  <2>1. CASE r = s
    BY <1>0, <1>6, <2>1 DEF Terminal!StartStream
  <2>2. CASE r # s
    <3>1. live'[s] = live[s] /\ streams'[s] = streams[s] /\ stuck \subseteq stuck'
      BY <1>0, <1>6, <2>2 DEF Terminal!StartStream, Terminal!SetState
    <3>2. Terminal!Go(c, Terminal!Idle) /\ tOp[c].pc # "run"
      BY <1>6 DEF Terminal!StartStream
    <3> QED BY <1>0, <3>1, <3>2, OneCallMoves
  <2> QED BY <2>1, <2>2
<1>7. ASSUME NEW c \in Client, NEW r \in Session,
             Terminal!CloseSession(c, r) \/ Terminal!Resize(c, r) \/ Terminal!Execute(c, r) \/ Terminal!Stream(c, r)
      PROVE  s \in stuck' \/ streams'[s] > 0 \/ \E d \in Client : tOp'[d].pc = "run" /\ tOp'[d].session = s
  <2>1. tOp[c].pc # "run" /\ streams' = streams /\ stuck' = stuck
    BY <1>7 DEF Terminal!CloseSession, Terminal!Resize, Terminal!Execute, Terminal!Stream, Terminal!Begin, Terminal!Idle
  <2>2. live[s].state = "running"
    <3>1. CASE r # s \/ live'[s] = live[s]
      BY <1>0, <1>7, <3>1
      DEF Terminal!CloseSession, Terminal!Resize, Terminal!Execute, Terminal!Stream, Terminal!SetState
    <3>2. CASE r = s /\ live'[s] # live[s]
      <4>1. live[s] \in Created
        BY <1>0, <1>7, <3>2
        DEF Terminal!CloseSession, Terminal!Resize, Terminal!Execute, Terminal!Stream, Terminal!Open,
            Terminal!SessionSet, Terminal!NoSession, Created
      <4>2. Terminal!Resize(c, s)
        BY <1>0, <1>7, <3>2, <4>1
        DEF Terminal!CloseSession, Terminal!Execute, Terminal!Stream, Terminal!SetState, Created
      <4> QED BY <1>0, <4>1, <4>2 DEF Terminal!Resize, Created
    <3> QED BY <3>1, <3>2
  <2>3. PICK k \in {"copy", "execute", "stream"} : Terminal!Go(c, [pc |-> k, session |-> r])
    BY <1>7 DEF Terminal!CloseSession, Terminal!Resize, Terminal!Execute, Terminal!Stream, Terminal!Begin, Terminal!Go
  <2> QED BY <1>0, <2>1, <2>2, <2>3, OneCallMoves
<1> QED
  BY <1>2, <1>3, <1>4, <1>5, <1>6, <1>7 DEF Terminal!Next

LEMMA TerminalStep == ASSUME TerminalInv, Terminal!Next PROVE TerminalInv'
BY TerminalDataStep, StreamsBoundedStep, SettledSessionsStep, RunningStep DEF TerminalInv

LEMMA TerminalInit == Terminal!Init => TerminalInv
<1> SUFFICES ASSUME Terminal!Init PROVE TerminalInv
  OBVIOUS
<1>1. TerminalData
  BY DEF Terminal!Init, TerminalData, TerminalCall, Terminal!Idle, Terminal!SessionSet
<1>2. StreamsBounded
  <2>1. \A s \in Session : StreamCalls(s) = {}
    BY DEF Terminal!Init, StreamCalls, Terminal!Idle
  <2>2. Cardinality({}) = 0 /\ MaxStreams \in Nat /\ Cardinality(Client) \in Nat
    BY FS_EmptySet, FS_CardinalityType, RuntimeAssumption DEF ClientAssumption, BoundsAssumption
  <2>3. \A s \in Session : streams[s] = 0
    BY DEF Terminal!Init
  <2>4. ASSUME NEW s \in Session
        PROVE  streams[s] + Cardinality(StreamCalls(s)) <= MaxStreams + Cardinality(Client)
    <3>1. Cardinality(StreamCalls(s)) = 0 /\ streams[s] = 0
      BY <2>1, <2>2, <2>3
    <3> QED BY <2>2, <3>1
  <2> QED BY <2>4 DEF StreamsBounded
<1>3. SettledSessions /\ Terminal!RunningHasCommand
  BY DEF Terminal!Init, SettledSessions, Terminal!RunningHasCommand, Terminal!NoSession
<1> QED BY <1>1, <1>2, <1>3 DEF TerminalInv

LEMMA TerminalKept ==
  TerminalInv => Terminal!TypeOK /\ Terminal!ClosedForGood /\ Terminal!RunningHasCommand
<1> SUFFICES ASSUME TerminalInv PROVE Terminal!TypeOK /\ Terminal!ClosedForGood
  BY DEF TerminalInv
<1>1. \A s \in Session : streams[s] \in 0..(MaxStreams + Cardinality(Client))
  BY StreamCallsFinite, FS_CardinalityType, RuntimeAssumption
  DEF TerminalInv, TerminalData, StreamsBounded, ClientAssumption, BoundsAssumption
<1>2. Terminal!TypeOK
  <2> DEFINE count == 0..(MaxStreams + Cardinality(Client))
  <2>1. /\ streams \in [Session -> Nat] /\ \A s \in Session : live[s] \in Terminal!SessionSet
        /\ \A s \in Session : record[s] \in Terminal!SessionSet
        /\ tSettled \subseteq Session /\ stuck \subseteq Session
    BY DEF TerminalInv, TerminalData
  <2>2. \A s \in Session : streams[s] \in count
    BY <1>1
  <2> HIDE DEF count
  <2>3. streams \in [Session -> count]
    BY <2>1, <2>2
  <2>4. Terminal!Cardinality(Client) = Cardinality(Client)
    BY DEF Terminal!Cardinality, Cardinality
  <2> QED BY <2>1, <2>3, <2>4 DEF Terminal!TypeOK, count
<1>3. Terminal!ClosedForGood
  BY DEF Terminal!ClosedForGood, TerminalInv, SettledSessions, SettledSession
<1> QED BY <1>2, <1>3

-----------------------------------------------------------------------------
(* BrowserSessions.                                                        *)

BrowserCall ==
  {Browser!Idle}
  \cup [pc : {"navigate", "page"}, browser : Tab]
  \cup [pc : {"record", "append", "execute", "end"}, browser : Tab, left : 0..1]
  \cup [pc : {"next"}, browser : Tab, left : {1}]

BrowserData ==
  /\ state \in [Tab -> {"none", "idle", "navigating", "executing", "closed"}]
  /\ page \in [Tab -> Client \cup {Browser!Nobody}]
  /\ recordings \in [Tab -> {{n} : n \in 0..MaxRecorded} \cup {Browser!NotRecording}]
  /\ bOp \in [Client -> BrowserCall]
  /\ bSettled \subseteq Tab /\ silent \subseteq Tab

\* A browser that was settled is closed, and no call gets to work on it again.
SettledAlone == \A b \in bSettled : state[b] = "closed" /\ Browser!Calls(b) = {}

\* A browser that no call works on is at rest.
AtRest == \A b \in Tab : Browser!Calls(b) = {} => state[b] \in {"none", "idle", "closed"}

\* Nobody is about to append to a recording that is silent.
SilentAlone ==
  \A b \in silent :
    /\ recordings[b] = Browser!NotRecording
    /\ \A c \in Client : bOp[c].pc = "append" => bOp[c].browser # b

BrowserInv == BrowserData /\ SettledAlone /\ AtRest /\ SilentAlone

LEMMA BrowserCallType ==
  ASSUME BrowserData, NEW c \in Client, bOp[c].pc # "idle"
  PROVE  bOp[c] # Browser!Idle /\ bOp[c] \in BrowserCall /\ bOp[c].browser \in Tab
BY DEF BrowserData, BrowserCall, Browser!Idle

\* The next call of a client that is in one: it stays with its browser, or is over.
LEMMA BrowserCallGoes ==
  ASSUME BrowserData, NEW c \in Client,
         \/ Browser!Navigating(c) \/ Browser!SavePage(c) \/ Browser!LookForRecording(c)
         \/ Browser!AppendAction(c) \/ Browser!Executing(c) \/ Browser!End(c) \/ Browser!NextAction(c)
  PROVE  /\ bOp[c] # Browser!Idle /\ bOp[c].browser \in Tab
         /\ \E call \in BrowserCall :
              /\ Browser!Go(c, call)
              /\ \/ call # Browser!Idle /\ call.browser = bOp[c].browser
                 \/ call = Browser!Idle /\ (Browser!End(c) \/ (Browser!NextAction(c) /\ ~Browser!Open(bOp[c].browser)))
              /\ call.pc = "append" =>
                   Browser!LookForRecording(c) /\ recordings[bOp[c].browser] # Browser!NotRecording
<1>1. bOp[c] # Browser!Idle /\ bOp[c] \in BrowserCall /\ bOp[c].browser \in Tab
  BY BrowserCallType DEF Browser!Navigating, Browser!SavePage, Browser!LookForRecording, Browser!AppendAction,
    Browser!Executing, Browser!End, Browser!NextAction
<1> DEFINE b == bOp[c].browser
<1>2. CASE Browser!Navigating(c)
  <2> DEFINE call == [bOp[c] EXCEPT !.pc = "page"]
  <2>1. bOp[c] \in [pc : {"navigate", "page"}, browser : Tab]
    BY <1>1, <1>2 DEF Browser!Navigating, BrowserCall
  <2>2. call \in BrowserCall /\ call.browser = b /\ call.pc = "page"
    BY <2>1 DEF BrowserCall
  <2>3. Browser!Go(c, call)
    BY <1>2 DEF Browser!Navigating
  <2> QED BY <1>1, <2>2, <2>3 DEF Browser!Idle
<1>3. CASE Browser!SavePage(c)
  <2> DEFINE call == [pc |-> "end", browser |-> b, left |-> 0]
  <2>1. call \in BrowserCall /\ call.browser = b /\ call.pc = "end"
    BY <1>1 DEF BrowserCall
  <2>2. Browser!Go(c, call)
    BY <1>3 DEF Browser!SavePage
  <2> QED BY <1>1, <2>1, <2>2 DEF Browser!Idle
<1>4. ASSUME bOp[c].pc \in {"record", "append", "execute", "end"}, NEW to \in {"append", "execute", "end"}
      PROVE  /\ [bOp[c] EXCEPT !.pc = to] \in BrowserCall
             /\ [bOp[c] EXCEPT !.pc = to].pc = to /\ [bOp[c] EXCEPT !.pc = to].browser = b
  <2>1. bOp[c] \in [pc : {"record", "append", "execute", "end"}, browser : Tab, left : 0..1]
    BY <1>1, <1>4 DEF BrowserCall, Browser!Idle
  <2> QED BY <2>1 DEF BrowserCall
<1>5. CASE Browser!LookForRecording(c)
  <2> DEFINE to == IF recordings[b] = Browser!NotRecording THEN "execute" ELSE "append"
  <2>1. Browser!Go(c, [bOp[c] EXCEPT !.pc = to]) /\ bOp[c].pc = "record"
    BY <1>5 DEF Browser!LookForRecording
  <2>2. to \in {"append", "execute"} /\ (to = "append" => recordings[b] # Browser!NotRecording)
    OBVIOUS
  <2> HIDE DEF to
  <2> QED BY <1>1, <1>4, <1>5, <2>1, <2>2 DEF Browser!Idle
<1>6. CASE Browser!AppendAction(c)
  <2>1. Browser!Go(c, [bOp[c] EXCEPT !.pc = "execute"]) /\ bOp[c].pc = "append"
    BY <1>6 DEF Browser!AppendAction
  <2> QED BY <1>1, <1>4, <2>1 DEF Browser!Idle
<1>7. CASE Browser!Executing(c)
  <2>1. Browser!Go(c, [bOp[c] EXCEPT !.pc = "end"]) /\ bOp[c].pc = "execute"
    BY <1>7 DEF Browser!Executing
  <2> QED BY <1>1, <1>4, <2>1 DEF Browser!Idle
<1>8. CASE Browser!End(c)
  <2>1. bOp[c].pc = "end" /\ Browser!Go(c, IF bOp[c].left = 0 THEN Browser!Idle ELSE [bOp[c] EXCEPT !.pc = "next"])
    BY <1>8 DEF Browser!End
  <2>2. bOp[c] \in [pc : {"end"}, browser : Tab, left : 0..1]
    BY <1>1, <2>1 DEF BrowserCall, Browser!Idle
  <2>3. CASE bOp[c].left = 0
    <3>1. Browser!Go(c, Browser!Idle)
      BY <2>1, <2>3
    <3>2. Browser!Idle \in BrowserCall /\ Browser!Idle.pc = "idle"
      BY DEF BrowserCall, Browser!Idle
    <3>3. Browser!Idle.pc # "append"
      BY DEF Browser!Idle
    <3> QED BY <1>1, <1>8, <3>1, <3>2, <3>3
  <2>4. CASE bOp[c].left # 0
    <3> DEFINE call == [bOp[c] EXCEPT !.pc = "next"]
    <3>1. call \in BrowserCall /\ call.browser = b /\ call.pc = "next"
      BY <2>2, <2>4 DEF BrowserCall
    <3>2. Browser!Go(c, call)
      BY <2>1, <2>4
    <3> QED BY <1>1, <3>1, <3>2 DEF Browser!Idle
  <2> QED BY <2>3, <2>4
<1>9. CASE Browser!NextAction(c)
  <2>1. /\ bOp[c].pc = "next"
        /\ Browser!Go(c, IF Browser!Open(b) THEN [bOp[c] EXCEPT !.pc = "record", !.left = @ - 1] ELSE Browser!Idle)
    BY <1>9 DEF Browser!NextAction
  <2>2. bOp[c] \in [pc : {"next"}, browser : Tab, left : {1}]
    BY <1>1, <2>1 DEF BrowserCall, Browser!Idle
  <2>3. CASE ~Browser!Open(b)
    BY <1>1, <1>9, <2>1, <2>3 DEF BrowserCall, Browser!Idle
  <2>4. CASE Browser!Open(b)
    <3> DEFINE call == [bOp[c] EXCEPT !.pc = "record", !.left = @ - 1]
    <3>1. call \in BrowserCall /\ call.browser = b /\ call.pc = "record"
      <4>1. bOp[c].left = 1 /\ 1 - 1 = 0
        BY <2>2
      <4>2. call = [bOp[c] EXCEPT !.pc = "record", !.left = 0]
        BY <4>1
      <4>3. 0 \in 0..1 /\ "record" \in {"record", "append", "execute", "end"}
        OBVIOUS
      <4>4. [bOp[c] EXCEPT !.pc = "record", !.left = 0]
              \in [pc : {"record", "append", "execute", "end"}, browser : Tab, left : 0..1]
        BY <2>2, <4>3, Zenon
      <4> QED BY <2>2, <4>2, <4>4 DEF BrowserCall
    <3>2. Browser!Go(c, call)
      BY <2>1, <2>4
    <3> QED BY <1>1, <3>1, <3>2 DEF Browser!Idle
  <2> QED BY <2>3, <2>4
<1> QED BY <1>2, <1>3, <1>5, <1>6, <1>7, <1>8, <1>9

LEMMA BrowserDataStep == ASSUME BrowserData, Browser!Next PROVE BrowserData'
<1>0. /\ state \in [Tab -> {"none", "idle", "navigating", "executing", "closed"}]
      /\ page \in [Tab -> Client \cup {Browser!Nobody}]
      /\ recordings \in [Tab -> {{n} : n \in 0..MaxRecorded} \cup {Browser!NotRecording}]
      /\ bOp \in [Client -> BrowserCall] /\ bSettled \subseteq Tab /\ silent \subseteq Tab
  BY DEF BrowserData
<1>1. ASSUME NEW b \in Tab, Browser!CreateBrowser(b) \/ Browser!CloseBrowser(b) PROVE BrowserData'
  BY <1>0, <1>1 DEF BrowserData, Browser!CreateBrowser, Browser!CloseBrowser
<1>2. ASSUME NEW b \in Tab, Browser!StartRecording(b) \/ Browser!StopRecording(b) PROVE BrowserData'
  <2>1. 0 \in 0..MaxRecorded
    BY RuntimeAssumption DEF BoundsAssumption
  <2> QED BY <1>0, <1>2, <2>1 DEF BrowserData, Browser!StartRecording, Browser!StopRecording
<1>3. ASSUME NEW c \in Client, NEW b \in Tab, Browser!Navigate(c, b) PROVE BrowserData'
  <2>1. [pc |-> "navigate", browser |-> b] \in BrowserCall
    BY DEF BrowserCall
  <2> QED BY <1>0, <1>3, <2>1 DEF BrowserData, Browser!Navigate, Browser!Begin
<1>4. ASSUME NEW c \in Client, NEW b \in Tab, NEW n \in 1..2, Browser!ExecuteAction(c, b, n) PROVE BrowserData'
  <2>1. [pc |-> "record", browser |-> b, left |-> n - 1] \in BrowserCall
    BY DEF BrowserCall
  <2> QED BY <1>0, <1>4, <2>1 DEF BrowserData, Browser!ExecuteAction, Browser!Begin
<1>5. ASSUME NEW c \in Client,
             \/ Browser!Navigating(c) \/ Browser!SavePage(c) \/ Browser!LookForRecording(c)
             \/ Browser!AppendAction(c) \/ Browser!Executing(c) \/ Browser!End(c) \/ Browser!NextAction(c)
      PROVE  BrowserData'
  <2> DEFINE b == bOp[c].browser
  <2>1. b \in Tab /\ bOp' \in [Client -> BrowserCall]
    BY <1>0, <1>5, BrowserCallGoes DEF Browser!Go
  <2>2. recordings' \in [Tab -> {{n} : n \in 0..MaxRecorded} \cup {Browser!NotRecording}]
    <3>1. CASE Browser!AppendAction(c)
      <4> DEFINE m == IF recordings[b] = Browser!NotRecording THEN 0 ELSE CHOOSE k \in recordings[b] : TRUE
      <4>1. m < MaxRecorded /\ recordings' = [recordings EXCEPT ![b] = {m + 1}]
        BY <3>1 DEF Browser!AppendAction
      <4>2. m \in Nat
        <5>1. CASE recordings[b] # Browser!NotRecording
          <6>1. PICK n \in 0..MaxRecorded : recordings[b] = {n}
            BY <1>0, <2>1, <5>1
          <6>2. m = n
            BY <5>1, <6>1
          <6>3. n \in Nat
            BY <6>1
          <6> HIDE DEF m
          <6> QED BY <6>2, <6>3
        <5> QED BY <5>1
      <4> HIDE DEF m
      <4>3. m + 1 \in 0..MaxRecorded
        BY <4>1, <4>2, RuntimeAssumption DEF BoundsAssumption
      <4> QED BY <1>0, <2>1, <4>1, <4>3
    <3> QED BY <1>0, <1>5, <3>1 DEF Browser!Navigating, Browser!SavePage, Browser!LookForRecording,
          Browser!Executing, Browser!End, Browser!NextAction
  <2>3. state' \in [Tab -> {"none", "idle", "navigating", "executing", "closed"}]
    BY <1>0, <1>5, <2>1 DEF Browser!Navigating, Browser!SavePage, Browser!LookForRecording,
          Browser!AppendAction, Browser!Executing, Browser!End, Browser!NextAction
  <2>4. page' \in [Tab -> Client \cup {Browser!Nobody}]
    BY <1>0, <1>5, <2>1 DEF Browser!Navigating, Browser!SavePage, Browser!LookForRecording,
          Browser!AppendAction, Browser!Executing, Browser!End, Browser!NextAction
  <2>5. bSettled' = bSettled /\ silent' = silent
    BY <1>5 DEF Browser!Navigating, Browser!SavePage, Browser!LookForRecording,
          Browser!AppendAction, Browser!Executing, Browser!End, Browser!NextAction
  <2> QED BY <1>0, <2>1, <2>2, <2>3, <2>4, <2>5 DEF BrowserData
<1> QED BY <1>1, <1>2, <1>3, <1>4, <1>5 DEF Browser!Next

LEMMA BrowserSafetyStep ==
  ASSUME BrowserInv, Browser!Next PROVE SettledAlone' /\ AtRest' /\ SilentAlone'
<1>0. /\ state \in [Tab -> {"none", "idle", "navigating", "executing", "closed"}]
      /\ recordings \in [Tab -> {{n} : n \in 0..MaxRecorded} \cup {Browser!NotRecording}]
      /\ bOp \in [Client -> BrowserCall] /\ bSettled \subseteq Tab /\ silent \subseteq Tab
      /\ BrowserData /\ SettledAlone /\ AtRest /\ SilentAlone
  BY DEF BrowserInv, BrowserData
<1>1. ASSUME NEW b \in Tab, Browser!CreateBrowser(b) \/ Browser!CloseBrowser(b)
      PROVE  SettledAlone' /\ AtRest' /\ SilentAlone'
  <2>1. \A d \in Tab : Browser!Calls(d)' = Browser!Calls(d)
    BY <1>1 DEF Browser!Calls, Browser!CreateBrowser, Browser!CloseBrowser, Browser!Idle
  <2>2. SettledAlone'
    BY <1>0, <1>1, <2>1 DEF SettledAlone, Browser!CreateBrowser, Browser!CloseBrowser, Browser!Exists
  <2>3. AtRest'
    BY <1>0, <1>1, <2>1 DEF AtRest, Browser!CreateBrowser, Browser!CloseBrowser
  <2>4. SilentAlone'
    BY <1>0, <1>1 DEF SilentAlone, Browser!CreateBrowser, Browser!CloseBrowser
  <2> QED BY <2>2, <2>3, <2>4
<1>2. ASSUME NEW b \in Tab, Browser!StartRecording(b) \/ Browser!StopRecording(b)
      PROVE  SettledAlone' /\ AtRest' /\ SilentAlone'
  <2>1. state' = state /\ bOp' = bOp /\ bSettled' = bSettled
    BY <1>2 DEF Browser!StartRecording, Browser!StopRecording
  <2>2. \A d \in Tab : Browser!Calls(d)' = Browser!Calls(d)
    BY <2>1 DEF Browser!Calls, Browser!Idle
  <2>3. SilentAlone'
    BY <1>0, <1>2 DEF SilentAlone, Browser!StartRecording, Browser!StopRecording, Browser!Calls, Browser!Idle
  <2> QED BY <1>0, <2>1, <2>2, <2>3 DEF SettledAlone, AtRest
<1>3. ASSUME NEW c \in Client, NEW b \in Tab,
             Browser!Navigate(c, b) \/ \E n \in 1..2 : Browser!ExecuteAction(c, b, n)
      PROVE  SettledAlone' /\ AtRest' /\ SilentAlone'
  <2>1. PICK call : bOp[c] = Browser!Idle /\ Browser!Go(c, call) /\ call.browser = b /\ call.pc \in {"navigate", "record"}
    <3>1. ASSUME Browser!Navigate(c, b)
          PROVE  /\ bOp[c] = Browser!Idle
                 /\ Browser!Go(c, [pc |-> "navigate", browser |-> b])
      BY <3>1 DEF Browser!Navigate, Browser!Begin, Browser!Go
    <3>2. ASSUME NEW n \in 1..2, Browser!ExecuteAction(c, b, n)
          PROVE  /\ bOp[c] = Browser!Idle
                 /\ Browser!Go(c, [pc |-> "record", browser |-> b, left |-> n - 1])
      BY <3>2 DEF Browser!ExecuteAction, Browser!Begin, Browser!Go
    <3> QED BY <1>3, <3>1, <3>2
  <2>2. /\ state' = state /\ recordings' = recordings /\ bSettled' = bSettled /\ silent' = silent
        /\ state[b] # "closed"
    BY <1>3 DEF Browser!Navigate, Browser!ExecuteAction, Browser!Open
  <2>3. bOp'[c] = call /\ \A d \in Client : d # c => bOp'[d] = bOp[d]
    BY <1>0, <2>1 DEF Browser!Go
  <2>4. \A d \in Tab : Browser!Calls(d) \subseteq Browser!Calls(d)' /\ (d # b => Browser!Calls(d)' = Browser!Calls(d))
    BY <2>1, <2>3 DEF Browser!Calls, Browser!Idle
  <2>5. SilentAlone'
    BY <1>0, <2>1, <2>2, <2>3 DEF SilentAlone
  <2> QED BY <1>0, <2>2, <2>4, <2>5 DEF SettledAlone, AtRest
<1>4. ASSUME NEW c \in Client,
             \/ Browser!Navigating(c) \/ Browser!SavePage(c) \/ Browser!LookForRecording(c)
             \/ Browser!AppendAction(c) \/ Browser!Executing(c) \/ Browser!End(c) \/ Browser!NextAction(c)
      PROVE  SettledAlone' /\ AtRest' /\ SilentAlone'
  <2>0. bOp[c].browser \in Tab /\ bOp[c] # Browser!Idle
    BY <1>0, <1>4, BrowserCallGoes
  <2> PICK b \in Tab : b = bOp[c].browser
    BY <2>0
  <2>1. PICK call \in BrowserCall :
           /\ Browser!Go(c, call)
           /\ \/ call # Browser!Idle /\ call.browser = b
              \/ call = Browser!Idle /\ (Browser!End(c) \/ (Browser!NextAction(c) /\ ~Browser!Open(b)))
           /\ call.pc = "append" =>
                Browser!LookForRecording(c) /\ recordings[b] # Browser!NotRecording
    BY <1>0, <1>4, BrowserCallGoes
  <2>2. bOp[c] # Browser!Idle
    BY <2>0
  <2>3. bOp'[c] = call /\ \A d \in Client : d # c => bOp'[d] = bOp[d]
    BY <1>0, <2>1 DEF Browser!Go
  <2>4. bSettled' = bSettled /\ silent' = silent
    BY <1>4 DEF Browser!Navigating, Browser!SavePage, Browser!LookForRecording,
          Browser!AppendAction, Browser!Executing, Browser!End, Browser!NextAction
  <2>5. b \notin bSettled /\ c \in Browser!Calls(b)
    BY <1>0, <2>2 DEF SettledAlone, Browser!Calls
  <2>6. \A d \in Tab : d # b => state'[d] = state[d] /\ Browser!Calls(d)' = Browser!Calls(d)
    <3>1. \A d \in Tab : d # b => state'[d] = state[d]
      BY <1>0, <1>4 DEF Browser!Navigating, Browser!SavePage, Browser!LookForRecording,
          Browser!AppendAction, Browser!Executing, Browser!End, Browser!NextAction
    <3>2. \A d \in Tab : d # b => Browser!Calls(d)' = Browser!Calls(d)
      BY <2>1, <2>3 DEF Browser!Calls, Browser!Idle
    <3> QED BY <3>1, <3>2
  <2>7. SettledAlone'
    BY <1>0, <2>4, <2>5, <2>6 DEF SettledAlone
  <2>8. AtRest'
    <3> SUFFICES ASSUME Browser!Calls(b)' = {} PROVE state'[b] \in {"none", "idle", "closed"}
      BY <1>0, <2>6 DEF AtRest
    <3>1. call = Browser!Idle
      BY <2>1, <2>3 DEF Browser!Calls, Browser!Idle
    <3>2. CASE Browser!End(c)
      BY <1>0, <2>2, <3>2 DEF Browser!End
    <3>3. CASE Browser!NextAction(c) /\ ~Browser!Open(b)
      BY <1>0, <2>2, <3>3 DEF Browser!NextAction, Browser!Open, Browser!Exists
    <3> QED BY <2>1, <3>1, <3>2, <3>3
  <2>9. SilentAlone'
    <3>1. \A d \in silent : recordings'[d] = recordings[d]
      <4>1. CASE Browser!AppendAction(c)
        <5>1. b \notin silent
          BY <1>0, <4>1 DEF SilentAlone, Browser!AppendAction
        <5> QED BY <1>0, <4>1, <5>1 DEF Browser!AppendAction
      <4> QED BY <1>4, <4>1 DEF Browser!Navigating, Browser!SavePage, Browser!LookForRecording,
                Browser!Executing, Browser!End, Browser!NextAction
    <3>2. call.pc = "append" => call.browser = b /\ b \notin silent
      BY <1>0, <2>1 DEF SilentAlone, Browser!Idle
    <3> QED BY <1>0, <2>3, <2>4, <3>1, <3>2 DEF SilentAlone
  <2> QED BY <2>7, <2>8, <2>9
<1> QED BY <1>1, <1>2, <1>3, <1>4 DEF Browser!Next

LEMMA BrowserStep == ASSUME BrowserInv, Browser!Next PROVE BrowserInv'
BY BrowserDataStep, BrowserSafetyStep DEF BrowserInv

LEMMA BrowserInit == Browser!Init => BrowserInv
<1> SUFFICES ASSUME Browser!Init PROVE BrowserInv
  OBVIOUS
<1>1. BrowserData
  BY DEF Browser!Init, BrowserData, BrowserCall
<1>2. SettledAlone /\ AtRest /\ SilentAlone
  BY DEF Browser!Init, SettledAlone, AtRest, SilentAlone
<1> QED BY <1>1, <1>2 DEF BrowserInv

LEMMA BrowserKept ==
  BrowserInv => Browser!TypeOK /\ Browser!ClosedForGood /\ Browser!StoppedIsSilent
BY DEF BrowserInv, BrowserData, SettledAlone, AtRest, SilentAlone,
       Browser!TypeOK, Browser!ClosedForGood, Browser!StoppedIsSilent

-----------------------------------------------------------------------------
(* SandboxRun.                                                             *)

\* What Prepare hands out is of the right kind, and a process without a limit
\* is refused and has no cgroup.
LEMMA PrepareOutcome ==
  ASSUME NEW s \in SUBSET Run!Limit, NEW d \in BOOLEAN, NEW p \in Run!Prepare(s, d)
  PROVE  /\ p.applied \in SUBSET (Run!Limit \cup {"rlimit"}) /\ p.cg \in BOOLEAN
         /\ p.cg => Run!AnyEnforced(p.applied)
<1>1. PICK g \in Run!NewCgroup(s) :
        p = [cg |-> g.cg /\ Run!AnyEnforced(Run!Applied(g, s)), applied |-> Run!Applied(g, s)]
  BY DEF Run!Prepare, Run!NewCgroup
<1>2. g.set \subseteq s /\ g.cg \in BOOLEAN
  <2>1. CASE g = Run!NoCgroup
    BY <2>1 DEF Run!NoCgroup
  <2>2. CASE g # Run!NoCgroup
    <3>1. PICK w \in SUBSET (s \cap Run!Controlled) : g = [cg |-> TRUE, set |-> w]
      BY <2>2 DEF Run!NewCgroup
    <3> QED BY <3>1
  <2> QED BY <2>1, <2>2
<1>3. Run!Applied(g, s) \subseteq Run!Limit \cup {"rlimit"}
  BY <1>2 DEF Run!Applied
<1>4. p.applied = Run!Applied(g, s) /\ p.cg = (g.cg /\ Run!AnyEnforced(Run!Applied(g, s)))
  BY <1>1
<1> QED BY <1>2, <1>3, <1>4 DEF Run!AnyEnforced

\* A command's exit code: 0 only of one that ended well and was not cut short.
LEMMA CodeOfExit ==
  ASSUME NEW e \in {"waiting", "nil", "exit", "context"}, NEW t \in BOOLEAN
  PROVE  /\ Run!ExitCode(e, t) \in Run!Code
         /\ Run!ExitCode(e, t) = "0" => e \in {"waiting", "nil"} /\ ~t
BY DEF Run!ExitCode, Run!Code

RunData ==
  /\ limits \in Config /\ inside \in BOOLEAN
  /\ Run!TypeOK

\* What Wait returns is how the main process has ended.
WaitTells ==
  /\ main \in {"none", "running"} => waitErr = "waiting" /\ (main = "none" => kids = {})
  /\ main = "ok" => waitErr \in {"nil", "context"}
  /\ main \in {"failed", "killed"} => waitErr = "exit"

\* Where Run is, and what it knows there.
RunPhase ==
  /\ pc \in {"prepare", "start", "refused"} => main = "none"
  /\ pc \in {"wait", "kill", "drain"} => main # "none"
  /\ pc \notin {"prepare", "refused"} => Run!AnyEnforced(applied)
  /\ pc = "refused" => cg = "none"
  /\ pc # "done" => cg \in {"none", "there"}
  /\ pc \in {"prepare", "start", "wait", "refused"} => result = Run!NoResult
  /\ pc \in {"kill", "drain"} => result.timedOut
  /\ result.timedOut => result.code # "0"

\* What is left once Wait has returned or the group has been killed: it cannot
\* fork what it has not got itself.
RunLeaves ==
  /\ pc \in {"close", "done"} /\ result.code = "0" => main = "ok"
  /\ pc \in {"drain", "close", "done"} =>
       main # "running" /\ (IF result.timedOut THEN \A k \in kids : ~k.group ELSE \A k \in kids : ~k.pipe)
  /\ pc = "done" /\ cg = "left" =>
       IF result.timedOut THEN \E k \in spawned : ~k.group ELSE \E k \in spawned : ~k.pipe

RunInv == RunData /\ WaitTells /\ RunPhase /\ RunLeaves

LEMMA RunDataStep == ASSUME RunInv, Run!Next PROVE RunData'
<1> USE DEF RunData, Run!TypeOK, Run!process, Run!setup
<1>0. RunData /\ RunPhase
  BY DEF RunInv
<1>1. CASE Run!PrepareRun
  <2>1. limits.set \in SUBSET Run!Limit /\ limits.disabled \in BOOLEAN
    BY <1>0, RuntimeAssumption DEF ConfigAssumption
  <2> QED BY <1>0, <1>1, <2>1, PrepareOutcome DEF Run!PrepareRun
<1>2. CASE Run!Start
  <2>1. result = Run!NoResult
    BY <1>0, <1>2 DEF Run!Start, RunPhase
  <2>2. [result EXCEPT !.code = "error"] \in [timedOut : BOOLEAN, code : Run!Code]
    BY <2>1 DEF Run!NoResult, Run!Code
  <2> QED BY <1>0, <1>2, <2>2 DEF Run!Start
<1>3. CASE Run!Fork \/ Run!KidExits
  BY <1>0, <1>3 DEF Run!Fork, Run!KidExits
<1>4. CASE Run!MainExits \/ Run!KillMain
  BY <1>0, <1>4 DEF Run!MainExits, Run!KillMain
<1>5. CASE Run!Deadline \/ Run!Cancel \/ Run!Overdue
  BY <1>0, <1>5 DEF Run!Deadline, Run!Cancel, Run!Overdue
<1>6. CASE Run!Return
  <2>1. PICK late \in BOOLEAN : LET timedOut == ctxErr = "deadline" \/ late IN
          /\ result' = [timedOut |-> timedOut, code |-> Run!ExitCode(IF late THEN "nil" ELSE waitErr, timedOut)]
          /\ pc' = IF timedOut THEN "kill" ELSE "close"
    BY <1>6 DEF Run!Return
  <2>2. result' \in [timedOut : BOOLEAN, code : Run!Code]
    BY <1>0, <2>1, CodeOfExit
  <2> QED BY <1>0, <1>6, <2>1, <2>2 DEF Run!Return
<1>7. CASE Run!KillGroup
  BY <1>0, <1>7 DEF Run!KillGroup, Run!Escaped
<1>8. CASE Run!Drain \/ Run!Close
  BY <1>0, <1>8 DEF Run!Drain, Run!Close
<1> QED
  BY <1>1, <1>2, <1>3, <1>4, <1>5, <1>6, <1>7, <1>8 DEF Run!Next

LEMMA WaitTellsStep == ASSUME RunInv, Run!Next PROVE WaitTells'
<1> USE DEF WaitTells, RunInv, RunData, Run!process, Run!setup
<1>1. CASE Run!Fork
  <2>1. main # "none"
    BY <1>1 DEF Run!Fork, Run!MayFork
  <2> QED BY <1>1, <2>1 DEF Run!Fork
<1>2. CASE Run!Start
  BY <1>2 DEF Run!Start, RunPhase
<1>3. CASE ~Run!Fork /\ ~Run!Start
  BY <1>3 DEF Run!Next, Run!PrepareRun, Run!KidExits, Run!MainExits, Run!KillMain, Run!Deadline, Run!Cancel,
              Run!Overdue, Run!Return, Run!KillGroup, Run!Drain, Run!Close, Run!Escaped
<1> QED BY <1>1, <1>2, <1>3

LEMMA RunPhaseStep == ASSUME RunInv, Run!Next PROVE RunPhase'
<1> USE DEF RunPhase, Run!process, Run!setup
<1>0. RunData /\ WaitTells /\ RunPhase
  BY DEF RunInv
<1>1. CASE Run!PrepareRun
  <2>1. limits.set \in SUBSET Run!Limit /\ limits.disabled \in BOOLEAN
    BY <1>0, RuntimeAssumption DEF ConfigAssumption, RunData
  <2> QED BY <1>0, <1>1, <2>1, PrepareOutcome DEF Run!PrepareRun
<1>2. CASE Run!Start
  BY <1>0, <1>2 DEF Run!Start, Run!NoResult
<1>3. CASE Run!Fork \/ Run!KidExits
  BY <1>0, <1>3 DEF Run!Fork, Run!KidExits
<1>4. CASE Run!MainExits \/ Run!KillMain
  BY <1>0, <1>4 DEF Run!MainExits, Run!KillMain
<1>5. CASE Run!Deadline \/ Run!Cancel \/ Run!Overdue
  BY <1>0, <1>5 DEF Run!Deadline, Run!Cancel, Run!Overdue
<1>6. CASE Run!Return
  <2>1. PICK late \in BOOLEAN : LET timedOut == ctxErr = "deadline" \/ late IN
          /\ result' = [timedOut |-> timedOut, code |-> Run!ExitCode(IF late THEN "nil" ELSE waitErr, timedOut)]
          /\ pc' = IF timedOut THEN "kill" ELSE "close"
    BY <1>6 DEF Run!Return
  <2>2. waitErr \in {"waiting", "nil", "exit", "context"}
    BY <1>0 DEF RunData, Run!TypeOK
  <2>3. result'.timedOut => result'.code # "0"
    BY <2>1, <2>2, CodeOfExit
  <2> QED BY <1>0, <1>6, <2>1, <2>3 DEF Run!Return
<1>7. CASE Run!KillGroup
  BY <1>0, <1>7 DEF Run!KillGroup
<1>8. CASE Run!Drain \/ Run!Close
  BY <1>0, <1>8 DEF Run!Drain, Run!Close
<1> QED
  BY <1>1, <1>2, <1>3, <1>4, <1>5, <1>6, <1>7, <1>8 DEF Run!Next

LEMMA RunLeavesStep == ASSUME RunInv, Run!Next PROVE RunLeaves'
<1> USE DEF RunLeaves, Run!process, Run!setup
<1>0. RunData /\ WaitTells /\ RunPhase /\ RunLeaves /\ kids \subseteq spawned
      /\ waitErr \in {"waiting", "nil", "exit", "context"}
  BY DEF RunInv, RunData, Run!TypeOK
<1>1. CASE Run!PrepareRun
  BY <1>0, <1>1 DEF Run!PrepareRun
<1>2. CASE Run!Start
  BY <1>0, <1>2 DEF Run!Start, RunPhase, WaitTells, Run!NoResult
<1>3. CASE Run!Fork
  BY <1>0, <1>3 DEF Run!Fork, Run!MayFork
<1>4. CASE Run!KidExits
  BY <1>0, <1>4 DEF Run!KidExits
<1>5. CASE Run!MainExits \/ Run!KillMain
  BY <1>0, <1>5 DEF Run!MainExits, Run!KillMain
<1>6. CASE Run!Deadline \/ Run!Cancel \/ Run!Overdue
  BY <1>0, <1>6 DEF Run!Deadline, Run!Cancel, Run!Overdue
<1>7. CASE Run!Return
  <2>1. PICK late \in BOOLEAN : LET timedOut == ctxErr = "deadline" \/ late IN
          /\ IF late THEN overdue ELSE Run!Waited
          /\ result' = [timedOut |-> timedOut, code |-> Run!ExitCode(IF late THEN "nil" ELSE waitErr, timedOut)]
          /\ pc' = IF timedOut THEN "kill" ELSE "close"
    BY <1>7 DEF Run!Return
  <2>2. UNCHANGED <<cg, main, kids, spawned>> /\ pc = "wait"
    BY <1>7 DEF Run!Return
  <2>3. CASE pc' = "close"
    <3>1. ~late /\ ~result'.timedOut /\ Run!Waited /\ result'.code = Run!ExitCode(waitErr, FALSE)
      BY <2>1, <2>3
    <3>2. main # "running" /\ main # "none" /\ \A k \in kids : ~k.pipe
      BY <1>0, <2>2, <3>1 DEF Run!Waited, Run!PipeHeld, RunPhase
    <3>3. result'.code = "0" => main = "ok"
      BY <1>0, <3>1, <3>2, CodeOfExit DEF WaitTells, RunData, Run!TypeOK
    <3> QED BY <2>2, <2>3, <3>1, <3>2, <3>3
  <2> QED BY <2>1, <2>3
<1>8. CASE Run!KillGroup
  BY <1>0, <1>8 DEF Run!KillGroup, Run!Escaped, RunPhase
<1>9. CASE Run!Drain
  BY <1>0, <1>9 DEF Run!Drain, RunPhase
<1>10. CASE Run!Close
  BY <1>0, <1>10 DEF Run!Close, RunPhase
<1> QED
  BY <1>1, <1>2, <1>3, <1>4, <1>5, <1>6, <1>7, <1>8, <1>9, <1>10 DEF Run!Next

LEMMA RunStep == ASSUME RunInv, Run!Next PROVE RunInv'
BY RunDataStep, WaitTellsStep, RunPhaseStep, RunLeavesStep DEF RunInv

LEMMA RunInit == Run!Init => RunInv
<1> SUFFICES ASSUME Run!Init PROVE RunInv
  OBVIOUS
<1>1. result \in [timedOut : BOOLEAN, code : Run!Code] /\ ~result.timedOut
  BY DEF Run!Init, Run!NoResult, Run!Code
<1>2. RunData
  BY <1>1 DEF Run!Init, RunData, Run!TypeOK
<1>3. WaitTells /\ RunPhase /\ RunLeaves
  BY <1>1 DEF Run!Init, WaitTells, RunPhase, RunLeaves
<1> QED BY <1>2, <1>3 DEF RunInv

LEMMA RunReclaimed ==
  RunInv => Run!TypeOK /\ Run!ZeroIsSuccess /\ Run!GroupReclaimed /\ Run!CgroupReclaimed
<1> SUFFICES ASSUME RunInv
             PROVE  Run!TypeOK /\ Run!ZeroIsSuccess /\ Run!GroupReclaimed /\ Run!CgroupReclaimed
  OBVIOUS
<1>1. Run!TypeOK /\ Run!ZeroIsSuccess
  BY DEF RunInv, RunData, RunPhase, RunLeaves, Run!ZeroIsSuccess
<1>2. Run!GroupReclaimed
  BY DEF RunInv, RunLeaves, Run!GroupReclaimed
<1>3. Run!CgroupReclaimed
  BY DEF RunInv, RunPhase, RunLeaves, Run!CgroupReclaimed, Run!Escaped
<1> QED BY <1>1, <1>2, <1>3

-----------------------------------------------------------------------------
(* SandboxSupervisor.                                                      *)

StopCall ==
  [pc : {"idle", "kill", "wait", "check", "remove", "clear", "done", "panic"},
   errs : SUBSET {"alive after 3s", "cgroup"}]

At(c, place) == sOp[c].pc = place
Active(c) == sOp[c].pc \notin {"idle", "done"}

SuperData ==
  /\ sPc \in {"prepare", "started", "failed"}
  /\ cg \in {"none", "there", "removed"}
  /\ main \in {"none", "running", "exited"} /\ kids \subseteq Super!Kid
  /\ sOp \in [Client -> StopCall]
  /\ inside \in BOOLEAN /\ handle \in BOOLEAN /\ exitCh \in BOOLEAN /\ stopped \in BOOLEAN
  /\ found \in BOOLEAN /\ escaped \in BOOLEAN /\ crossed \in BOOLEAN

\* What cannot have happened yet.
SuperPhase ==
  /\ sPc # "started" => ~stopped /\ main = "none" /\ (sPc = "prepare" => cg = "none") /\ cg # "there"
  /\ ~stopped => ~found /\ \A c \in Client : At(c, "idle")
  /\ main = "none" => kids = {}
  /\ ~escaped => \A k \in kids : k.group
  /\ ~crossed => \A c, d \in Client : Active(c) /\ Active(d) => c = d

\* The first Stop is about to kill what it found, or has: nobody of the group is
\* left to fork another, and if nobody has left the group nobody is left at all.
Killed ==
  found => \/ \E c \in Client : At(c, "kill")
           \/ main = "exited" /\ (\A k \in kids : ~k.group) /\ (~escaped => kids = {})

\* A call that is about to clear the handle has removed the cgroup or reports
\* it; a handle that is gone is missed only by a call that another one has met.
Excused == crossed \/ escaped \/ ~found
Reported ==
  /\ \A c \in Client : At(c, "clear") => cg # "there" \/ ("cgroup" \in sOp[c].errs /\ Excused)
  /\ cg = "there" /\ ~handle => stopped /\ Excused /\ \E c \in Client : "cgroup" \in sOp[c].errs
  /\ \A c \in Client : At(c, "panic") \/ (At(c, "remove") /\ ~handle) => crossed

SuperInv == SuperData /\ SuperPhase /\ Killed /\ Reported

\* A step of a call of Stop changes this call, and takes no error back.
LEMMA StopCallMoves ==
  ASSUME SuperData, NEW c \in Client, NEW to \in {"kill", "wait", "check", "remove", "clear", "done", "panic"},
         NEW e \in {"alive after 3s", "cgroup"}, Super!Go(c, to) \/ Super!Fail(c, to, e)
  PROVE  /\ sOp' \in [Client -> StopCall]
         /\ sOp'[c].pc = to /\ sOp[c].errs \subseteq sOp'[c].errs
         /\ Super!Fail(c, to, e) => e \in sOp'[c].errs
         /\ \A d \in Client : d # c => sOp'[d] = sOp[d]
<1>1. sOp[c] \in StopCall /\ sOp \in [Client -> StopCall]
  BY DEF SuperData
<1>0. ASSUME Super!Fail(c, to, e) PROVE e \in sOp'[c].errs
  <2> DEFINE call == [pc |-> to, errs |-> sOp[c].errs \cup {e}]
  <2>1. e \in call.errs
    OBVIOUS
  <2>2. sOp' = [sOp EXCEPT ![c] = call]
    BY <1>0 DEF Super!Fail
  <2> HIDE DEF call
  <2> QED BY <1>1, <2>1, <2>2
<1>2. CASE Super!Go(c, to)
  <2> DEFINE call == [sOp[c] EXCEPT !.pc = to]
  <2>1. call \in StopCall /\ call.pc = to /\ call.errs = sOp[c].errs
    BY <1>1 DEF StopCall
  <2>2. sOp' = [sOp EXCEPT ![c] = call]
    BY <1>2 DEF Super!Go
  <2> HIDE DEF call
  <2> QED BY <1>1, <1>2, <1>0, <2>1, <2>2
<1>3. CASE Super!Fail(c, to, e)
  <2> DEFINE call == [pc |-> to, errs |-> sOp[c].errs \cup {e}]
  <2>1. call \in StopCall /\ call.pc = to /\ sOp[c].errs \subseteq call.errs /\ e \in call.errs
    BY <1>1 DEF StopCall
  <2>2. sOp' = [sOp EXCEPT ![c] = call]
    BY <1>3 DEF Super!Fail
  <2> HIDE DEF call
  <2> QED BY <1>1, <2>1, <2>2
<1> QED BY <1>2, <1>3

\* The moves of the calls, with what each of them asks for.
LEMMA StopCallSteps ==
  ASSUME SuperData, NEW c \in Client,
         \/ Super!Stop(c) \/ Super!KillGroup(c) \/ Super!AwaitExit(c)
         \/ Super!CheckHandle(c) \/ Super!Remove(c) \/ Super!ClearHandle(c)
  PROVE  /\ sOp' \in [Client -> StopCall]
         /\ sOp[c].errs \subseteq sOp'[c].errs
         /\ \A d \in Client : d # c => sOp'[d] = sOp[d]
         /\ At(c, "kill")' => Super!Stop(c) /\ ~stopped
         /\ At(c, "clear")' => Super!Remove(c) /\ (cg' = "removed" \/ "cgroup" \in sOp'[c].errs)
         /\ At(c, "panic")' => Super!Remove(c) /\ ~handle
         /\ At(c, "remove")' => handle /\ handle'
         /\ ~At(c, "idle")'
<1> USE DEF At
<1>1. CASE Super!Stop(c)
  <2>1. PICK to \in {"kill", "check"} : Super!Go(c, to) /\ (to = "kill" => ~stopped)
    BY <1>1 DEF Super!Stop
  <2> QED BY <1>1, <2>1, StopCallMoves
<1>2. CASE Super!KillGroup(c)
  <2>1. Super!Go(c, "wait")
    BY <1>2 DEF Super!KillGroup
  <2> QED BY <2>1, StopCallMoves
<1>3. CASE Super!AwaitExit(c)
  <2>1. Super!Go(c, "check") \/ Super!Fail(c, "check", "alive after 3s")
    BY <1>3 DEF Super!AwaitExit
  <2> QED BY <2>1, StopCallMoves
<1>4. CASE Super!CheckHandle(c)
  <2>1. PICK to \in {"remove", "done"} : Super!Go(c, to) /\ (to = "remove" => handle) /\ handle' = handle
    BY <1>4 DEF Super!CheckHandle
  <2> QED BY <2>1, StopCallMoves
<1>5. CASE Super!Remove(c)
  <2>1. CASE ~handle
    <3>1. Super!Go(c, "panic")
      BY <1>5, <2>1 DEF Super!Remove
    <3> QED BY <1>5, <2>1, <3>1, StopCallMoves
  <2>2. CASE cg' = "removed" /\ Super!Go(c, "clear")
    BY <1>5, <2>2, StopCallMoves
  <2>3. CASE Super!Fail(c, "clear", "cgroup")
    BY <1>5, <2>3, StopCallMoves
  <2> QED BY <1>5, <2>1, <2>2, <2>3 DEF Super!Remove
<1>6. CASE Super!ClearHandle(c)
  <2>1. Super!Go(c, "done")
    BY <1>6 DEF Super!ClearHandle
  <2> QED BY <2>1, StopCallMoves
<1> QED BY <1>1, <1>2, <1>3, <1>4, <1>5, <1>6

LEMMA SuperDataStep == ASSUME SuperData, Super!Next PROVE SuperData'
<1> USE DEF SuperData, Super!started, Super!history
<1>1. CASE Super!Start
  <2>1. PICK p \in Super!Prepare(limits.set, limits.disabled) : /\ handle' \in {handle, p.cg}
                                                       /\ inside' \in {inside, FALSE, p.cg}
    BY <1>1 DEF Super!Start
  <2>2. p.cg \in BOOLEAN
    <3>1. PICK g \in {Super!NoCgroup} \cup Super!NewCgroup(limits.set) :
            p = [cg |-> g.cg /\ Super!AnyEnforced(Super!Applied(g, limits.set)),
                 applied |-> Super!Applied(g, limits.set)]
      BY <2>1 DEF Super!Prepare
    <3> QED BY <3>1
  <2>3. UNCHANGED <<kids, sOp, exitCh, stopped, found, escaped, crossed>>
    BY <1>1 DEF Super!Start
  <2>4. sPc' \in {"started", "failed"} /\ cg' \in {"none", "there", "removed"} /\ main' \in {main, "running"}
    BY <1>1 DEF Super!Start
  <2>5. inside' \in BOOLEAN /\ handle' \in BOOLEAN
    BY <2>1, <2>2
  <2> QED BY <2>3, <2>4, <2>5
<1>2. CASE Super!Fork \/ Super!KidExits \/ Super!MainExits \/ Super!WaitLoop
  <2>1. UNCHANGED <<sPc, cg, sOp, inside, handle, stopped, found, crossed>>
    BY <1>2 DEF Super!Fork, Super!KidExits, Super!MainExits, Super!WaitLoop
  <2>2. /\ kids' \subseteq Super!Kid /\ main' \in {main, "exited"} /\ exitCh' \in {exitCh, TRUE}
        /\ escaped' = escaped \/ \E k \in Super!Kid : escaped' = (escaped \/ ~k.group)
    BY <1>2 DEF Super!Fork, Super!KidExits, Super!MainExits, Super!WaitLoop
  <2>3. escaped' \in BOOLEAN
    BY <2>2
  <2>4. /\ sPc' \in {"prepare", "started", "failed"} /\ cg' \in {"none", "there", "removed"}
        /\ sOp' \in [Client -> StopCall]
    BY <2>1
  <2>5. /\ inside' \in BOOLEAN /\ handle' \in BOOLEAN /\ stopped' \in BOOLEAN
        /\ found' \in BOOLEAN /\ crossed' \in BOOLEAN
    BY <2>1
  <2>6. exitCh' \in BOOLEAN /\ main' \in {"none", "running", "exited"}
    BY <2>2
  <2> QED BY <2>2, <2>3, <2>4, <2>5, <2>6
<1>3. ASSUME NEW c \in Client,
             \/ Super!Stop(c) \/ Super!KillGroup(c) \/ Super!AwaitExit(c)
             \/ Super!CheckHandle(c) \/ Super!Remove(c) \/ Super!ClearHandle(c)
      PROVE  SuperData'
  <2>1. sOp' \in [Client -> StopCall]
    BY <1>3, StopCallSteps
  <2>2. /\ sPc' = sPc /\ inside' = inside /\ exitCh' = exitCh /\ escaped' = escaped
        /\ found' \in BOOLEAN /\ crossed' \in BOOLEAN /\ stopped' \in BOOLEAN
        /\ cg' \in {cg, "removed"} /\ handle' \in {handle, FALSE} /\ main' \in {main, "exited"} /\ kids' \subseteq kids
    BY <1>3 DEF Super!Stop, Super!KillGroup, Super!AwaitExit, Super!CheckHandle, Super!Remove,
                Super!ClearHandle, Super!Escaped
  <2> QED BY <2>1, <2>2
<1> QED BY <1>1, <1>2, <1>3 DEF Super!Next

LEMMA SuperPhaseStep == ASSUME SuperData, SuperPhase, Super!Next PROVE SuperPhase'
<1> USE DEF SuperPhase, Super!started, Super!history
<1>0. sPc \in {"prepare", "started", "failed"} /\ main \in {"none", "running", "exited"}
      /\ stopped \in BOOLEAN /\ crossed \in BOOLEAN
  BY DEF SuperData
<1>1. CASE Super!Start
  BY <1>0, <1>1 DEF Super!Start, At, Active
<1>2. CASE Super!Fork
  <2>1. main # "none"
    BY <1>0, <1>2 DEF Super!Fork, Super!MayFork
  <2> QED BY <1>0, <1>2, <2>1 DEF Super!Fork, At, Active
<1>3. CASE Super!KidExits \/ Super!MainExits \/ Super!WaitLoop
  BY <1>0, <1>3 DEF Super!KidExits, Super!MainExits, Super!WaitLoop, At, Active
<1>4. ASSUME NEW c \in Client, Super!Stop(c) PROVE SuperPhase'
  <2>1. \A d \in Client : d # c => sOp'[d] = sOp[d]
    BY <1>4, StopCallSteps
  <2>2. /\ sPc = "started" /\ stopped' /\ UNCHANGED <<sPc, cg, main, kids, escaped>>
        /\ crossed' = (crossed \/ \E d \in Client : Active(d))
    BY <1>4 DEF Super!Stop, Active
  <2>3. ASSUME ~crossed', NEW d \in Client, Active(d)' PROVE d = c
    BY <2>1, <2>2, <2>3 DEF Active
  <2> QED BY <2>2, <2>3
<1>5. ASSUME NEW c \in Client,
             \/ Super!KillGroup(c) \/ Super!AwaitExit(c)
             \/ Super!CheckHandle(c) \/ Super!Remove(c) \/ Super!ClearHandle(c)
      PROVE  SuperPhase'
  <2>1. \A d \in Client : d # c => sOp'[d] = sOp[d]
    BY <1>5, StopCallSteps
  <2>2. Active(c) /\ ~At(c, "idle")
    BY <1>5 DEF Active, At, Super!KillGroup, Super!AwaitExit, Super!CheckHandle, Super!Remove, Super!ClearHandle
  <2>3. stopped /\ sPc = "started"
    BY <1>0, <2>2
  <2>4. /\ UNCHANGED <<sPc, stopped, escaped, crossed>> /\ kids' \subseteq kids /\ main' \in {main, "exited"}
        /\ (main' = main \/ kids' = {k \in kids : ~k.group})
    BY <1>5 DEF Super!KillGroup, Super!AwaitExit, Super!CheckHandle, Super!Remove, Super!ClearHandle, Super!Escaped
  <2>5. \A d \in Client : Active(d)' => Active(d)
    BY <2>1, <2>2 DEF Active
  <2> QED BY <1>0, <2>3, <2>4, <2>5
<1> QED BY <1>1, <1>2, <1>3, <1>4, <1>5 DEF Super!Next

LEMMA KilledStep == ASSUME SuperData, SuperPhase, Killed, Super!Next PROVE Killed'
<1> USE DEF Killed, Super!started, Super!history
<1>0. sPc \in {"prepare", "started", "failed"} /\ main \in {"none", "running", "exited"}
      /\ stopped \in BOOLEAN /\ escaped \in BOOLEAN /\ found \in BOOLEAN /\ kids \subseteq Super!Kid
  BY DEF SuperData
<1>1. CASE Super!Start
  BY <1>0, <1>1 DEF Super!Start, SuperPhase
<1>2. CASE Super!Fork
  BY <1>0, <1>2 DEF Super!Fork, Super!MayFork, At, SuperPhase
<1>3. CASE Super!KidExits \/ Super!MainExits \/ Super!WaitLoop
  BY <1>0, <1>3 DEF Super!KidExits, Super!MainExits, Super!WaitLoop, At
<1>4. ASSUME NEW c \in Client, Super!Stop(c) PROVE Killed'
  <2>1. \A d \in Client : d # c => sOp'[d] = sOp[d]
    BY <1>4, StopCallSteps
  <2>2. UNCHANGED <<main, kids, escaped>> /\ ~At(c, "kill")
    BY <1>4 DEF Super!Stop, At
  <2>3. CASE found
    BY <2>1, <2>2, <2>3 DEF At
  <2>4. CASE ~found /\ found'
    <3>1. Super!Go(c, "kill")
      BY <1>4, <2>4 DEF Super!Stop
    <3>2. At(c, "kill")'
      BY <3>1 DEF Super!Go, At, SuperData, StopCall
    <3> QED BY <3>2
  <2> QED BY <2>3, <2>4
<1>5. ASSUME NEW c \in Client, Super!KillGroup(c) PROVE Killed'
  BY <1>5 DEF Super!KillGroup, Super!Escaped, SuperPhase
<1>6. ASSUME NEW c \in Client, Super!AwaitExit(c) \/ Super!CheckHandle(c) \/ Super!Remove(c) \/ Super!ClearHandle(c)
      PROVE  Killed'
  <2>1. \A d \in Client : d # c => sOp'[d] = sOp[d]
    BY <1>6, StopCallSteps
  <2>2. UNCHANGED <<main, kids, escaped, found>> /\ ~At(c, "kill")
    BY <1>6 DEF Super!AwaitExit, Super!CheckHandle, Super!Remove, Super!ClearHandle, At
  <2> QED BY <2>1, <2>2 DEF At
<1> QED BY <1>1, <1>2, <1>3, <1>4, <1>5, <1>6 DEF Super!Next

LEMMA ReportedStep == ASSUME SuperInv, Super!Next PROVE Reported'
<1> USE DEF Super!started, Super!history
<1>0. SuperData /\ SuperPhase /\ Killed /\ Reported
      /\ sPc \in {"prepare", "started", "failed"} /\ main \in {"none", "running", "exited"}
      /\ stopped \in BOOLEAN /\ escaped \in BOOLEAN /\ found \in BOOLEAN /\ crossed \in BOOLEAN
      /\ handle \in BOOLEAN
  BY DEF SuperInv, SuperData
<1>1. CASE Super!Start
  <2>1. \A c \in Client : At(c, "idle")'
    BY <1>0, <1>1 DEF Super!Start, SuperPhase, At
  <2>2. PICK p \in Super!Prepare(limits.set, limits.disabled) :
          cg' = "there" => p.cg /\ handle' = p.cg
    BY <1>1 DEF Super!Start
  <2> QED BY <2>1, <2>2 DEF Reported, At
<1>2. CASE Super!Fork \/ Super!KidExits \/ Super!MainExits \/ Super!WaitLoop
  <2>1. UNCHANGED <<sOp, cg, handle, stopped, found, crossed>> /\ (escaped => escaped')
    BY <1>0, <1>2 DEF Super!Fork, Super!KidExits, Super!MainExits, Super!WaitLoop
  <2> QED BY <1>0, <2>1 DEF Reported, Excused, At
<1>3. ASSUME NEW c \in Client,
             \/ Super!Stop(c) \/ Super!KillGroup(c) \/ Super!AwaitExit(c)
             \/ Super!CheckHandle(c) \/ Super!Remove(c) \/ Super!ClearHandle(c)
      PROVE  Reported'
  <2>1. /\ sOp[c].errs \subseteq sOp'[c].errs
        /\ \A d \in Client : d # c => sOp'[d] = sOp[d]
        /\ At(c, "clear")' => Super!Remove(c) /\ (cg' = "removed" \/ "cgroup" \in sOp'[c].errs)
        /\ At(c, "panic")' => Super!Remove(c) /\ ~handle
        /\ At(c, "remove")' => handle /\ handle'
    BY <1>0, <1>3, StopCallSteps
  <2>2. /\ escaped' = escaped /\ (crossed => crossed') /\ (stopped => stopped') /\ (stopped => found' = found)
        /\ cg' \in {cg, "removed"} /\ (cg' = cg \/ Super!Remove(c))
        /\ handle' = handle \/ (Super!ClearHandle(c) /\ ~handle')
    BY <1>0, <1>3 DEF Super!Stop, Super!KillGroup, Super!AwaitExit, Super!CheckHandle, Super!Remove, Super!ClearHandle
  <2>4. Excused /\ stopped => Excused'
    BY <2>2 DEF Excused
  \* No excuse is needed for a cgroup that can be removed.
  <2>5. ASSUME At(c, "clear")', cg' = "there" PROVE "cgroup" \in sOp'[c].errs /\ Excused'
    <3>1. Super!Remove(c) /\ Active(c) /\ ~At(c, "kill") /\ cg = "there" /\ stopped
      BY <1>0, <2>1, <2>2, <2>5 DEF Super!Remove, Active, At, SuperPhase
    <3> SUFFICES ASSUME ~crossed, ~escaped, found PROVE FALSE
      BY <2>1, <2>4, <2>5, <3>1 DEF Excused
    <3>2. \A d \in Client : ~At(d, "kill")
      BY <1>0, <3>1 DEF SuperPhase, Active, At
    <3>3. main = "exited" /\ kids = {}
      BY <1>0, <3>2 DEF Killed
    <3>4. handle
      BY <1>0, <3>1 DEF Reported, At, Super!Remove
    <3>5. cg' = "removed"
      BY <3>1, <3>3, <3>4 DEF Super!Remove
    <3> QED BY <2>5, <3>5
  <2>6. ASSUME NEW d \in Client, At(d, "clear")'
        PROVE  cg' # "there" \/ ("cgroup" \in sOp'[d].errs /\ Excused')
    <3>1. CASE d = c
      BY <2>5, <2>6, <3>1
    <3>2. CASE d # c
      <4>1. At(d, "clear") /\ stopped
        BY <1>0, <2>1, <2>6, <3>2 DEF At, SuperPhase
      <4> QED BY <1>0, <2>1, <2>2, <2>4, <3>2, <4>1 DEF Reported
    <3> QED BY <3>1, <3>2
  <2>7. ASSUME cg' = "there", ~handle'
        PROVE  stopped' /\ Excused' /\ \E d \in Client : "cgroup" \in sOp'[d].errs
    <3>1. cg = "there"
      BY <2>2, <2>7
    <3>2. CASE ~handle
      BY <1>0, <2>1, <2>2, <2>4, <3>1, <3>2 DEF Reported
    <3>3. CASE handle
      <4>1. Super!ClearHandle(c)
        BY <2>2, <2>7, <3>3
      <4>2. At(c, "clear") /\ stopped
        BY <1>0, <4>1 DEF Super!ClearHandle, At, SuperPhase
      <4> QED BY <1>0, <2>1, <2>2, <2>4, <3>1, <4>2 DEF Reported
    <3> QED BY <3>2, <3>3
  <2>8. ASSUME NEW d \in Client, At(d, "panic")' \/ (At(d, "remove")' /\ ~handle')
        PROVE  crossed'
    <3>1. CASE d = c
      <4>1. Super!Remove(c) /\ ~handle
        BY <2>1, <2>8, <3>1
      <4> QED BY <1>0, <2>2, <4>1 DEF Reported, Super!Remove, At
    <3>2. CASE d # c /\ (At(d, "panic") \/ (At(d, "remove") /\ ~handle))
      BY <1>0, <2>2, <3>2 DEF Reported
    <3>3. CASE d # c /\ At(d, "remove") /\ handle /\ ~handle'
      <4>1. Active(c) /\ Active(d)
        BY <2>2, <3>3 DEF Super!ClearHandle, Active, At
      <4> QED BY <1>0, <2>2, <3>3, <4>1 DEF SuperPhase
    <3> QED BY <2>1, <2>8, <3>1, <3>2, <3>3 DEF At
  <2> QED BY <2>6, <2>7, <2>8 DEF Reported
<1> QED BY <1>1, <1>2, <1>3 DEF Super!Next

LEMMA SuperStep == ASSUME SuperInv, Super!Next PROVE SuperInv'
BY SuperDataStep, SuperPhaseStep, KilledStep, ReportedStep DEF SuperInv

LEMMA SuperInit == Super!Init => SuperInv
<1> SUFFICES ASSUME Super!Init PROVE SuperInv
  OBVIOUS
<1>1. SuperData
  BY DEF Super!Init, SuperData, StopCall
<1>2. SuperPhase /\ Killed /\ Reported
  BY DEF Super!Init, SuperPhase, Killed, Reported, At, Active
<1> QED BY <1>1, <1>2 DEF SuperInv

LEMMA SuperReclaimed ==
  SuperInv => Super!TypeOK /\ Super!FoundIsKilled /\ Super!LeftIsReported
<1> SUFFICES ASSUME SuperInv PROVE Super!TypeOK /\ Super!FoundIsKilled /\ Super!LeftIsReported
  OBVIOUS
<1>1. Super!TypeOK
  BY DEF SuperInv, SuperData, Super!TypeOK, StopCall
<1>2. Super!FoundIsKilled
  BY DEF SuperInv, Killed, Super!FoundIsKilled, At
<1>3. Super!LeftIsReported
  BY DEF SuperInv, Reported, Excused, Super!LeftIsReported, At
<1> QED BY <1>1, <1>2, <1>3

-----------------------------------------------------------------------------
(* McpClient.                                                              *)

McpCall ==
  [pc : {"idle"}, outcome : Kind \cup {"nothing", "gave up", "transport", "closed", "protocol"}]
  \cup [pc : {"send", "lock", "write", "wait"}, id : 1..MaxId]

McpData ==
  /\ mOp \in [Client -> McpCall]
  /\ stdout \in Seq(Mcp!Line) /\ reader \in BOOLEAN /\ closed \in BOOLEAN
  /\ server \in {"running", "exited"}
  /\ Mcp!TypeOK

\* A call under way has registered its id, and every registered id has its call.
IdsExact ==
  /\ \A i \in pending : i <= nextID /\ \E c \in Client : mOp[c].pc # "idle" /\ mOp[c].id = i
  /\ \A c \in Client : mOp[c].pc # "idle" => mOp[c].id \in pending
  /\ \A c, d \in Client : mOp[c].pc # "idle" /\ mOp[d].pc # "idle" /\ mOp[c].id = mOp[d].id => c = d
  /\ \A i \in 1..MaxId : channel[i] # Mcp!Nothing => channel[i].id = i /\ i \in pending

\* The reader stops at its first error, noise beyond the limit among them.
ReaderExact ==
  /\ reader => skipped <= MaxNoise
  /\ readErr # "nil" => ~reader /\ closed

McpInv == McpData /\ IdsExact /\ ReaderExact

LEMMA McpCallType ==
  ASSUME McpData, NEW c \in Client, mOp[c].pc # "idle"
  PROVE  /\ mOp[c] \in [pc : {"send", "lock", "write", "wait"}, id : 1..MaxId]
         /\ mOp[c].id \in 1..MaxId
BY DEF McpData, McpCall

\* A call that goes on keeps its id.
LEMMA McpGo ==
  ASSUME McpData, IdsExact, NEW c \in Client, mOp[c].pc # "idle",
         NEW to \in {"send", "lock", "write", "wait"}, Mcp!Go(c, to),
         UNCHANGED <<nextID, pending, channel>>
  PROVE  mOp' \in [Client -> McpCall] /\ IdsExact'
<1> DEFINE call == [mOp[c] EXCEPT !.pc = to]
<1>1. call \in McpCall /\ call.pc # "idle" /\ call.id = mOp[c].id
  BY McpCallType DEF McpCall
<1>2. mOp' = [mOp EXCEPT ![c] = call] /\ mOp \in [Client -> McpCall]
  BY DEF Mcp!Go, McpData
<1> HIDE DEF call
<1>3. mOp' \in [Client -> McpCall]
  BY <1>1, <1>2
<1>4. ASSUME NEW d \in Client
      PROVE  /\ mOp'[d].pc # "idle" => mOp[d].pc # "idle"
             /\ mOp[d].pc # "idle" => mOp'[d].pc # "idle"
             /\ mOp[d].pc # "idle" => mOp'[d].id = mOp[d].id
  BY <1>1, <1>2
<1>5. \A d \in Client : mOp'[d].pc # "idle" => mOp'[d].id \in pending'
  <2> SUFFICES ASSUME NEW d \in Client, mOp'[d].pc # "idle" PROVE mOp'[d].id \in pending'
    OBVIOUS
  <2>1. mOp[d].pc # "idle" /\ mOp'[d].id = mOp[d].id
    BY <1>4
  <2> QED BY <2>1 DEF IdsExact
<1>6. ASSUME NEW d \in Client, NEW e \in Client,
             mOp'[d].pc # "idle", mOp'[e].pc # "idle", mOp'[d].id = mOp'[e].id
      PROVE  d = e
  <2>1. mOp[d].pc # "idle" /\ mOp[e].pc # "idle" /\ mOp[d].id = mOp[e].id
    BY <1>4, <1>6
  <2> QED BY <2>1 DEF IdsExact
<1>7. ASSUME NEW i \in pending'
      PROVE  i <= nextID' /\ \E d \in Client : mOp'[d].pc # "idle" /\ mOp'[d].id = i
  <2>1. i <= nextID /\ \E d \in Client : mOp[d].pc # "idle" /\ mOp[d].id = i
    BY <1>7 DEF IdsExact
  <2> QED BY <1>4, <2>1
<1>8. \A i \in 1..MaxId : channel'[i] # Mcp!Nothing => channel'[i].id = i /\ i \in pending'
  BY DEF IdsExact
<1> QED BY <1>3, <1>5, <1>6, <1>7, <1>8 DEF IdsExact

\* A call that returns takes its id out, and an answer that waits for it.
LEMMA McpReturn ==
  ASSUME McpData, IdsExact, NEW c \in Client, mOp[c].pc # "idle", NEW o, Mcp!Return(c, o),
         o.kind \in Kind \cup {"nothing", "gave up", "transport", "closed", "protocol"},
         nextID' = nextID
  PROVE  /\ mOp' \in [Client -> McpCall] /\ IdsExact'
         /\ pending' \subseteq 1..MaxId
         /\ channel' \in [1..MaxId -> Mcp!Answer \cup {Mcp!Nothing}]
<1>1. Mcp!Idle(o) \in McpCall /\ Mcp!Idle(o).pc = "idle"
  BY DEF Mcp!Idle, McpCall
<1>2. /\ mOp' = [mOp EXCEPT ![c] = Mcp!Idle(o)] /\ mOp \in [Client -> McpCall]
      /\ pending' = pending \ {mOp[c].id} /\ channel' = [channel EXCEPT ![mOp[c].id] = Mcp!Nothing]
  BY DEF Mcp!Return, McpData
<1>3. /\ mOp[c].id \in 1..MaxId /\ pending \subseteq 1..MaxId
      /\ channel \in [1..MaxId -> Mcp!Answer \cup {Mcp!Nothing}]
  BY McpCallType DEF McpData, Mcp!TypeOK
<1>4. mOp'[c].pc = "idle" /\ \A d \in Client : d # c => mOp'[d] = mOp[d]
  BY <1>1, <1>2
<1>5. ASSUME NEW i \in pending'
      PROVE  i <= nextID' /\ \E d \in Client : mOp'[d].pc # "idle" /\ mOp'[d].id = i
  BY <1>2, <1>4, <1>5 DEF IdsExact
<1>6. \A d \in Client : mOp'[d].pc # "idle" => mOp'[d].id \in pending'
  BY <1>2, <1>4 DEF IdsExact
<1>7. ASSUME NEW d \in Client, NEW e \in Client,
             mOp'[d].pc # "idle", mOp'[e].pc # "idle", mOp'[d].id = mOp'[e].id
      PROVE  d = e
  <2>1. d # c /\ e # c
    BY <1>4, <1>7
  <2>2. mOp[d].pc # "idle" /\ mOp[e].pc # "idle" /\ mOp[d].id = mOp[e].id
    BY <1>4, <1>7, <2>1
  <2> QED BY <2>2 DEF IdsExact
<1>8. ASSUME NEW i \in 1..MaxId, channel'[i] # Mcp!Nothing
      PROVE  channel'[i].id = i /\ i \in pending'
  BY <1>2, <1>3, <1>8 DEF IdsExact
<1>9. IdsExact'
  BY <1>5, <1>6, <1>7, <1>8 DEF IdsExact
<1> QED BY <1>1, <1>2, <1>3, <1>9

LEMMA McpCallStep ==
  ASSUME McpInv, NEW c \in Client,
         \/ Mcp!Refuse(c) \/ Mcp!Register(c) \/ Mcp!Send(c) \/ Mcp!Lock(c)
         \/ Mcp!Write(c) \/ Mcp!Receive(c) \/ Mcp!Timeout(c) \/ Mcp!WakeUp(c)
  PROVE  /\ mOp' \in [Client -> McpCall] /\ IdsExact'
         /\ nextID' \in 0..MaxId /\ pending' \subseteq 1..MaxId
         /\ channel' \in [1..MaxId -> Mcp!Answer \cup {Mcp!Nothing}]
<1> USE DEF Mcp!pipes, Mcp!conn
<1>0. /\ McpData /\ IdsExact /\ mOp \in [Client -> McpCall] /\ nextID \in 0..MaxId
      /\ pending \subseteq 1..MaxId /\ channel \in [1..MaxId -> Mcp!Answer \cup {Mcp!Nothing}]
      /\ readErr \in {"nil", "transport", "protocol", "closed"} /\ err \in {"nil", "transport", "closed"}
  BY DEF McpInv, McpData, Mcp!TypeOK
<1>1. CASE Mcp!Refuse(c)
  <2> DEFINE call == Mcp!Idle(Mcp!TransportErr)
  <2>1. call \in McpCall /\ call.pc = "idle"
    BY <1>0 DEF Mcp!Idle, Mcp!TransportErr, McpCall
  <2>2. mOp' = [mOp EXCEPT ![c] = call] /\ UNCHANGED <<nextID, pending, channel>> /\ mOp[c].pc = "idle"
    BY <1>1 DEF Mcp!Refuse
  <2> HIDE DEF call
  <2>3. mOp' \in [Client -> McpCall]
    BY <1>0, <2>1, <2>2
  <2>4. mOp'[c].pc = "idle" /\ \A d \in Client : d # c => mOp'[d] = mOp[d]
    BY <1>0, <2>1, <2>2
  <2>5. IdsExact'
    BY <1>0, <2>2, <2>4 DEF IdsExact
  <2> QED BY <1>0, <2>2, <2>3, <2>5
<1>2. CASE Mcp!Register(c)
  <2> DEFINE call == [pc |-> "send", id |-> nextID']
  <2>1. /\ nextID' = nextID + 1 /\ nextID < MaxId /\ channel' = channel
        /\ mOp' = [mOp EXCEPT ![c] = call] /\ pending' = pending \cup {nextID'} /\ mOp[c].pc = "idle"
    BY <1>2 DEF Mcp!Register
  <2>2. nextID' \in 1..MaxId /\ nextID' > nextID /\ nextID \in Nat /\ nextID' \in Nat
    BY <1>0, <2>1, RuntimeAssumption DEF BoundsAssumption
  <2>3. call \in McpCall /\ call.pc # "idle" /\ call.id = nextID'
    BY <2>2 DEF McpCall
  <2> HIDE DEF call
  <2>4. mOp' \in [Client -> McpCall]
    BY <1>0, <2>1, <2>3
  <2>5. mOp'[c] = call /\ \A d \in Client : d # c => mOp'[d] = mOp[d]
    BY <1>0, <2>1
  <2>6. nextID' \notin pending /\ \A i \in pending : i <= nextID'
    BY <1>0, <2>2 DEF IdsExact
  <2>7. IdsExact'
    <3>1. ASSUME NEW i \in pending'
          PROVE  i <= nextID' /\ \E d \in Client : mOp'[d].pc # "idle" /\ mOp'[d].id = i
      <4>1. CASE i = nextID'
        BY <2>2, <2>3, <2>5, <4>1
      <4>2. CASE i \in pending
        BY <1>0, <2>1, <2>5, <2>6, <4>2 DEF IdsExact
      <4> QED BY <2>1, <3>1, <4>1, <4>2
    <3>2. \A d \in Client : mOp'[d].pc # "idle" => mOp'[d].id \in pending'
      BY <1>0, <2>1, <2>3, <2>5 DEF IdsExact
    <3>3. ASSUME NEW d \in Client, NEW e \in Client,
                 mOp'[d].pc # "idle", mOp'[e].pc # "idle", mOp'[d].id = mOp'[e].id
          PROVE  d = e
      BY <1>0, <2>3, <2>5, <2>6, <3>3 DEF IdsExact
    <3>4. \A i \in 1..MaxId : channel'[i] # Mcp!Nothing => channel'[i].id = i /\ i \in pending'
      BY <1>0, <2>1 DEF IdsExact
    <3> QED BY <3>1, <3>2, <3>3, <3>4 DEF IdsExact
  <2> QED BY <1>0, <2>1, <2>2, <2>4, <2>7
<1>3. ASSUME mOp[c].pc # "idle", UNCHANGED <<nextID, pending, channel>>,
             Mcp!Go(c, "lock") \/ Mcp!Go(c, "write") \/ Mcp!Go(c, "wait")
      PROVE  mOp' \in [Client -> McpCall] /\ IdsExact'
  BY <1>0, <1>3, McpGo
<1>4. CASE Mcp!Send(c)
  <2>1. mOp[c].pc # "idle" /\ nextID' = nextID
    BY <1>4 DEF Mcp!Send
  <2>2. CASE Mcp!Go(c, "lock") /\ UNCHANGED <<pending, channel>>
    BY <1>0, <1>3, <2>1, <2>2
  <2>3. CASE err # "nil" /\ Mcp!Return(c, [kind |-> err])
    <3> DEFINE o == [kind |-> err]
    <3>1. o.kind \in {"transport", "closed"}
      BY <1>0, <2>3
    <3> HIDE DEF o
    <3>2. Mcp!Return(c, o)
      BY <2>3 DEF o
    <3> QED BY <1>0, <2>1, <3>1, <3>2, McpReturn
  <2>4. CASE Mcp!Return(c, [kind |-> "gave up"])
    BY <1>0, <2>1, <2>4, McpReturn
  <2> QED BY <1>4, <2>2, <2>3, <2>4 DEF Mcp!Send
<1>5. CASE Mcp!Lock(c)
  BY <1>0, <1>3, <1>5 DEF Mcp!Lock
<1>6. CASE Mcp!Write(c)
  <2>1. mOp[c].pc # "idle" /\ nextID' = nextID
    BY <1>6 DEF Mcp!Write
  <2>2. CASE Mcp!Go(c, "wait") /\ UNCHANGED <<pending, channel>>
    BY <1>0, <1>3, <2>1, <2>2
  <2>3. CASE Mcp!Return(c, [kind |-> "transport"])
    BY <1>0, <2>1, <2>3, McpReturn
  <2> QED BY <1>6, <2>2, <2>3 DEF Mcp!Write
<1>7. CASE Mcp!Receive(c)
  <2> DEFINE o == channel[mOp[c].id]
  <2>1. mOp[c].pc # "idle" /\ nextID' = nextID /\ o # Mcp!Nothing /\ Mcp!Return(c, o)
    BY <1>7 DEF Mcp!Receive
  <2>2. o.kind \in Kind
    BY <1>0, <2>1, McpCallType DEF Mcp!Answer
  <2> HIDE DEF o
  <2> QED BY <1>0, <2>1, <2>2, McpReturn
<1>8. CASE Mcp!Timeout(c)
  BY <1>0, <1>8, McpReturn DEF Mcp!Timeout
<1>9. CASE Mcp!WakeUp(c)
  <2>1. mOp[c].pc # "idle" /\ nextID' = nextID /\ Mcp!Return(c, Mcp!TransportErr)
    BY <1>9 DEF Mcp!WakeUp
  <2>2. Mcp!TransportErr.kind \in {"transport", "closed", "protocol"}
    BY <1>0 DEF Mcp!TransportErr
  <2> QED BY <1>0, <2>1, <2>2, McpReturn
<1> QED BY <1>1, <1>2, <1>4, <1>5, <1>6, <1>7, <1>8, <1>9

LEMMA McpStep == ASSUME McpInv, Mcp!Next PROVE McpInv'
<1> USE DEF Mcp!pipes, Mcp!conn, Mcp!calls
<1>0. /\ McpData /\ IdsExact /\ ReaderExact /\ Mcp!TypeOK /\ mOp \in [Client -> McpCall]
      /\ stdout \in Seq(Mcp!Line) /\ reader \in BOOLEAN /\ closed \in BOOLEAN /\ server \in {"running", "exited"}
  BY DEF McpInv, McpData
<1>1. ASSUME NEW c \in Client,
             \/ Mcp!Refuse(c) \/ Mcp!Register(c) \/ Mcp!Send(c) \/ Mcp!Lock(c)
             \/ Mcp!Write(c) \/ Mcp!Receive(c) \/ Mcp!Timeout(c) \/ Mcp!WakeUp(c)
      PROVE  McpInv'
  <2>1. /\ mOp' \in [Client -> McpCall] /\ IdsExact'
        /\ nextID' \in 0..MaxId /\ pending' \subseteq 1..MaxId
        /\ channel' \in [1..MaxId -> Mcp!Answer \cup {Mcp!Nothing}]
    BY <1>1, McpCallStep
  <2>2. /\ UNCHANGED <<phase, stdout, server, skipped, reader, closed, transport, readErr>>
        /\ err' \in {"nil", "transport", "closed"} /\ writer' \in Client \cup {Mcp!Nobody}
    BY <1>0, <1>1 DEF Mcp!TypeOK, Mcp!Refuse, Mcp!Register, Mcp!Send, Mcp!Lock, Mcp!Write, Mcp!Receive,
       Mcp!Timeout, Mcp!WakeUp
  <2>3. unread' \in 0..Capacity
    <3>1. unread' = unread \/ (unread < Capacity /\ unread' = unread + 1)
      BY <1>1 DEF Mcp!Refuse, Mcp!Register, Mcp!Send, Mcp!Lock, Mcp!Write, Mcp!Receive, Mcp!Timeout, Mcp!WakeUp
    <3> QED BY <1>0, <3>1, RuntimeAssumption DEF Mcp!TypeOK, BoundsAssumption
  <2>4. McpData'
    BY <1>0, <2>1, <2>2, <2>3 DEF McpData, Mcp!TypeOK
  <2> QED BY <1>0, <2>1, <2>2, <2>4 DEF McpInv, ReaderExact
<1>2. ASSUME UNCHANGED <<nextID, pending, mOp, channel>> PROVE IdsExact'
  BY <1>0, <1>2 DEF IdsExact
<1>3. CASE Mcp!Connected \/ Mcp!NotConnected \/ Mcp!ServerReads \/ Mcp!ServerExits
  <2>1. UNCHANGED <<nextID, pending, channel, mOp, writer, stdout, skipped, reader, closed, transport, readErr, err>>
    BY <1>3 DEF Mcp!Connected, Mcp!NotConnected, Mcp!ServerReads, Mcp!ServerExits
  <2>2. unread' \in 0..Capacity
    <3>1. \/ unread' = unread \/ (unread < Capacity /\ unread' = unread + 1)
          \/ (unread > 0 /\ unread' = unread - 1)
      BY <1>3 DEF Mcp!Connected, Mcp!NotConnected, Mcp!ServerReads, Mcp!ServerExits
    <3> QED BY <1>0, <3>1, RuntimeAssumption DEF Mcp!TypeOK, BoundsAssumption
  <2>3. phase' \in {"handshake", "ready", "failed"} /\ server' \in {"running", "exited"}
    BY <1>0, <1>3 DEF Mcp!TypeOK, Mcp!Connected, Mcp!NotConnected, Mcp!ServerReads, Mcp!ServerExits
  <2>4. McpData'
    BY <1>0, <2>1, <2>2, <2>3 DEF McpData, Mcp!TypeOK
  <2> QED BY <1>0, <1>2, <2>1, <2>4 DEF McpInv, ReaderExact
<1>4. CASE Mcp!ServerWrites
  <2>1. PICK l \in Mcp!Line : stdout' = Append(stdout, l) /\ Len(stdout) < MaxLines
    BY <1>4 DEF Mcp!ServerWrites
  <2>2. stdout' \in Seq(Mcp!Line) /\ Len(stdout') = Len(stdout) + 1 /\ Len(stdout) \in Nat
    BY <1>0, <2>1
  <2>3. Len(stdout') <= MaxLines
    BY <2>1, <2>2, RuntimeAssumption DEF BoundsAssumption
  <2>4. UNCHANGED <<phase, nextID, pending, channel, mOp, writer, unread, server, skipped, reader, closed,
                    transport, readErr, err>>
    BY <1>4 DEF Mcp!ServerWrites
  <2>5. McpData'
    BY <1>0, <2>2, <2>3, <2>4 DEF McpData, Mcp!TypeOK
  <2> QED BY <1>0, <1>2, <2>4, <2>5 DEF McpInv, ReaderExact
<1>5. CASE Mcp!ReadLine
  <2> DEFINE l == Head(stdout)
  <2>1. l \in Mcp!Line /\ stdout' \in Seq(Mcp!Line) /\ Len(stdout') = Len(stdout) - 1 /\ Len(stdout) \in Nat
    BY <1>0, <1>5 DEF Mcp!ReadLine
  <2>2. Len(stdout') <= MaxLines
    BY <1>0, <2>1, RuntimeAssumption DEF BoundsAssumption, Mcp!TypeOK
  <2>3. UNCHANGED <<phase, nextID, pending, mOp, writer, unread, server, transport, err>> /\ reader
    BY <1>5 DEF Mcp!ReadLine
  <2>4. /\ channel' \in [1..MaxId -> Mcp!Answer \cup {Mcp!Nothing}]
        /\ \A i \in 1..MaxId : channel'[i] # Mcp!Nothing => channel'[i].id = i /\ i \in pending
    <3>1. CASE l \in Mcp!Answer /\ Mcp!Dispatch(l)
      BY <1>0, <3>1 DEF Mcp!TypeOK, IdsExact, Mcp!Dispatch, Mcp!Answer
    <3>2. CASE channel' = channel
      BY <1>0, <3>2 DEF Mcp!TypeOK, IdsExact
    <3> QED BY <1>5, <3>1, <3>2 DEF Mcp!ReadLine
  <2>5. /\ reader' \in BOOLEAN /\ closed' \in BOOLEAN /\ skipped' \in 0..(MaxNoise + 1)
        /\ readErr' \in {"nil", "transport", "protocol", "closed"}
        /\ reader' => skipped' <= MaxNoise
        /\ readErr' # "nil" => ~reader' /\ closed'
    <3>0. skipped \in 0..MaxNoise /\ MaxNoise \in Nat
      BY <1>0, <2>3, RuntimeAssumption DEF ReaderExact, Mcp!TypeOK, BoundsAssumption
    <3>1. CASE UNCHANGED <<skipped, reader, closed, readErr>>
      BY <1>0, <3>1 DEF ReaderExact, Mcp!TypeOK
    <3>2. CASE Mcp!Skip
      <4>1. skipped' = skipped + 1
        BY <3>2 DEF Mcp!Skip
      <4>2. skipped' \in 0..(MaxNoise + 1)
        BY <3>0, <4>1
      <4>3. CASE skipped' > MaxNoise
        BY <3>2, <4>2, <4>3 DEF Mcp!Skip, Mcp!ReaderEnds
      <4>4. CASE ~(skipped' > MaxNoise)
        <5>1. skipped' <= MaxNoise
          BY <3>0, <4>2, <4>4
        <5>2. UNCHANGED <<reader, closed, readErr>>
          BY <3>2, <4>4 DEF Mcp!Skip
        <5> QED BY <1>0, <4>2, <5>1, <5>2 DEF ReaderExact, Mcp!TypeOK
      <4> QED BY <4>3, <4>4
    <3>3. CASE Mcp!ReaderEnds("protocol") /\ skipped' = skipped
      <4>1. skipped' \in 0..(MaxNoise + 1)
        BY <3>0, <3>3
      <4> QED BY <3>3, <4>1 DEF Mcp!ReaderEnds
    <3> QED BY <1>5, <3>1, <3>2, <3>3 DEF Mcp!ReadLine
  <2>6. McpData'
    BY <1>0, <2>1, <2>2, <2>3, <2>4, <2>5 DEF McpData, Mcp!TypeOK
  <2>7. IdsExact'
    BY <1>0, <2>3, <2>4 DEF IdsExact
  <2> QED BY <2>5, <2>6, <2>7 DEF McpInv, ReaderExact
<1>6. CASE Mcp!ReadFails \/ Mcp!Close \/ Mcp!StopServer
  <2>1. UNCHANGED <<phase, nextID, pending, channel, mOp, writer, unread, stdout, skipped>>
    BY <1>6 DEF Mcp!ReadFails, Mcp!Close, Mcp!StopServer
  <2>2. /\ err' \in {"nil", "transport", "closed"} /\ readErr' \in {"nil", "transport", "protocol", "closed"}
        /\ transport' \in {"open", "closing", "closed"} /\ reader' \in BOOLEAN /\ closed' \in BOOLEAN
        /\ server' \in {"running", "exited"}
        /\ (reader' => reader) /\ (readErr' # "nil" => ~reader' /\ closed')
    <3>0. /\ err \in {"nil", "transport", "closed"} /\ readErr \in {"nil", "transport", "protocol", "closed"}
          /\ transport \in {"open", "closing", "closed"}
          /\ readErr # "nil" => ~reader /\ closed
      BY <1>0 DEF Mcp!TypeOK, ReaderExact
    <3>1. CASE Mcp!ReadFails
      BY <1>0, <3>0, <3>1 DEF Mcp!ReadFails, Mcp!ReaderEnds
    <3>2. CASE Mcp!Close
      BY <1>0, <3>0, <3>2 DEF Mcp!Close
    <3>3. CASE Mcp!StopServer
      BY <1>0, <3>0, <3>3 DEF Mcp!StopServer
    <3> QED BY <1>6, <3>1, <3>2, <3>3
  <2>3. McpData'
    BY <1>0, <2>1, <2>2 DEF McpData, Mcp!TypeOK
  <2> QED BY <1>0, <1>2, <2>1, <2>2, <2>3 DEF McpInv, ReaderExact
<1> QED BY <1>1, <1>3, <1>4, <1>5, <1>6 DEF Mcp!Next

LEMMA McpInit == Mcp!Init => McpInv
<1> SUFFICES ASSUME Mcp!Init PROVE McpInv
  OBVIOUS
<1> USE RuntimeAssumption DEF BoundsAssumption
<1>1. Mcp!Idle(Mcp!Nothing) \in McpCall /\ Mcp!Idle(Mcp!Nothing).pc = "idle"
  BY DEF Mcp!Idle, Mcp!Nothing, McpCall
<1>2. mOp \in [Client -> McpCall] /\ \A c \in Client : mOp[c].pc = "idle"
  BY <1>1 DEF Mcp!Init
<1>3. stdout \in Seq(Mcp!Line) /\ Len(stdout) = 0
  BY DEF Mcp!Init
<1>4. McpData
  <2>1. /\ nextID \in 0..MaxId /\ unread \in 0..Capacity /\ Len(stdout) <= MaxLines
        /\ skipped \in 0..(MaxNoise + 1)
    BY <1>3 DEF Mcp!Init
  <2>2. channel \in [1..MaxId -> Mcp!Answer \cup {Mcp!Nothing}] /\ pending \subseteq 1..MaxId
    BY DEF Mcp!Init
  <2>3. /\ phase \in {"handshake", "ready", "failed"} /\ writer \in Client \cup {Mcp!Nobody}
        /\ readErr \in {"nil", "transport", "protocol", "closed"} /\ err \in {"nil", "transport", "closed"}
        /\ transport \in {"open", "closing", "closed"} /\ server \in {"running", "exited"}
        /\ reader \in BOOLEAN /\ closed \in BOOLEAN
    BY DEF Mcp!Init
  <2> QED BY <1>2, <1>3, <2>1, <2>2, <2>3 DEF McpData, Mcp!TypeOK
<1>5. IdsExact /\ ReaderExact
  BY <1>2 DEF Mcp!Init, IdsExact, ReaderExact
<1> QED BY <1>4, <1>5 DEF McpInv

LEMMA McpIdsExact == McpInv => Mcp!TypeOK /\ Mcp!AnswersExact
<1> SUFFICES ASSUME McpInv PROVE Mcp!TypeOK /\ Mcp!AnswersExact
  OBVIOUS
<1>1. Mcp!TypeOK
  BY DEF McpInv, McpData
<1>2. pending = {mOp[c].id : c \in Mcp!InFlight}
  BY DEF McpInv, IdsExact, Mcp!InFlight
<1>3. \A c, d \in Mcp!InFlight : mOp[c].id = mOp[d].id => c = d
  BY DEF McpInv, IdsExact, Mcp!InFlight
<1>4. \A i \in 1..MaxId : channel[i] # Mcp!Nothing => channel[i].id = i /\ i \in pending
  BY DEF McpInv, IdsExact
<1> QED BY <1>1, <1>2, <1>3, <1>4 DEF Mcp!AnswersExact

LEMMA McpFirstError ==
  ASSUME McpInv, Mcp!Next, readErr # "nil"
  PROVE  UNCHANGED <<readErr, closed, reader>>
<1> USE DEF Mcp!pipes, Mcp!conn, Mcp!calls
<1>1. ~reader /\ closed /\ reader \in BOOLEAN /\ closed \in BOOLEAN
  BY DEF McpInv, McpData, ReaderExact
<1>2. ASSUME NEW c \in Client,
             \/ Mcp!Refuse(c) \/ Mcp!Register(c) \/ Mcp!Send(c) \/ Mcp!Lock(c)
             \/ Mcp!Write(c) \/ Mcp!Receive(c) \/ Mcp!Timeout(c) \/ Mcp!WakeUp(c)
      PROVE  UNCHANGED <<readErr, closed, reader>>
  BY <1>2 DEF Mcp!Refuse, Mcp!Register, Mcp!Send, Mcp!Lock, Mcp!Write, Mcp!Receive, Mcp!Timeout, Mcp!WakeUp
<1>3. CASE \/ Mcp!Connected \/ Mcp!NotConnected \/ Mcp!ServerReads \/ Mcp!ServerWrites \/ Mcp!ServerExits
           \/ Mcp!StopServer
  BY <1>3 DEF Mcp!Connected, Mcp!NotConnected, Mcp!ServerReads, Mcp!ServerWrites, Mcp!ServerExits, Mcp!StopServer
<1>4. ~Mcp!ReadLine /\ ~Mcp!ReadFails
  BY <1>1 DEF Mcp!ReadLine, Mcp!ReadFails
<1>5. CASE Mcp!Close
  BY <1>1, <1>5 DEF Mcp!Close
<1> QED BY <1>2, <1>3, <1>4, <1>5 DEF Mcp!Next

-----------------------------------------------------------------------------
(* All of them.                                                            *)

Inv ==
  /\ TerminalInv /\ BrowserInv /\ McpInv
  /\ part = "run" => RunInv
  /\ part # "run" => SuperInv

\* Where the connection was never made there is nothing to be exact about.
LEMMA McpAsleep ==
  ASSUME Init, part # "mcp" PROVE McpInv
<1> USE RuntimeAssumption DEF BoundsAssumption
<1>0. /\ phase = "failed" /\ nextID = MaxId /\ pending = {} /\ channel = [i \in 1..MaxId |-> Mcp!Nothing]
      /\ mOp = [c \in Client |-> Mcp!Idle(Mcp!Nothing)] /\ writer = Mcp!Nobody
      /\ unread = 0 /\ stdout = <<>> /\ server = "exited" /\ skipped = 0 /\ reader = FALSE
      /\ closed = TRUE /\ transport = "closed" /\ readErr = "closed" /\ err = "closed"
  BY DEF Init
<1>1. Mcp!Idle(Mcp!Nothing) \in McpCall /\ Mcp!Idle(Mcp!Nothing).pc = "idle"
  BY DEF Mcp!Idle, Mcp!Nothing, McpCall
<1>2. mOp \in [Client -> McpCall] /\ \A c \in Client : mOp[c].pc = "idle"
  BY <1>0, <1>1
<1>3. stdout \in Seq(Mcp!Line) /\ Len(stdout) = 0
  BY <1>0
<1>4. McpData
  <2>1. /\ nextID \in 0..MaxId /\ unread \in 0..Capacity /\ Len(stdout) <= MaxLines
        /\ skipped \in 0..(MaxNoise + 1)
    BY <1>0, <1>3
  <2>2. channel \in [1..MaxId -> Mcp!Answer \cup {Mcp!Nothing}] /\ pending \subseteq 1..MaxId
    BY <1>0
  <2>3. /\ phase \in {"handshake", "ready", "failed"} /\ writer \in Client \cup {Mcp!Nobody}
        /\ readErr \in {"nil", "transport", "protocol", "closed"} /\ err \in {"nil", "transport", "closed"}
        /\ transport \in {"open", "closing", "closed"} /\ server \in {"running", "exited"}
        /\ reader \in BOOLEAN /\ closed \in BOOLEAN
    BY <1>0
  <2> QED BY <1>2, <1>3, <2>1, <2>2, <2>3 DEF McpData, Mcp!TypeOK
<1>5. IdsExact /\ ReaderExact
  BY <1>0, <1>2 DEF IdsExact, ReaderExact
<1> QED BY <1>4, <1>5 DEF McpInv

LEMMA InitInv == Init => Inv
<1> SUFFICES ASSUME Init PROVE Inv
  OBVIOUS
<1>1. TerminalInv /\ BrowserInv
  BY TerminalInit, BrowserInit DEF Init
<1>2. McpInv
  BY McpInit, McpAsleep DEF Init
<1>3. part = "run" => RunInv
  BY RunInit DEF Init
<1>4. part # "run" => SuperInv
  BY SuperInit DEF Init
<1> QED BY <1>1, <1>2, <1>3, <1>4 DEF Inv

\* Nothing of a component changes while its variables do not.
LEMMA TerminalSame == ASSUME TerminalInv, UNCHANGED terminalVars PROVE TerminalInv'
BY DEF terminalVars, TerminalInv, TerminalData, StreamsBounded, StreamCalls, SettledSessions, SettledSession,
       SettledCall, Terminal!Calls, Terminal!RunningHasCommand
LEMMA BrowserSame == ASSUME BrowserInv, UNCHANGED browserVars PROVE BrowserInv'
BY DEF browserVars, BrowserInv, BrowserData, SettledAlone, AtRest, SilentAlone, Browser!Calls
LEMMA RunSame == ASSUME RunInv, UNCHANGED <<processVars, runVars>> PROVE RunInv'
BY DEF processVars, runVars, RunInv, RunData, WaitTells, RunPhase, RunLeaves, Run!TypeOK
LEMMA SuperSame == ASSUME SuperInv, UNCHANGED <<processVars, superVars>> PROVE SuperInv'
BY DEF processVars, superVars, SuperInv, SuperData, SuperPhase, Killed, Reported, Excused, At, Active
LEMMA McpSame == ASSUME McpInv, UNCHANGED mcpVars PROVE McpInv'
BY DEF mcpVars, McpInv, McpData, IdsExact, ReaderExact, Mcp!TypeOK

LEMMA InvStep == ASSUME Inv, [Next]_vars PROVE Inv'
<1>0. TerminalInv /\ BrowserInv /\ McpInv /\ (part = "run" => RunInv) /\ (part # "run" => SuperInv)
  BY DEF Inv
<1>1. CASE TerminalNext
  BY <1>0, <1>1, TerminalStep, BrowserSame, RunSame, SuperSame, McpSame DEF TerminalNext, Inv
<1>2. CASE BrowserNext
  BY <1>0, <1>2, TerminalSame, BrowserStep, RunSame, SuperSame, McpSame DEF BrowserNext, Inv
<1>3. CASE RunNext
  BY <1>0, <1>3, TerminalSame, BrowserSame, RunStep, McpSame DEF RunNext, Inv
<1>4. CASE SuperNext
  BY <1>0, <1>4, TerminalSame, BrowserSame, SuperStep, McpSame DEF SuperNext, Inv
<1>5. CASE McpNext
  BY <1>0, <1>5, TerminalSame, BrowserSame, RunSame, SuperSame, McpStep DEF McpNext, Inv
<1>6. CASE UNCHANGED vars
  BY <1>0, <1>6, TerminalSame, BrowserSame, RunSame, SuperSame, McpSame DEF vars, Inv
<1> QED BY <1>1, <1>2, <1>3, <1>4, <1>5, <1>6 DEF Next

\* Whatever part a behaviour picks, every component keeps its inductive invariant.
THEOREM Invariance == Spec => []Inv
<1>1. Inv /\ [Next]_vars => Inv'
  BY InvStep
<1> QED BY <1>1, InitInv, PTL DEF Spec

\* Every component keeps its types, for any number of callers and sessions; no
\* more streamed commands run than the bound and the calls under way allow.
THEOREM TypeCorrect == Spec => []TypeOK
<1>1. Inv => TypeOK
  BY TerminalKept, BrowserKept, RunReclaimed, SuperReclaimed, McpIdsExact DEF Inv, TypeOK
<1> QED BY <1>1, Invariance, PTL

\* terminal.Service and browser.LocalService: what is closed while nobody works
\* with it stays closed, a session runs because a command runs in it, and a
\* recording that was stopped in peace stays empty.
THEOREM SessionsKeptHolds == Spec => []SessionsKept
<1>1. Inv => SessionsKept
  BY TerminalKept, BrowserKept DEF Inv, SessionsKept
<1> QED BY <1>1, Invariance, PTL

\* sandbox.Manager.Run and sandbox.Supervisor: 0 is success, a run or a Stop
\* ends what it found, and what it leaves behind is accounted for, however
\* processes fork and calls of Stop meet.
THEOREM ProcessesReclaimedHolds == Spec => []ProcessesReclaimed
<1>1. Inv => ProcessesReclaimed
  BY RunReclaimed, SuperReclaimed DEF Inv, ProcessesReclaimed
<1> QED BY <1>1, Invariance, PTL

\* mcp.Client: an answer reaches the call with its id or nobody, whatever the
\* server sends and whoever gives up; the first error is the one that counts.
THEOREM AnswersExactHolds == Spec => AnswersExact
<1>1. Inv => (part = "mcp" => Mcp!AnswersExact)
  BY McpIdsExact DEF Inv
<1>2. Inv /\ [Next]_vars => [readErr # "nil" => UNCHANGED <<readErr, closed, reader>>]_(Mcp!vars)
  <2> SUFFICES ASSUME Inv, Next, readErr # "nil", ~UNCHANGED Mcp!vars
               PROVE  UNCHANGED <<readErr, closed, reader>>
    BY DEF vars, mcpVars, Mcp!vars
  <2>1. CASE McpNext
    BY <2>1, McpFirstError DEF McpNext, Inv
  <2>2. CASE ~McpNext
    BY <2>2 DEF Next, TerminalNext, BrowserNext, RunNext, SuperNext, mcpVars, Mcp!vars
  <2> QED BY <2>1, <2>2
<1> QED BY <1>1, <1>2, Invariance, PTL DEF Spec, AnswersExact, Mcp!FirstErrorKept
=============================================================================
