----------------------------- MODULE MCRuntime -----------------------------
(* What an agent works with: terminals, browsers, commands in the sandbox,   *)
(* programs that the sandbox supervises and servers that speak MCP.  They    *)
(* share no state: each behaviour is one of `part`, while the variables of   *)
(* the others stay as they were, where nothing of them is enabled that       *)
(* fairness asks for.                                                        *)
EXTENDS Naturals, Sequences, FiniteSets

CONSTANTS
  Client,     \* concurrent calls, of whatever component
  Session, MaxStreams,                                 \* TerminalSessions
  Tab, MaxRecorded,                                    \* BrowserSessions
  Config,                                              \* SandboxRun, SandboxSupervisor
  First, Kind, MaxId, Capacity, MaxLines, MaxNoise     \* McpClient

VARIABLES part,
          live, record, streams, tOp, tSettled, stuck,
          state, page, recordings, bOp, bSettled, silent,
          limits, pc, cg, inside, applied, main, kids, spawned, ctxErr, overdue, waitErr, result,
          sPc, handle, exitCh, stopped, sOp, found, escaped, crossed,
          phase, nextID, pending, channel, mOp, writer, unread, stdout, server, skipped,
          reader, closed, transport, readErr, err

terminalVars == <<live, record, streams, tOp, tSettled, stuck>>
browserVars == <<state, page, recordings, bOp, bSettled, silent>>
processVars == <<limits, cg, inside, applied, main, kids>>
runVars == <<pc, spawned, ctxErr, overdue, waitErr, result>>
superVars == <<sPc, handle, exitCh, stopped, sOp, found, escaped, crossed>>
mcpVars == <<phase, nextID, pending, channel, mOp, writer, unread, stdout, server, skipped,
             reader, closed, transport, readErr, err>>
vars == <<part, terminalVars, browserVars, processVars, runVars, superVars, mcpVars>>

Terminal == INSTANCE TerminalSessions WITH op <- tOp, settled <- tSettled
Browser == INSTANCE BrowserSessions WITH op <- bOp, settled <- bSettled, Browser <- Tab
Run == INSTANCE SandboxRun
Super == INSTANCE SandboxSupervisor WITH pc <- sPc, op <- sOp, Stopper <- Client
Mcp == INSTANCE McpClient WITH op <- mOp, Caller <- Client

\* Calls are finitely many, bounds are numbers, and a setting is what Config
\* has of the limits.
ClientAssumption == IsFiniteSet(Client) /\ First \in Client
BoundsAssumption == {MaxStreams, MaxRecorded, MaxId, Capacity, MaxLines, MaxNoise} \subseteq Nat
ConfigAssumption == Config \subseteq [set : SUBSET Run!Limit, disabled : BOOLEAN]
ASSUME RuntimeAssumption == ClientAssumption /\ BoundsAssumption /\ ConfigAssumption

\* The cfg's Config, with and without a cgroup; all limits, one of each kind,
\* none a command can have.
Settings ==
  {[set |-> {"cpu", "memory", "pids", "nofile", "fsize"}, disabled |-> FALSE],
   [set |-> {"pids"}, disabled |-> FALSE],
   [set |-> {"cpu", "nofile"}, disabled |-> TRUE],
   [set |-> {"pids"}, disabled |-> TRUE]}

Init ==
  /\ part \in {"terminal", "browser", "run", "supervisor", "mcp"}
  /\ Terminal!Init /\ Browser!Init
  /\ IF part = "run" THEN Run!Init
     ELSE /\ pc = "done" /\ spawned = {} /\ ctxErr = "nil" /\ overdue = FALSE
          /\ waitErr = "nil" /\ result = Run!NoResult
  /\ part # "run" => Super!Init /\ (part # "supervisor" => limits = CHOOSE s \in Config : TRUE)
  /\ part = "run" =>
       /\ sPc = "failed" /\ handle = FALSE /\ exitCh = FALSE /\ stopped = FALSE
       /\ sOp = [c \in Client |-> [pc |-> "idle", errs |-> {}]]
       /\ found = FALSE /\ escaped = FALSE /\ crossed = FALSE
  /\ IF part = "mcp" THEN Mcp!Init
     ELSE /\ phase = "failed" /\ nextID = MaxId /\ pending = {} /\ channel = [i \in 1..MaxId |-> Mcp!Nothing]
          /\ mOp = [c \in Client |-> Mcp!Idle(Mcp!Nothing)] /\ writer = Mcp!Nobody
          /\ unread = 0 /\ stdout = <<>> /\ server = "exited" /\ skipped = 0 /\ reader = FALSE
          /\ closed = TRUE /\ transport = "closed" /\ readErr = "closed" /\ err = "closed"

TerminalNext ==
  /\ part = "terminal" /\ Terminal!Next
  /\ UNCHANGED <<part, browserVars, processVars, runVars, superVars, mcpVars>>
BrowserNext ==
  /\ part = "browser" /\ Browser!Next
  /\ UNCHANGED <<part, terminalVars, processVars, runVars, superVars, mcpVars>>
RunNext ==
  /\ part = "run" /\ Run!Next
  /\ UNCHANGED <<part, terminalVars, browserVars, superVars, mcpVars>>
SuperNext ==
  /\ part = "supervisor" /\ Super!Next
  /\ UNCHANGED <<part, terminalVars, browserVars, runVars, mcpVars>>
McpNext ==
  /\ part = "mcp" /\ Mcp!Next
  /\ UNCHANGED <<part, terminalVars, browserVars, processVars, runVars, superVars>>

Next == TerminalNext \/ BrowserNext \/ RunNext \/ SuperNext \/ McpNext

Fairness == Run!Fairness /\ Super!Fairness /\ Mcp!Fairness

Spec == Init /\ [][Next]_vars /\ Fairness

-----------------------------------------------------------------------------
\* The types of the components.
TypeOK ==
  /\ Terminal!TypeOK /\ Browser!TypeOK /\ Mcp!TypeOK
  /\ IF part = "run" THEN Run!TypeOK ELSE Super!TypeOK

\* TerminalSessions: a session that is closed stays closed, and one that is
\* running has a command; BrowserSessions: the same, and a recording that is
\* stopped is over.  Calls that were under way are the exceptions.
SessionsKept ==
  /\ Terminal!ClosedForGood /\ Terminal!RunningHasCommand
  /\ Browser!ClosedForGood /\ Browser!StoppedIsSilent

\* SandboxRun: exit code 0 is success, and what a run leaves behind is what
\* escaped it; SandboxSupervisor: a Stop ends what it found, and tells what it
\* could not remove.
ProcessesReclaimed ==
  /\ part = "run" => Run!ZeroIsSuccess /\ Run!GroupReclaimed /\ Run!CgroupReclaimed
  /\ part = "supervisor" => Super!FoundIsKilled /\ Super!LeftIsReported

\* McpClient: an answer reaches the call it was made for or nobody, and the
\* first error of a connection is the one that is told.
AnswersExact == [](part = "mcp" => Mcp!AnswersExact) /\ Mcp!FirstErrorKept

\* SandboxRun, SandboxSupervisor, McpClient: a run ends, a Stop returns, a call
\* that was sent is answered or given up, a failed connection has no server.
\* The two callers are alike, but for the handshake, which is the first one's.
CallsEnd == Run!RunEnds /\ Super!StopEnds(First) /\ Mcp!SentCallEnds(First) /\ Mcp!FailedIsStopped
=============================================================================
