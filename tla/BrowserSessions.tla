-------------------------- MODULE BrowserSessions --------------------------
(***************************************************************************)
(* browser.LocalService over MemoryRepository (internal/browser).  The     *)
(* repository hands out the browsers themselves, so every call works on    *)
(* the shared one; only the recordings have a lock, which ExecuteAction    *)
(* gives up between the look at a recording and the append to it.          *)
(***************************************************************************)
EXTENDS Naturals

CONSTANTS
  Browser,    \* ids; each is given once
  Client,     \* concurrent calls
  MaxRecorded \* bound: actions of a recording

VARIABLES
  state,      \* Browser.State
  page,       \* pagesByBrowser: who has navigated last
  recordings, \* the number of recorded actions, {n}; {} without an entry
  op,         \* the call each client is in
  settled,    \* history: browsers closed while no other call on them was under way
  silent      \* history: browsers whose recording was stopped while no action was being recorded

vars == <<state, page, recordings, op, settled, silent>>

NotRecording == {}
Nobody == "nobody"
Idle == [pc |-> "idle"]
Calls(b) == {c \in Client : op[c] # Idle /\ op[c].browser = b}
Begin(c, call) == op[c] = Idle /\ op' = [op EXCEPT ![c] = call]
Go(c, call) == op' = [op EXCEPT ![c] = call]
Exists(b) == state[b] # "none"

Init ==
  /\ state = [b \in Browser |-> "none"]
  /\ page = [b \in Browser |-> Nobody]
  /\ recordings = [b \in Browser |-> NotRecording]
  /\ op = [c \in Client |-> Idle]
  /\ settled = {}
  /\ silent = {}

CreateBrowser(b) ==
  /\ ~Exists(b)
  /\ state' = [state EXCEPT ![b] = "idle"]
  /\ UNCHANGED <<page, recordings, op, settled, silent>>

\* Closed whatever it was, and closed again.
CloseBrowser(b) ==
  /\ Exists(b)
  /\ state' = [state EXCEPT ![b] = "closed"]
  /\ settled' = IF Calls(b) = {} THEN settled \cup {b} ELSE settled
  /\ UNCHANGED <<page, recordings, op, silent>>

Open(b) == Exists(b) /\ state[b] # "closed"

\* Navigate: the browser is looked at ...
Navigate(c, b) ==
  /\ Open(b)
  /\ Begin(c, [pc |-> "navigate", browser |-> b])
  /\ UNCHANGED <<state, page, recordings, settled, silent>>

\* ... it navigates ...
Navigating(c) ==
  /\ op[c].pc = "navigate"
  /\ state' = [state EXCEPT ![op[c].browser] = "navigating"]
  /\ Go(c, [op[c] EXCEPT !.pc = "page"])
  /\ UNCHANGED <<page, recordings, settled, silent>>

\* ... to its page ...
SavePage(c) ==
  /\ op[c].pc = "page"
  /\ page' = [page EXCEPT ![op[c].browser] = c]
  /\ Go(c, [pc |-> "end", browser |-> op[c].browser, left |-> 0])
  /\ UNCHANGED <<state, recordings, settled, silent>>

\* Mutant of ExecuteAction: a closed browser is not noticed.
ExecuteAnyway(c, b, n) ==
  /\ Exists(b)
  /\ Begin(c, [pc |-> "record", browser |-> b, left |-> n - 1])
  /\ UNCHANGED <<state, page, recordings, settled, silent>>

\* ExecuteAction, and ReplayActions with more than one: the browser is open ...
ExecuteAction(c, b, n) ==
  /\ Open(b)
  /\ Begin(c, [pc |-> "record", browser |-> b, left |-> n - 1])
  /\ UNCHANGED <<state, page, recordings, settled, silent>>

\* ... the recording is looked for ...
LookForRecording(c) ==
  /\ op[c].pc = "record"
  /\ Go(c, [op[c] EXCEPT !.pc = IF recordings[op[c].browser] = NotRecording THEN "execute" ELSE "append"])
  /\ UNCHANGED <<state, page, recordings, settled, silent>>

\* ... and appended to, which makes one where it has been stopped meanwhile ...
AppendAction(c) ==
  /\ op[c].pc = "append"
  /\ LET b == op[c].browser
         n == IF recordings[b] = NotRecording THEN 0 ELSE CHOOSE k \in recordings[b] : TRUE IN
       /\ n < MaxRecorded
       /\ recordings' = [recordings EXCEPT ![b] = {n + 1}]
  /\ Go(c, [op[c] EXCEPT !.pc = "execute"])
  /\ UNCHANGED <<state, page, settled, silent>>

\* ... it executes ...
Executing(c) ==
  /\ op[c].pc = "execute"
  /\ state' = [state EXCEPT ![op[c].browser] = "executing"]
  /\ Go(c, [op[c] EXCEPT !.pc = "end"])
  /\ UNCHANGED <<page, recordings, settled, silent>>

\* ... and is idle again, whatever it has become meanwhile.
End(c) ==
  /\ op[c].pc = "end"
  /\ state' = [state EXCEPT ![op[c].browser] = "idle"]
  /\ Go(c, IF op[c].left = 0 THEN Idle ELSE [op[c] EXCEPT !.pc = "next"])
  /\ UNCHANGED <<page, recordings, settled, silent>>

\* ReplayActions goes on, unless the browser is closed.
NextAction(c) ==
  /\ op[c].pc = "next"
  /\ Go(c, IF Open(op[c].browser) THEN [op[c] EXCEPT !.pc = "record", !.left = @ - 1] ELSE Idle)
  /\ UNCHANGED <<state, page, recordings, settled, silent>>

StartRecording(b) ==
  /\ Exists(b)
  /\ recordings' = [recordings EXCEPT ![b] = {0}]
  /\ silent' = silent \ {b}
  /\ UNCHANGED <<state, page, op, settled>>

StopRecording(b) ==
  /\ recordings[b] # NotRecording
  /\ recordings' = [recordings EXCEPT ![b] = NotRecording]
  /\ silent' = IF \E c \in Calls(b) : op[c].pc = "append" THEN silent ELSE silent \cup {b}
  /\ UNCHANGED <<state, page, op, settled>>

Next ==
  \/ \E b \in Browser : CreateBrowser(b) \/ CloseBrowser(b) \/ StartRecording(b) \/ StopRecording(b)
  \/ \E c \in Client :
       \/ Navigating(c) \/ SavePage(c) \/ LookForRecording(c) \/ AppendAction(c)
       \/ Executing(c) \/ End(c) \/ NextAction(c)
       \/ \E b \in Browser : Navigate(c, b) \/ \E n \in 1..2 : ExecuteAction(c, b, n)

Spec == Init /\ [][Next]_vars

-----------------------------------------------------------------------------
TypeOK ==
  /\ \A b \in Browser : state[b] \in {"none", "idle", "navigating", "executing", "closed"}
  /\ page \in [Browser -> Client \cup {Nobody}]
  /\ recordings \in [Browser -> {{n} : n \in 0..MaxRecorded} \cup {NotRecording}]
  /\ settled \subseteq Browser /\ silent \subseteq Browser

\* The calls write the state back without a look at it, so one that is under
\* way reopens a browser that is closed.  One that is closed while no call is
\* under way stays closed, and a browser that no call is working on is at rest.
ClosedForGood ==
  /\ \A b \in settled : state[b] = "closed"
  /\ \A b \in Browser : Calls(b) = {} => state[b] \in {"none", "idle", "closed"}

\* A recording that is stopped is over, but for an action that was just being
\* recorded: it makes a recording that nobody has started.
StoppedIsSilent ==
  \A b \in silent : recordings[b] = NotRecording
=============================================================================
