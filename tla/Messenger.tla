----------------------------- MODULE Messenger -----------------------------
(***************************************************************************)
(* The request-response protocol of communication.AgentMessengerImpl       *)
(* (internal/communication/messenger.go) over MemoryBus.  Publish calls the *)
(* subscribed handlers in the goroutine of the requester, so an answer may *)
(* come before the requester waits for it; anybody who knows the id of a   *)
(* request may answer it too.  Each completer below is one call of         *)
(* CompleteRequest: that of the bus handler, or one from outside.          *)
(***************************************************************************)
EXTENDS Naturals, FiniteSets

CONSTANTS
  Request,         \* the calls of RequestAction
  Answerer,        \* callers of CompleteRequest other than the bus handler
  MaxPendingReqs   \* MessengerConfig.MaxPendingReqs

Completer == Answerer \cup Request   \* a request stands for the handler its Publish calls

VARIABLES
  pendingReqs,  \* the keys of pendingReqs
  req,          \* where RequestAction is: its select has chosen when in "giveup"
  outcome,      \* what it returned
  replyCh,      \* the requests whose reply channel, of capacity one, is full
  answer        \* the CompleteRequest each completer is in

vars == <<pendingReqs, req, outcome, replyCh, answer>>

Free == [pc |-> "free"]

Init ==
  /\ pendingReqs = {} /\ replyCh = {}
  /\ req = [r \in Request |-> "none"]
  /\ outcome = [r \in Request |-> "none"]
  /\ answer = [c \in Completer |-> Free]

-----------------------------------------------------------------------------
Refuse(r) ==
  /\ req[r] = "none" /\ Cardinality(pendingReqs) >= MaxPendingReqs
  /\ req' = [req EXCEPT ![r] = "done"]
  /\ outcome' = [outcome EXCEPT ![r] = "refused"]
  /\ UNCHANGED <<pendingReqs, replyCh, answer>>

\* The request is entered before it is published: a handler finds it.
RequestAction(r) ==
  /\ req[r] = "none" /\ Cardinality(pendingReqs) < MaxPendingReqs
  /\ pendingReqs' = pendingReqs \cup {r}
  /\ req' = [req EXCEPT ![r] = "publish"]
  /\ UNCHANGED <<outcome, replyCh, answer>>

\* Publish returns once the handler, if one is subscribed, has.
Published(r) ==
  /\ req[r] = "publish" /\ answer[r].pc \in {"free", "over"}
  /\ req' = [req EXCEPT ![r] = "wait"]
  /\ UNCHANGED <<pendingReqs, outcome, replyCh, answer>>

Receive(r) ==
  /\ req[r] = "wait" /\ r \in replyCh
  /\ replyCh' = replyCh \ {r}
  /\ req' = [req EXCEPT ![r] = "done"]
  /\ outcome' = [outcome EXCEPT ![r] = "response"]
  /\ UNCHANGED <<pendingReqs, answer>>

\* Mutant of GiveUp: the timer is looked at only when a reply is there.
GiveUpOnReply(r) ==
  /\ req[r] = "wait" /\ r \in replyCh
  /\ req' = [req EXCEPT ![r] = "giveup"]
  /\ UNCHANGED <<pendingReqs, outcome, replyCh, answer>>

\* The timeout or the context: select may prefer it to a reply that is there.
GiveUp(r) ==
  /\ req[r] = "wait"
  /\ req' = [req EXCEPT ![r] = "giveup"]
  /\ UNCHANGED <<pendingReqs, outcome, replyCh, answer>>

Forget(r) ==
  /\ req[r] = "giveup"
  /\ pendingReqs' = pendingReqs \ {r}
  /\ req' = [req EXCEPT ![r] = "done"]
  /\ outcome' = [outcome EXCEPT ![r] = "timeout"]
  /\ UNCHANGED <<replyCh, answer>>

-----------------------------------------------------------------------------
\* Who may call CompleteRequest when: the handler of a request during its
\* publication, anybody else at any time.
MayAnswer(c, r) ==
  /\ answer[c].pc = "free"
  /\ c \in Request => c = r /\ req[r] = "publish"

\* Mutant of Take: the entry is left for the requester to delete.
TakeAndLeave(c, r) ==
  /\ MayAnswer(c, r) /\ r \in pendingReqs
  /\ answer' = [answer EXCEPT ![c] = [pc |-> "deliver", req |-> r]]
  /\ UNCHANGED <<pendingReqs, req, outcome, replyCh>>

\* Whoever deletes the entry is the one that answers ...
Take(c, r) ==
  /\ MayAnswer(c, r) /\ r \in pendingReqs
  /\ pendingReqs' = pendingReqs \ {r}
  /\ answer' = [answer EXCEPT ![c] = [pc |-> "deliver", req |-> r]]
  /\ UNCHANGED <<req, outcome, replyCh>>

\* ... and a request that is not pending any more is unknown.
Unknown(c, r) ==
  /\ MayAnswer(c, r) /\ r \notin pendingReqs /\ req[r] # "none"
  /\ answer' = [answer EXCEPT ![c] = [pc |-> "over", req |-> r, result |-> "unknown"]]
  /\ UNCHANGED <<pendingReqs, req, outcome, replyCh>>

\* The response is stored as a message and put on the channel; nobody notices
\* if the channel is full or the requester is gone.
Deliver(c) ==
  /\ answer[c].pc = "deliver"
  /\ replyCh' = replyCh \cup {answer[c].req}
  /\ answer' = [answer EXCEPT ![c] = [pc |-> "over", req |-> @.req, result |-> "ok"]]
  /\ UNCHANGED <<pendingReqs, req, outcome>>

Step(r) == Published(r) \/ Receive(r) \/ GiveUp(r) \/ Forget(r)

Next ==
  \/ \E r \in Request : Refuse(r) \/ RequestAction(r) \/ Step(r)
  \/ \E c \in Completer : Deliver(c) \/ \E r \in Request : Take(c, r) \/ Unknown(c, r)

\* The timer of a request goes off, and calls that have begun go on.
Fairness ==
  /\ \A r \in Request : WF_vars(Step(r))
  /\ \A c \in Completer : WF_vars(Deliver(c))

Spec == Init /\ [][Next]_vars /\ Fairness

-----------------------------------------------------------------------------
TypeOK ==
  /\ pendingReqs \subseteq Request /\ replyCh \subseteq Request
  /\ req \in [Request -> {"none", "publish", "wait", "giveup", "done"}]
  /\ outcome \in [Request -> {"none", "refused", "response", "timeout"}]
  /\ \A c \in Completer : answer[c].pc \in {"free", "deliver", "over"}

Taken(r) == {c \in Completer :
  \/ answer[c].pc = "deliver" /\ answer[c].req = r
  \/ answer[c].pc = "over" /\ answer[c].req = r /\ answer[c].result = "ok"}

\* However answers, timeouts and refusals meet: a request is answered at most
\* once, its entry is there exactly until it is answered or given up, so that
\* none is left behind to use up the limit, and no requester returns a response
\* that nobody gave.
RequestsExact ==
  /\ Cardinality(pendingReqs) <= MaxPendingReqs
  /\ \A r \in Request :
       /\ Cardinality(Taken(r)) <= 1
       /\ r \in pendingReqs <=> req[r] \in {"publish", "wait", "giveup"} /\ Taken(r) = {}
       /\ outcome[r] = "response" => Taken(r) # {}

\* Every call of RequestAction returns.
RequestsEnd == \A r \in Request : req[r] # "none" ~> req[r] = "done"
=============================================================================
