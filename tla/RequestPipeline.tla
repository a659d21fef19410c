--------------------------- MODULE RequestPipeline ---------------------------
(***************************************************************************)
(* internal/app: what a request goes through before its handler.  The      *)
(* layers of NewRouter from the outside in: metrics, OptionalAuth,         *)
(* Authorize with the route table, the tenant scope, recovery, request id, *)
(* CORS, logging, the handler.  Tokens, permissions and tenants change     *)
(* while requests are on their way.                                        *)
(***************************************************************************)
EXTENDS Naturals, FiniteSetsExt

CONSTANTS
  Request,     \* [method, path, token, upgrade]; a token "" or "user" or "tenant"
  Action,      \* the permissions that routes ask for
  Client,      \* concurrent requests
  MaxRequests, \* bound of the requests
  MaxChanges   \* bound of the changes of the surroundings

VARIABLES
  env,       \* [valid, held, up, usable]: tokens accepted, permissions, store up, tenant usable
  op,        \* the request each client is at
  inFlight,  \* the gauge
  requests,  \* http_requests_total: by status
  durations, \* the count of the histogram
  classes,   \* by status class
  panics,    \* http_panics_total
  sent,      \* history: the answers on the wire
  changes    \* of the surroundings

vars == <<env, op, inFlight, requests, durations, classes, panics, sent, changes>>

\* The rules alone: nothing of what HttpRoutes does with them.
Table == INSTANCE HttpRoutes WITH Caller <- {}, exchange <- env

-----------------------------------------------------------------------------
Idle == [pc |-> "idle"]
Go(c, call) == op' = [op EXCEPT ![c] = call]
Measured == <<inFlight, requests, durations, classes, panics>>
Status == {101, 200, 204, 401, 403, 404, 500, 503}

\* An answer is written once; what is written after it does not change it.
\* The layers it passes on its way out come next, the metrics last.
WriteAnswer(c, status, traced, logged) ==
  /\ Go(c, [pc |-> "measure", request |-> op[c].request, status |-> status, traced |-> traced, logged |-> logged])
  /\ sent' = [sent EXCEPT ![status] = @ + 1]

Init ==
  /\ env \in [valid : BOOLEAN, held : SUBSET Action, up : BOOLEAN, usable : BOOLEAN]
  /\ op = [c \in Client |-> Idle]
  /\ inFlight = 0 /\ durations = 0 /\ panics = 0 /\ changes = 0
  /\ requests = [s \in Status |-> 0] /\ sent = [s \in Status |-> 0]
  /\ classes = [k \in 2 .. 5 |-> 0]

\* A token is revoked; permissions, the stores and tenants come and go.
Change ==
  /\ changes < MaxChanges /\ changes' = changes + 1
  /\ \E field \in {"valid", "held", "up", "usable"} :
       /\ field = "valid" => env.valid
       /\ env' = [env EXCEPT ![field] = IF field = "held" THEN Action \ @ ELSE ~@]
  /\ op' = [c \in Client |->
              IF "before" \in DOMAIN op[c] THEN [op[c] EXCEPT !.before = @ \cup {env'}] ELSE op[c]]
  /\ UNCHANGED <<Measured, sent>>

\* metricsMiddleware counts it in ...
Arrive(c, request) ==
  /\ op[c] = Idle /\ inFlight + durations < MaxRequests
  /\ inFlight' = inFlight + 1
  /\ Go(c, [pc |-> "auth", request |-> request, before |-> {env}])
  /\ UNCHANGED <<env, requests, durations, classes, panics, sent, changes>>

\* OptionalAuth: a token that is accepted becomes claims, any other is left aside.
OptionalAuth(c) ==
  /\ op[c].pc = "auth"
  /\ Go(c, [pc |-> "authorize", request |-> op[c].request, before |-> op[c].before,
            claims |-> IF env.valid THEN op[c].request.token ELSE ""])
  /\ UNCHANGED <<env, Measured, sent, changes>>

\* Mutant of Authorize: the first rule found for the path will do.
AuthorizeAny(c) ==
  /\ op[c].pc = "authorize"
  /\ \E rule \in {r \in Table!defaultRules : Table!Matches(r, op[c].request.method, op[c].request.path)} :
       /\ rule.public \/ (op[c].claims # "" /\ env.up /\ rule.action \in env.held)
       /\ Go(c, [op[c] EXCEPT !.pc = "tenant"])
  /\ UNCHANGED <<env, Measured, sent, changes>>

\* Authorize: no rule, no entry; a public one needs nothing; else somebody must
\* be known, and hold the permission as far as the store can tell.  The decision is
\* one step here: RoleChecks has its reads one by one.  That the object asked for
\* must be known to the decider is left out, it only refuses more.
Authorize(c) ==
  /\ op[c].pc = "authorize"
  /\ LET rules == Table!Lookup(op[c].request.method, op[c].request.path) IN
       \/ /\ rules = {} /\ WriteAnswer(c, 403, FALSE, FALSE)
       \/ \E rule \in rules :
            \/ /\ rule.public \/ (op[c].claims # "" /\ env.up /\ rule.action \in env.held)
               /\ Go(c, [op[c] EXCEPT !.pc = "tenant"]) /\ UNCHANGED sent
            \/ /\ ~rule.public
               /\ \/ op[c].claims = "" /\ WriteAnswer(c, 401, FALSE, FALSE)
                  \/ op[c].claims # "" /\ ~env.up /\ WriteAnswer(c, 503, FALSE, FALSE)
                  \/ op[c].claims # "" /\ env.up /\ rule.action \notin env.held /\ WriteAnswer(c, 403, FALSE, FALSE)
  /\ UNCHANGED <<env, Measured, changes>>

\* Mutant of ResolveScope: a tenant that is not usable is no scope.
ResolveScopeOptional(c) ==
  /\ op[c].pc = "tenant"
  /\ Go(c, [op[c] EXCEPT !.pc = "handle"])
  /\ UNCHANGED <<env, Measured, sent, changes>>

\* The tenant middleware: claims that name a tenant need it to be readable, usable
\* and theirs, or get what writeTenantError makes of the failure; without any
\* there is no scope.
ResolveScope(c) ==
  /\ op[c].pc = "tenant"
  /\ IF op[c].claims = "tenant" /\ ~env.usable THEN \E status \in {404, 500, 503} : WriteAnswer(c, status, FALSE, FALSE)
     ELSE Go(c, [op[c] EXCEPT !.pc = "handle"]) /\ UNCHANGED sent
  /\ UNCHANGED <<env, Measured, changes>>

\* CORS answers a preflight itself.
Preflight(c) ==
  /\ op[c].pc = "handle" /\ op[c].request.method = "OPTIONS"
  /\ WriteAnswer(c, 204, TRUE, FALSE)
  /\ UNCHANGED <<env, Measured, changes>>

\* A handler answers; the logging layer wraps the writer.
Handle(c) ==
  /\ op[c].pc = "handle" /\ op[c].request.method # "OPTIONS" /\ ~op[c].request.upgrade
  /\ \E status \in {200, 404} : WriteAnswer(c, status, TRUE, TRUE)
  /\ UNCHANGED <<env, Measured, changes>>

\* What a writer can do beside writing: a statusWriter passes on nothing of that.
StatusWriter(writer) == {}

\* HandleWS: an accepted token or none; Upgrade takes the connection over.
HandleWS(c) ==
  /\ op[c].pc = "handle" /\ op[c].request.method # "OPTIONS" /\ op[c].request.upgrade
  /\ IF op[c].request.token # "" /\ ~env.valid THEN WriteAnswer(c, 401, TRUE, TRUE)
     ELSE WriteAnswer(c, IF "Hijack" \in StatusWriter(StatusWriter({"Hijack"})) THEN 101 ELSE 500, TRUE, TRUE)
  /\ UNCHANGED <<env, Measured, changes>>

\* A handler panics, before or after its answer: recovery counts that and
\* answers 500 if nothing is on its way.  The logging layer is left unheard.
Panic(c) ==
  /\ op[c].pc = "handle" /\ op[c].request.method # "OPTIONS" /\ ~op[c].request.upgrade
  /\ panics' = panics + 1
  /\ \E status \in {200, 500} : WriteAnswer(c, status, TRUE, FALSE)
  /\ UNCHANGED <<env, inFlight, requests, durations, classes, changes>>

\* There is none below 200.
statusClass(status) == {status \div 100} \cap 2 .. 5

\* Mutant of Measure: what is not an answer of a handler is not counted.
MeasureHandled(c) ==
  /\ op[c].pc = "measure"
  /\ requests' = IF op[c].traced THEN [requests EXCEPT ![op[c].status] = @ + 1] ELSE requests
  /\ Go(c, [op[c] EXCEPT !.pc = "leave"])
  /\ UNCHANGED <<env, inFlight, durations, classes, panics, sent, changes>>

\* ... and, with its status, out: each metric under a lock of its own.
Measure(c) ==
  /\ op[c].pc = "measure"
  /\ requests' = [requests EXCEPT ![op[c].status] = @ + 1]
  /\ Go(c, [op[c] EXCEPT !.pc = "leave"])
  /\ UNCHANGED <<env, inFlight, durations, classes, panics, sent, changes>>

Leave(c) ==
  /\ op[c].pc = "leave"
  /\ durations' = durations + 1
  /\ classes' = [k \in 2 .. 5 |-> IF k \in statusClass(op[c].status) THEN classes[k] + 1 ELSE classes[k]]
  /\ inFlight' = inFlight - 1
  /\ Go(c, Idle)
  /\ UNCHANGED <<env, requests, panics, sent, changes>>

Next ==
  \/ Change
  \/ \E c \in Client :
       \/ \E request \in Request : Arrive(c, request)
       \/ OptionalAuth(c) \/ Authorize(c) \/ ResolveScope(c) \/ Preflight(c)
       \/ Handle(c) \/ HandleWS(c) \/ Panic(c) \/ Measure(c) \/ Leave(c)

Spec == Init /\ [][Next]_vars

-----------------------------------------------------------------------------
TypeOK ==
  /\ env.held \subseteq Action /\ changes \in 0 .. MaxChanges
  /\ inFlight \in 0 .. Cardinality(Client)
  /\ \A c \in Client : op[c].pc \in {"idle", "auth", "authorize", "tenant", "handle", "measure", "leave"}

\* A handler is reached only over the best rule for its path: a public one, or
\* with a token that was valid and a permission that was held and readable at
\* some time since the request came; and in a tenant that was usable then.
EntryAuthorized ==
  \A c \in Client : op[c].pc = "handle" =>
    /\ \E rule \in Table!Lookup(op[c].request.method, op[c].request.path) :
         \/ rule.public
         \/ /\ op[c].request.token # "" /\ \E e \in op[c].before : e.valid
            /\ \E e \in op[c].before : e.up /\ rule.action \in e.held
    /\ op[c].claims # "" => op[c].claims = op[c].request.token /\ \E e \in op[c].before : e.valid
    /\ op[c].claims = "tenant" => \E e \in op[c].before : e.usable

\* Every answer on the wire is counted once, with its status, however it came
\* about: refused before the handler, answered by CORS, or after a panic; a
\* histogram, a class and the gauge go with it.
At(pc) == {c \in Client : op[c].pc = pc}
CountedExact ==
  /\ \A s \in Status : sent[s] = requests[s] + Cardinality({c \in At("measure") : op[c].status = s})
  /\ MapThenSumSet(LAMBDA s : requests[s], Status) = durations + Cardinality(At("leave"))
  /\ \A k \in 2 .. 5 : MapThenSumSet(LAMBDA s : requests[s], {s \in Status : s \div 100 = k})
                         = classes[k] + Cardinality({c \in At("leave") : op[c].status \div 100 = k})
  /\ inFlight = Cardinality({c \in Client : op[c] # Idle})
  /\ panics <= sent[200] + sent[500]

\* What docs/observability.md shows of a request that was refused: its answer
\* names the request id, and a line of the log says 403 under that id.
DenialsTraced == \A c \in At("measure") : op[c].status \in {401, 403} => op[c].traced /\ op[c].logged

\* What docs/api.md says of GET /api/v1/ws: a connection is made.
UpgradeServed == \A c \in At("measure") : op[c].request.upgrade /\ op[c].traced => op[c].status \in {101, 401}

\* What the table says of a preflight: no middleware refuses it.
PreflightFree == \A c \in At("measure") : op[c].request.method = "OPTIONS" => op[c].status \notin {401, 403}
=============================================================================
