# agentbot: a TLA+ verification project

agentbot is a Go service that creates agents, gives them tasks, decomposes the
tasks into subtasks and executes them, with messaging, presence, terminals,
sandboxes, audit, monitoring and access control around them. This directory
holds TLA+ modules translated from its source, TLC configurations that check
them on small instances, and TLAPS proofs that hold for every value of the
constants. Paths below are relative to `src/internal/`.

Tools: `tlc -config X.cfg M` checks a run of `PROJECT.json`; `tlapm` on
`TaskRunner.tla`, `TaskServiceProofs.tla`, `ExecutionEngineProofs.tla`,
`RuntimeProofs.tla`, `AgentsProofs.tla`, `AccessProofs.tla`, `KeptParts.tla` and
`MCPlatform.tla` checks the proofs.

## 1. The system

| Part | State | Operations | Talks to | What is hard | What makes it correct |
|---|---|---|---|---|---|
| Task runner (`task/executor.go`) | subtask and action states of one copy of a task, the local map `completed` | `RunTask`, `RunSubtask` | `ActionExecutor`; called by the service | failures and cancellation in the middle, plans that are not topological, cyclic or dangling | dependencies first, exact outcome, termination |
| Task service (`executor/service.go`, `repository.go`) | map of tasks under a lock, copied in and out | `Create`, `Start`, `Cancel`, `Complete`, `Fail`, `Retry`, progress, list | handlers, the runner in a goroutine per `Start` | read, decide, write without a lock over the three; a run that outlives its task's state | life cycle, consistent records, runs end |
| Execution engine (`executor/engine.go`) | heap, agent slots, map of cancel functions, `stopped` | `Submit`, `RegisterAgent`, `UnregisterAgent`, `Start`, `Stop`, `dispatch`, `executeTask` | the same repository | select races, map keyed by task id, shared objects | slots exclusive, queue drains, executions end |
| Parallel scheduler (`task/scheduler.go`) | graph, levels, result maps | `TopologicalSort`, `DetectCycles`, `Schedule` | runner | goroutines of one level, semaphore, unlocked map read | level order, exact result, ends |
| Agents (`agent/`) | repository of agents | create, start, stop, pause, resume, update, delete | handlers | stale copies written back | `stateTransitions`, configurations not lost |
| Presence (`communication/presence.go`) | last heartbeat and status | `Heartbeat`, `SetStatus`, `GetStatus`, `ListOnline`, reaper, `Stop` | messenger, handlers | reaper and timeout | only the living are listed |
| Messenger (`communication/messenger.go`, `bus.go`) | pending requests, reply channels | `RequestAction`, `CompleteRequest`, publish | bus handlers run synchronously | timeout against answer | answered at most once, none left behind |
| Communication service (`communication/service.go`) | messages, groups | send, history, groups | messenger | groups are shared pointers | no lost member |
| WebSocket hub (`websocket/`) | client set and indexes, three channels, two goroutines per client | `Register`, `Unregister`, `Send`, `Stop`, pumps | presence, handlers | two channels served in any order, closed channels, full buffers | order, no panic, pumps end together |
| Authentication (`auth/`) | sessions, revocations, failure counters | login, refresh, logout, middleware | users, redis, audit | check then count, revocation stores | rotation, revocation is final |
| Authorization, roles (`authz/`, `role/`) | grants, roles, bindings | grant, revoke, check, middleware | users, tenants | system roles, stale decisions | decision equals the definition |
| SSO (`sso/`) | one-time states, key cache | begin, callback, key refresh | provider over HTTP | state used once, key rotation | one login per state |
| Tenants (`tenant/`) | tenants, members, resources | create, members, attach, check, quota | all resource services | count then add | quotas, isolation |
| Users (`user/`) | users by id, email, name | register, update, password, status | auth | uniqueness over two calls, lost updates | unique email and name |
| Redis (`redis/`) | counters and revocations with expiry | `Allow`, `Increment`, `Exceeded`, `Revoke` | server | two commands, window edges | limit per window |
| Terminal (`terminal/`) | live sessions, records of them, streams | create, execute, stream, resize, close, get | OS processes | state written back after a command, record stored after that | closed stays closed, running has a command |
| Cloud (`cloud/`) | environments, records, directories | create, start, stop, pause, resume, destroy, upload, execute | sandbox | destroy in four calls, each may fail | record, environment and directory go together |
| Sandbox (`sandbox/`) | process tree, cgroup, workspace | prepare, run, start, stop | kernel | exit, kill and clean-up race; who holds the pipe | group and cgroup reclaimed or reported, run ends |
| MCP client (`mcp/`) | pending ids, write lock, pipes, errors | connect, call, reader, close | child process | answer, timeout and close race | each answer to its call, no call left |
| Browser (`browser/`) | shared browsers, recordings | create, navigate, execute, record, replay, close | handlers | shared objects, lock given up between look and append | closed stays closed, stopped is silent |
| Filesystem (`filesystem/`) | tree below a base directory, metadata cache | read, write, mkdir, remove, move, copy, search | OS | paths that climb, a tree that changes under a copy | confined, copies exact |
| Network policy (`network/`) | rules, ring of traffic records | add, delete, evaluate, proxy, purge | audit, admin | decision on a snapshot, ring that drops | decision exact, records accounted for |
| Audit (`audit/`) | event list, index by id, policy | append, export, plan, purge | everyone | policy re-read, count then list, index after a purge | secrets redacted, retention and export exact |
| Monitoring (`monitor/`) | statuses, rules, alerts, dispositions, samples | report, evaluate, acknowledge, resolve, reopen, series | admin | status stored before the lock, bucket edges | a breach has one alert, trail exact, series exact |
| Metrics (`metrics/`) | families of counters, histograms | register, add, observe, expose | router | one lock per metric, labels registered again | nothing lost, cumulative buckets |
| Memory (`memory/`) | entries with expiry | create, get, search, update, delete, cleanup | agents | entries handed out by pointer | gone is gone, counts exact, fields the ones given last |
| Templates (`template/`) | templates, listings, reviews, recorder | create, record, publish, install, fork, review | users | listing read, changed and stored whole | counts and ratings match, no mixtures |
| Task decomposer (`task/decomposer.go`) | none | rules, templates | task service | actions no executor knows | plans that can be run |
| Requests (`app/router.go`, `app/middleware.go`, `authz/middleware.go`) | gauge, counters, route table | nine layers around each handler | all handlers | state changing between layers, panics, writer wrapped | counted once, entered only with a rule, token, permission |
| Start (`cmd/agentbot`, `config/`, `storage/`, `app/options.go`) | configuration, connections, migrations | load, connect, migrate, build, serve, shut down | PostgreSQL, redis | two instances, crash at any step, wrong values | configured is what runs, each migration once |
| Admin console (`admin/`) | its configuration | snapshot, update | all modules | nine reads of what changes | figures that were, errors told |

What the wiring in `app/app.go` and `cmd/agentbot/main.go` decides: the
application constructs `executor.NewService` and its handler, the messenger,
presence, the hub, and the services around them. It does **not** construct
`ExecutionEngine` nor `ParallelScheduler` (only tests do), registers no task
observer, never calls `PresenceManager.Stop`, and stops the hub after the HTTP
server has shut down. HTTP reaches create, start, cancel, retry and decompose;
`Complete` and `Fail` are reachable through the `Manager` interface only. They
are modelled all the same, as they are the code's contract.

`Hub.Run` is started by nobody either, so that in the deployed program a client
that registers waits once the channel is full; `App` has no `Close`.

The hazards, at the lines where they bite, are in `PROJECT.json` with the
properties that would catch them. A smaller one without a property: observers are
told outside the lock, so that two transitions may be reported in the opposite
order (`executor/service.go:145`).

## 2. The modules

```
TaskGraph ----- TaskRunner (with its proofs)
    |  \------- TaskService -------- TaskServiceProofs
    |               \-- refines TaskLifecycle
    |---------- ExecutionEngine ---- ExecutionEngineProofs
    \---------- ParallelScheduler \
       AgentLifecycle, Presence,   } MCAgents ---- AgentsProofs
       WsHub, Messenger           /
LoginGuard, TokenSessions, UserDirectory,
TenantScopes, RoleChecks, SsoLogin -------- MCAccess ---- AccessProofs
SandboxLimits -- SandboxRun, SandboxSupervisor \
TerminalSessions, BrowserSessions, McpClient --- MCRuntime ---- RuntimeProofs
CloudEnvironments, MemoryStore,            \
TemplateMarket, TaskDecomposer,            |
RequestPipeline, Startup, FileStore,        } KeptParts (with its proofs) \
EgressGateway, AlertMonitor                /                              } MCPlatform (with its proofs)
AuditLog, MetricSeries, MetricsRegistry,   \                              |
HttpRoutes, AdminConsole                    }-----------------------------/
```

**TaskGraph**: subtask states and what one `RunTask` may leave of a plan.
`Reachable` is a least closed set, not a recursion, so it can be proved about.
`IsRunOutcome` is the contract between `TaskRunner`, which is shown to meet it,
and `TaskService`, which uses it in place of a run.

**TaskRunner** (`task/executor.go`): `i` and `j` are the loop indices of
`RunTask` and `RunSubtask`, `completed` the local map, one action per branch of
the loops. The context may be cancelled at any step. `StartAgain` and
`RetryAndStart` are the ways in which the service calls it again for the same
task: as it is, or with its subtasks reset.

**TaskService** (`executor/service.go`): each operation is a read of a deep copy
(`op[c].read`), a decision, and a store of a whole record (`op[c].new`); `Create`
is one step; `finalizeAs` reads twice. A `Start` spawns `run[n]`, which loads,
runs, re-reads and stores. `lost` is a history variable: the tasks that were
overwritten by a writer that had not read the record it replaced.

**TaskLifecycle**: the abstract specification of the service, the guards of its
operations as indivisible steps and the transitions they allow. `TaskService`
implements it under the mapping that reads state and retry count out of the
repository; after its first lost update nothing is promised of a task.

**ExecutionEngine** (`executor/engine.go`): `mu` makes an engine operation one
step; `executeTask` goes by subtask. The repository hands out copies but keeps
the pointer it is given, so an execution's object *is* the stored record until
another is stored: `stored` and `Stored` say who sees what. `Less`, the order of
the heap, ranks by priority, then by time.

**ParallelScheduler** (`task/scheduler.go`): `phase` says which of its three
loops `Schedule` is in. `DetectCycles` takes one node off its queue at a time
(`Visit`), and ends in `Detected`; `TopologicalSort` takes off a level at a time
(`NextLevel`), each with its copy of the degrees; then the nodes of a level are
launched and waited for, level after level. `RaceOnErrors` is the outcome the Go runtime may produce when the
unlocked read of `result.Errors` meets a worker's write: the process ends.

**AgentLifecycle** (`agent/service.go`): as in the task service, read and store
are two steps; a configuration is a number. **Presence**: the age of each
heartbeat in ticks, the timeout being a number of them.

**WsHub** (`websocket/`): the channels are sequences with capacities; each
client has a `reader` (ReadPump, its deferred `Unregister` included) and a
`writer` (WritePump). `Stop` closes `stopCh` and, as a second step, the clients,
because the loop may serve a broadcast in between or after: a send on a closed
channel is `panicked`. Pings and deadlines appear as failing reads and writes.

**Messenger** (`communication/messenger.go`): `RequestAction` enters itself in
`pendingReqs`, publishes, which calls the handlers synchronously, and selects on
the reply channel, the timer and the context; `CompleteRequest` deletes the entry
and then sends without blocking.

**LoginGuard** (`auth/loginguard.go`, `auth/handler.go`, `redis/ratelimit.go`): a
login is `Check` of two counters, the login proper, and a record or a clearing.
`count` and `dies` are the counters and expiries in the redis server, by database, key
and number of the window; `INCR`, `EXPIRE`, `DEL` are steps of their own, any of which
may be lost before or after it is executed, or find a counter that is gone. Each goes
over a connection of the pool: `redis.New` sends AUTH and SELECT over its first one, the
ones that `pool.get` dials later stay in database 0 (`redis/client.go:212`), so that with
another `redis.db` a command may reach either (`Database`, `Selected`). `skipped` is the
history of checks without an answer and of commands that went elsewhere; from then on
nothing is promised of the number of failures.

**TokenSessions** (`auth/service.go`, `auth/jwt.go`, both revocation stores): a
token is the record of its user and the second of its issue, because that is all
it holds; `issued` tells whether more than one login was given it. A request is
`Verify`, the lookup (`Reject`, `Accept`), and its effect; `Revoke` of the shared
store may fail either way. `Restart` empties a store in memory. The shared store is two
databases for the same reason as in `LoginGuard`: `Reached` are those a command may go
to, `loggedOut` says in which of them a logout was confirmed, and `asked` in which of
them a request was looked up.

**UserDirectory** (`user/`): a call reads, checks and stores a whole record;
`Backend` selects what the repository checks (`Refused`) and writes (`Written`).

**TenantScopes** (`tenant/`, the hook in `app/app.go`): the service's calls as their
two accesses to the store: slug and insert, count and add, tenant and membership,
owner and removal. A request in a scope creates an agent or removes one.

**RoleChecks** (`role/`, `authz/`): one subject and one permission. `slice` is Go's
slice with its array, so that what `append` does in place, and what a reader of
the old array sees, is in the model; `roles[r].writers` are the calls of
`UpdateRole` that are writing to the shared role, during which a reader may get
any answer a half written slice can give. With `Copies` it is the grants of
`authz`, whose store copies.

**SsoLogin** (`sso/`, `app/user_directory.go`): callbacks as the steps between
their requests to the provider, which rotates and withdraws keys (`retired`). A
fetch has an `Answer` (what the provider publishes then) and a `StoreKeys` (when
it arrives); `Tick` lets no request outlast its timeout. `Create` hashes a password
of 76 bytes.

**TerminalSessions** (`terminal/`): `live` is the manager's map, `record` the
repository's. `Enter` and `Leave` are the two short critical sections around a
command; `Update` copies the session, and stores the copy a step later.
`settled` remembers the sessions closed while nobody else worked on them, which
is what `ClosedForGood` can promise.

**CloudEnvironments** (`cloud/`): the manager acts, its environment is copied, the
copy is stored; `Destroy` is a lookup in the repository, a stop that may be
refused, the removal of environment and directory, which may leave the directory
behind without a word (`cloud/local.go:152`), and the deletion. `Write` is an upload
that re-creates a directory removed under it; `outlived` are the environments whose
directory may be there for one of these two reasons.

**SandboxLimits**, **SandboxRun**, **SandboxSupervisor** (`sandbox/`): `Prepare`
gives the limits that a cgroup or `ulimit` takes, or refuses. A process forks
kinds of children: in the group or not, holding the pipe or not. `cmd.Wait`
returns when the main process is gone and the pipe is free, or the timer of
`waitWithDeadline` cuts it short (`Drain`); the cgroup can be removed when it is
empty. `Stop` is the swap of `stopped`, the kill, the wait of three seconds and
the removal, by two callers at once; `panic` is the nil dereference they can meet.

**McpClient** (`mcp/`): a call registers an id, takes `writeMu`, writes to a pipe of
finite capacity (and so may block while it holds the lock), and selects. The
reader hands an answer to the channel of its id if there is one. The server reads,
answers any id, repeats itself, prints noise, or exits; `Close` and the transport
end separately.

**BrowserSessions** (`browser/`): the browsers are shared objects. `LookForRecording`
and `AppendAction` are the two critical sections of one recorded action.

**FileStore** (`filesystem/`, `sandbox/workspace.go`, `cloud/local.go`): a path is a
sequence of names with `.` and `..`; `Clean`, `safePath`, `withinBase` and `Resolve`
are the functions of the code. A write is the check and the write, a copy visits
one entry at a time, whose names `filepath.Walk` has read before it is copied. `Place`
are the places in play, some outside of the base. None is a symbolic link: the checks
are about names, and a link is followed wherever it leads (`filesystem/local.go:71`).

**EgressGateway** (`network/`): `Evaluate` follows the code's loop over the rules as
a choice of the best. It is asked about the method as the request has it; what is sent
is `normalizeMethod` of it, trimmed and in upper case, so that a method is a name with
or without spaces around it. `Redirected` is the HTTP client following a redirect, which
neither the rules nor the records see. The record of a request is stored after the answer.

**AuditLog** (`audit/`): one model for both repositories, which differ in what they
do with an id that is given twice, and in the ids they make: a time in nanoseconds,
which may be another event's too, or a random one (`EventID`). Details are sets of
paths; a key is sensitive as a whole, by one of its segments, or by one of the
suffixes, and `depth` says how far the code looks into it (maps and lists of the plain
types). `Plan`, `Candidates`, `Reread`, `PurgeOld` are the accesses of
`RetentionService.Purge`.

**AlertMonitor**, **MetricSeries** (`monitor/`): one agent. A report stores the status
and then evaluates the rules under the lock; dispositions are the transitions of
`disposition_service.go`. A rule is about load (`cpu_high`, which stands for the other
thresholds), about failed tasks, or about silence (`inactive`, and `unresponsive` alike),
for which a status keeps when the agent was last active. Rules are only evaluated where a
status is reported or a rule made: `asof` says when each was due. A series reads samples, then outcomes, and fills buckets
aligned to the interval, newest kept.

**RequestPipeline**, **HttpRoutes** (`authz/middleware.go`,
`app/router.go`, `app/middleware.go`, the `RegisterRoutes` and handlers of the
packages): the layers as the steps between which tokens, permissions and tenants
change; the table, in `HttpRoutes`, as rules over segments with the code's order of
preference; the handlers as which operation each method and path reaches. `HttpRoutes`
also says which operations change something, to compare the roles with what they can do.

**MetricsRegistry** (`metrics/`): counters registered by label lists, a histogram, and
a scrape that takes one metric's lock after the other. `Add` takes any number of values,
`labelsFor` shows as many as there are labels.

**MemoryStore** (`memory/`): entries are pointers, so `Update` writes the fields that the
request gives one by one into a live entry and then calls the store, while a search
counts accesses under the read lock: of every entry it matches, before the page is cut.

**TemplateMarket** (`template/`): templates are shared, listings are copied; each
service call is its reads and stores. `name` and `steps` stand for a template's
content and carry the mark of their writer; an update writes those it is given.

**TaskDecomposer** (`task/decomposer.go`): a goal is the set of the keywords in it;
the first rule that matches makes the subtasks, an action the executor does not
know fails.

**Startup** (`cmd/agentbot/main.go`, `config/`, `storage/`, `app/options.go`): instances
with one configuration and one database. `Load` merges defaults, file and
environment, `Validate` follows it; each backend is chosen, connected and
migrated in steps, any instance may be killed (`Quit`) at any of them, and the
world (database, redis, disk, port) may break. A redis that takes connections and does
not answer fails the handshake of `New`, and so admits the fallback, if there is
something to ask (a password or a database); otherwise `Ping` fails, which is refused.

**AdminConsole** (`admin/`): a snapshot is one read per module; contents change,
sources begin to fail and the configuration is replaced in between.

**TaskRunner**, **TaskService** and **ExecutionEngine** are checked as they stand, with a
cfg of their own. **MCAgents**, **MCAccess**, **MCRuntime** and **MCPlatform** put components that share no
state into one run each: the initial state picks `part`, and only that component moves. A
behaviour of the run is a behaviour of one component, so the run asks of each
exactly what a run of its own would. The constants of a part that comes twice are a
record each (`MarketOfTwo`, `StartupOfOne`, ...), to which its instance is applied. A component that shares state with another is
modelled with it in one module: manager and repository, rules and gateway,
layers and table, database and instances. Some parts come twice, with two callers
over little data and with one over more. The properties of a run are
conjunctions of the components' properties; each component's module states
and comments them.

Definitions named `...Always...`, `...AtOnce` and the like, marked "Mutant of",
are wrong variants of the definition that follows them. They are not used by any
specification; putting one in place of the right one makes the run named in
`PROJECT.json` fail, which shows that its property can fail.

## 3. The runs

| Run | Shows | Bounds, and why they are enough |
|---|---|---|
| `runner` | order of dependencies, exact outcome, order of actions, futility of a restart without Retry, termination | 3 subtasks, every plan with at most two ids each out of the three and one that dangles: self-loops, 2- and 3-cycles, forward chains, joins and forks occur; 2, 1 and 0 actions |
| `service` | consistent records whatever is lost; no run from a half done task; refinement of TaskLifecycle; started tasks do not stay in progress | one task (tasks share nothing but the map), two callers and two runs: a lost update and an ABA need no more; one Retry |
| `engine` | slots neither shared nor leaked; what a completed task has executed | 2 tasks, 2 agents, 2 slots, 2 executions; plans with backward, forward and dangling dependencies; Cancel interferes |
| `engine_live` | what the running map misses; every item leaves the queue; every execution ends | one task failed, retried and submitted again while it is executed, two priorities |
| `agents` | agents: life cycle but for lost updates; presence: who is seen online; schedule: level order, exact result, end; hub: order of messages, no panic before Stop, pumps end together; messenger: requests exact, every call returns | one agent, two callers, two configurations; timeout of 2 ticks, 2 agents; all plans over three subtasks as in `runner`, one worker at a time; 2 clients and 1 envelope, and 1 client and 3 envelopes, channels of capacity 1 and buffers of 2, so that full channels, drops and batches occur; 3 requests with a limit of 2 and two outside answerers |
| `access` | failed logins and members within their limits but for the calls under way; counters, e-mails, slugs, owners, fields kept; a logout final in the store it was confirmed in, used states final; keys follow rotation; decisions exact | 2 concurrent callers throughout (symmetric), since each hazard is one call between the two halves of another; limit 1 and a window of 2 ticks, so that a window ends and its counter expires; 2 databases for redis; no new login once the limiter was passed over (`MaxSkipped`); 2 replicas and 1 token, of which the two replicas and the two databases are what matters; 2 users and 2 e-mails; 2 tenants, one slug, quota 1; 3 roles, the fewest for which a revocation makes a reader skip one; 2 states, 2 keys, lives of 1 and 2 ticks, requests of 1 |
| `runtime` | terminals, browsers: closed stays closed, running has a command, stopped is silent; sandbox: 0 is success, group and cgroup reclaimed or reported, runs and Stops end; MCP: answers exact, first error kept, sent calls end | one session or browser and two callers; every kind of child, one of each, over four settings of limits and cgroup; 3 calls, a pipe of 1 line each way, so that writes block and answers come late |
| `platform` | see the table below | two callers over one or two things, or one over more; every hazard is one call between two steps of another |

| Part of `platform` | Shows | Bounds |
|---|---|---|
| cloud | record, environment and directory go together, but for overlapping calls | 2 environments |
| files | nothing outside the base directory is read or changed; a workspace's paths stay in it; an undisturbed copy is one | base of 2 names with a sibling whose name begins alike, absolute, climbing and dotted requests; 2 callers over 2 places, 1 over 4 |
| network | the decision is the definition's; every record is stored, dropped or purged | 6 rules of every kind, up to 2 at a time, 3 domains, a ring of 2 |
| audit | secrets redacted at any depth of plain maps and lists, ids found, retention and export exact in calm | 3 events at 3 times, limits of 2, both repositories |
| alerts | a breach that is looked at has an alert, one, with its trail | 2 thresholds of a type under 2 callers; failure and silence under 1, with a clock of 1 tick |
| series, metrics | what is measured is counted, in its own bucket | times at, beside and far from the edges; buckets in the wrong order and twice; labels in two orders |
| pipeline | every answer counted once; a handler only over rule, token, permission, tenant | 5 requests of each kind, two at a time, one change of the surroundings |
| routes | one rule decides; roles change only what they are said to | every method and registered path, 4 system roles and nobody |
| memories | what is gone stays gone; counts and updates whole | 1 entry (what befalls it is between its callers), touched 3 times, lifetimes of 0 and 1 |
| market | installs, ratings and templates whole unless two writers met | 1 template and 2 callers, 2 templates and 1 |
| goals | every goal's plan runs, but for goals about files | all 64 sets of one keyword of each rule |
| startup | what is configured is what runs; each migration once; the exit code says how it ended | 2 instances and 3 starts, 2 migrations; 1 instance with 4 files, 7 environments and every world |
| console | a snapshot shows figures that were, and its errors | 2 classes, 8 sources, pages of 3, 2 changes |

Four further runs each confirm a disagreement between the code and what its
comments or documents say (`findings` in `PROJECT.json`):

* `agents_zombie`: unregister is served before register: the client that
  has left stays in the hub's set.
* `access_password`: `Update` of the PostgreSQL repository leaves out the columns
  that `UpdatePassword` and `LinkOAuth` change: a changed password is the old one.
* `platform_upgrade`: `statusWriter` has no `Hijack`, so that no WebSocket can be made
  through the router.
* `platform_routes`: the route table has no rule for `/channels` nor for
  `POST /tasks/{id}/start` and its siblings, which are refused to every role.

The models show more that has no run of its own. Each name below is stated in
its module and does **not** hold of the code; TLC refutes it in a run with the cfg of
its part. Against comments or documents of the code:

| Definition | What the code does instead |
|---|---|
| `TaskService!RunNeverUndoesRetry` | the run of an earlier Start takes a later in_progress for its own and stores its copy (`executor/service.go:160` promises otherwise) |
| `TokenSessions!LogoutIsOwn` | two logins of a user within a second get the same token, so the logout of one is that of both (`auth/service.go:212`) |
| `TokenSessions!LogoutShared` | with a `redis.db` other than 0 the logout's command may be in one database and the next check ask the other: the token is served (`docs/redis.md:29`; `redis/client.go:212`) |
| `SsoLogin!AutoCreates` | the password made up for `auto_create` has 76 bytes, more than bcrypt accepts: no account is created (`sso/service.go:36`) |
| `RequestPipeline!DenialsTraced` | the layers that refuse are outside of the ones that log and number (`docs/observability.md:221`) |
| `RequestPipeline!PreflightFree` | a preflight below `/api/v1/admin/` meets the longer rule and is refused (`authz/middleware.go:461`) |
| `MetricsRegistry!ScrapeConsistent` | a scrape shows metrics of different moments (`metrics/types.go:31`) |
| `MetricsRegistry!LabelsKept` | a counter registered with other labels is accepted, and its values are shown under the first ones (`metrics/types.go:119`) |
| `SandboxSupervisor!TreeStopped` | a Stop after the program has ended leaves its children (`sandbox/run.go:327`) |
| `SandboxSupervisor!AppliedIsFact` | rlimits are reported as applied to a program that is started without them (`sandbox/types.go:65`) |
| `McpClient!EveryCallEnds` | a call may wait for the write lock, which no timer bounds (`mcp/client.go:49`) |
| `McpClient!CloseIsNoFault` | a call that the own `Close` ends may be told of a fault of the transport (`mcp/client.go:363`) |
| `CloudEnvironments!DestroyServed` | an environment whose record says running while it is stopped cannot be destroyed (`cloud/service.go:108`) |
| `TerminalSessions!CloseEndsCommand` | a closed session's command goes on (`terminal/manager.go:111`) |
| `EgressGateway!PriorityDecides` | of two rules alike a deny decides, whatever the priorities (`network/types.go:66`) |
| `EgressGateway!SentAllowed` | the rules are asked about the method as it came and a trimmed one is sent; redirects are followed without asking (`docs/api.md:259`; `network/gateway.go:122`, `:174`) |
| `AuditLog!TruncationTold` | an export that counts before and lists after an append is cut and does not say so (`audit/service.go:100`) |
| `AuditLog!DryRunClose` | a dry run may be off by all events of one instant (`audit/retention.go:157`) |
| `AlertMonitor!EveryChangeRecorded` | the plain `ResolveAlert` leaves no disposition (`monitor/disposition.go:15`) |
| `AlertMonitor!RefireReopens` | a new alert is made instead (`monitor/disposition.go:10`) |
| `AlertMonitor!SilenceRaised` | a rule of type `inactive` or `unresponsive` is only looked at when the agent reports or a rule is made, not as its silence grows (`docs/api.md:252`) |
| `AdminConsole!CountsWhole` | agents and tasks are counted up to 100, what their services list at most, without a mark (`admin/service.go:16`) |
| `AdminConsole!UsersSurviveAuthz` | without the statistics of authorization the users are gone too (`admin/service.go:371`) |
| `Startup!HubServes` | nobody starts `Hub.Run` |

And as exceptions within properties that hold: `RunTask` reports a circular
dependency also when a subtask failed (`OutcomeExact` states when exactly); the
engine's map, keyed by task, counts too few executions once a task is dispatched
twice (`RunningMapExact`), and a tick may be preferred to a closed `stopCh`, after
which nobody cancels what is dispatched; `Start` and its siblings write the whole
agent they had read (`LifecycleKept`); a revocation during a check of `role` can make
it deny a permission held all the time (`DecisionExact`); a recording stopped
while an action is recorded is made anew (`StoppedIsSilent`); goals about files
always fail, as their second action is known to no executor (`RunsOfGoals`); a
duration in the file that is none is passed over, while one in the environment is
refused (`ConfigExact`); copying a directory into itself ends only at the limit of
the path (`CopyExact`); `decompose` stores the task it previews (`handleDecompose`);
failed logins are counted in two databases if `redis.db` is not 0, and the limit with them
(`FailuresBounded` speaks of commands that went to one); a key that is no known name, has
none as a segment and ends with no sensitive suffix is stored in clear, as
`app_signing_key` is, and so is what lies below a container of another type than the
plain ones (`SecretsRedacted`); two events may get one id in memory, and the later one is
found by it (`IdsExact`); `DestroyEnvironment` succeeds with the directory left if its removal
fails (`DirsRemoved`).

Capacities (`RegisterCap`, `BroadcastCap`, `SendCap`, 64 and 256 in the code) are
constants; the small values only make a full channel come sooner. Bounds on
operations (`MaxStarts`, `MaxSubmits`, `MaxSlots`, `MaxExecs`, `MaxUpdates`,
`MaxMessages`) stand in the guards of the actions they limit, and every other
part of the code's behaviour is left free. `CHECK_DEADLOCK FALSE` is used where a
bounded system really ends: a run that has returned, a stopped hub, an id used up.
Data are symmetric where `SYMMETRY` is given: the runs with it check invariants and
action properties only.

### Fairness

* `TaskRunner`: weak fairness of `RunStep`. A goroutine that can go on does; an
  action is assumed to return, which `ExecuteAction` is given a context for.
* `TaskService`: weak fairness of each run's steps, and none of the clients: no
  caller is obliged to call, nor to finish.
* `ExecutionEngine`: the steps of each execution, and the dispatch of a ready
  loop. No fairness of Submit, Stop, registration or the service.
* `ParallelScheduler`: the whole `Next`, all of whose steps belong to the one call
  and the goroutines it waits for.
* `WsHub`: the loop serves some channel whenever one is ready (Go's select is
  random, and the number of requests is bounded here, so every channel is
  served); pumps go on when unblocked and notice a closed connection by the next
  read, or ping. A connection need not ever fail. Once `Stop` has been called
  nothing is promised: a blocked `Unregister` may wait for ever.
* `Messenger`: the timer of a request fires, calls in progress go on; handlers
  return (they run in the requester's goroutine before the timer is made).
* `SandboxRun`: `Run` goes on, its deadline and the timer of `waitWithDeadline` fire, a
  kill takes effect. Processes need not end by themselves.
* `SandboxSupervisor`: each call of `Stop` goes on, its wait ends after three seconds.
* `McpClient`: the timer of a call that has been sent fires, whoever holds the lock and
  can write does, nobody is denied the lock for ever (Go's mutexes do not starve),
  the reader reads, a transport that is closing closes and its server is killed. The server is never obliged to read or to answer.
* `Presence`, `AgentLifecycle`, access control and the parts of `platform`: nothing that is
  checked depends on their fairness.

## 4. The proofs

A theorem holds for every value of the constants that meets the named assumption
of its module; TLC evaluates the assumption in the run. The properties are seldom
inductive, so each module proves an invariant that is, and derives them from it.
TLC has checked these invariants as well.

| Module | Assumed | Proved |
|---|---|---|
| `TaskRunner` | `NAssumption`, `PlansAssumption`, `NumActionsAssumption`: any number of subtasks and actions, any plans over numbers | `TypeOK`, `DependenciesFirst`, `OutcomeExact`, `ActionsInOrder`, `RestartIsFutile` |
| `TaskServiceProofs` | `PlanAssumption`, `BoundsAssumption`: any tasks, plans, callers, retries, starts | `TypeOK`, `RecordsConsistent`, `NoFalseDeadlock`, `ImplementsLifecycle` |
| `ExecutionEngineProofs` | `PlanAssumption`, `BoundsAssumption`: any tasks, agents, priorities, numbers of slots and executions | `TypeOK`, `SlotsExclusive`, `RunningMapExact`, `FinishedExact` |
| `RuntimeProofs` | `RuntimeAssumption`: the bounds are numbers, the callers are finite, a configuration is a set of limits and a switch | `TypeOK`, `SessionsKept`, `ProcessesReclaimed`, `AnswersExact` |
| `AgentsProofs` | `AgentsAssumption`: the bounds are numbers, subtasks, their dependencies and requests are finite, `offline` is no status of a heartbeat | `TypeOK`, `ScheduleExact`, `MessagesExact`, `LifecycleKept`, `OnlineNeedsHeartbeat` |
| `KeptParts`, `MCPlatform` | `MemoryAssumption`, `MarketAssumption`, `StartupAssumption`: times, scores and the finitely many ids are numbers, a template's id is not 0 (the recorder's); versions are counted from 1; files and environments give secrets of the kinds told apart and no layer sets the port of redis to 0 (the development configuration has it). `FilesAssumption`: the places are paths, with each the ones above it, the base directory is one; no place is a symbolic link, which the module has none of. `AlertsAssumption`: the rules are finitely many, of the three types, with numbers for thresholds, and a report's age is a number | `RecordsKept`, `StartsExact`, `EntryAuthorized`, `GoneForGood`, `AgentsConfined`, `AlertsExact` |
| `AccessProofs` | `AccessAssumption`: the bounds are numbers; the callers are finite; the limits and the window are positive, as 0 means none in the code; e-mails are no addresses, checkers no writers, a tenant is not called `none` or `removed`, a status not `absent` or `deleted`; `redis.db` is one of the databases | `LimitsHold`, `DirectoryKept`, `CredentialsFinal`, `DecisionExact` |

`TaskRunner`: the outcome only follows if one knows, in the middle of a
pass, that the map `completed` says what the states say for the subtasks already
passed (`MapUpToDate`), that a completed subtask is in every closed set
(`Grounded`), that everything passed without progress is blocked
(`BlockedSoFar`), that terminal subtasks of the call's start are kept
(`KeepsTerminal`), and that a new call starts either untouched or quiescent.
`Inv` is their conjunction, split into `DataOK` (types), `Data` (the states) and
`Control` (where the loop is); each part has a lemma for its step. `ActionInv`
adds, for the order of the actions, how far each subtask has come.

`TaskServiceProofs`: the records on their way (what a client or a run is about to
store) must be as good as the stored ones, which is why `Stored` includes them;
the refinement needs besides that whoever is about to store decided on the record
it read (`new` is a legal successor of `read`), and that a task outside `lost` is
still the record read when the store happens, or the store puts it into `lost`.

`ExecutionEngineProofs`: each busy slot has one holder and each holder its slot
(`SlotsOwned`); the map names executions of its own task and misses one only once
a task was dispatched again (`RunningMapExact` is inductive with the types); an
execution has executed, below its index, exactly what it could (`Progress`).

`RuntimeProofs` has one invariant per component, over its own variables.
Terminals: no more streams than the limit and the calls under way, and a settled
session has no call that may still store it. Browsers: the same for browsers and
recordings. `Run`: what `cmd.Wait` and the kill have left, phase by phase.
`Supervisor`: what each of the calls of `Stop` has killed, and what excuses the
one that has not. MCP: the pending ids are those of the calls that wait, one each
(`IdsExact`), and whatever ended the reader came first (`ReaderExact`).

`AgentsProofs`, too. Agents: what a caller is about to write is a legal successor
of what it read (`Legal`). Scheduler: while Kahn's algorithm goes on, a degree is
the number of the dependencies that have not come off (`Degrees`), and what has
come off is in every closed set, so that the two loops stop at exactly the nodes
that can be reached; the levels hold every node once, behind what it depends on
(`Ordered`); while they run, everything before the present level is over and
everything behind it is untouched (`Executing`), and a set closed under the
dependencies of completed nodes has all of them (`Grounded`), which makes them the
reachable ones. Hub: a client enters once, so that the register channel names
nobody who is or was in the set (`EntersOnce`); envelopes are numbered upwards along
the way from the channel over the buffers to the connection (`Numbered`).
Messenger: the entry of a request is there while somebody waits and nobody has taken
it, and one answerer at most has.

`AccessProofs`, too. Logins: as long as every command has gone to the configured
database, what has been counted there under each key and the callers past the check
that have still to count themselves (`ToCount`) stay together below the limit and the
callers (`Overrun`), since a check sees all that others have counted; in every database a
counter outlasts its window (`Lasting`), since its expiry is set within it. Tokens: in the
store in which it was confirmed a revocation lasts as long as the token could live, and a
request that began after it and asks there finds it, or the token expired. Users: what a call is
about to store differs from the user only in the field it is for, unless it is out
of date (`OneField`), and a user is made by one call (`CreatedOnce`). Tenants:
members and calls that add stay together below the quota and the callers (`Quota`);
a tenant is made by one call, before anybody is a member (`MadeOnce`). Single
sign-on: a state is there until it is used (`StatesOnce`); an answer is no older
than its request, nor the cache than an answer (`KeysOf`). Roles, for the slice of
`role` and the copies of `authz` at once: every entry of a check's list has been held
during it (`Listed`), and a role held and granting all the time still lies before it
in the list, unless that is shared and has been moved (`Ahead`).

`KeptParts` has, in the same way, an invariant for each of the eight components of
`MCPlatform` whose properties it proves, over the part's variables; `MCPlatform` puts
them together: the part that moves keeps its invariant (`PartsInv`). Environments: one
that has no record, or a record without one, is in the hands of a creation or a deletion
(`Halfway`), and where no calls have overlapped the one under way has read what is there
(`Follows`). Memories: what a search has read of an entry under the lock is what it has
still (`ReadsKept`), and an entry without crossing updates has one writer
(`WritersKept`). Templates: where no two calls have met on an id there is one, and what
it has copied or half written is so. Goals: every goal becomes a chain, worked off from
its beginning. Requests: every layer that has been passed held at some time since the
request came, whatever the table says. Starting: an instance has the configuration it
loaded, its handles go with its phase (`Backed`), and who is in a transaction has the
next version (`Migrating`), so that the ledger has no gaps. Files: what exists has
directories above it (`FilesTree`) and a call in the middle of a write or a copy works
below the base directory (`FilesCalls`), so that a rename or a removal never takes what
lies outside (`FilesOutside`). The check itself is what confines, whatever `Clean` makes
of a request: the relative path from the base directory begins with a step up exactly
when its own names do not all stand above the place (`UpAndDownBelow`). Alerts: an alert that nobody has resolved is known to be raised
(`AlertsKnown`), of a type not opened again there is one (`AlertsSingle`), and what the
stored status breached when it was stored, or when the rule was made after it, is raised
or the report that stored it is still to be evaluated (`AlertsDue`); time changes none of
this (`BreachStays`). That there is a least rule for a goal and a least version to apply
follows from the well-foundedness of the numbers (`LeastNatural`), which needs no
induction.

Only model-checked:

* liveness and termination (`Terminates`, `RunsEnd`, `QueueDrains`,
  `ExecutionsEnd`, `AllEnd`, `CallsEnd`), which are beyond the prover;
* `TypeOK` and `HistoryExact` of `MCPlatform`:
  what a workspace's path resolves to, a retention keeps or a total counts is folded over
  sequences or enumerated by the library (`FoldLeft`, `SelectSeq`, `SortSeq`, sums), and
  takes induction over data; `TypeOK` has a conjunct for each of these parts;
* what the four runs that expect a violation say, which does not hold.

## 5. Not modelled, and why

JSON, SQL text, logging, the React console and the deployment files carry no state
of their own; HTTP handlers are modelled by the operation they reach. Task
progress is a function of a record, and a page is cut from a result without a change. The adapters to mail and calendars are calls
to the outside. The communication service (messages and groups, which are handed out as
shared pointers) and the bus beside the messenger are the next candidates. Of the modules marked
`partly` in `PROJECT.json` the note says what is missing; the largest pieces are the
chain of hashes over exported events, health checks, the filters of listings,
statistics, the expiry of grants and the wire protocol of redis. Symbolic links are left out of the
files and said to be, as the code does not look at them; a redis password, which later
connections do not send either, makes their commands fail, as the steps of the models may.

## 6. Plan

Done: all components of the table modelled and checked, with the proofs of the
task core, the engine, the runtime, the agents, access control and eight components
of the platform. Left, over their variables as above: the parts of `HistoryExact`
(`EgressGateway!TrafficAccounted`, `AlertMonitor!TrailExact`,
`MetricsRegistry!NothingLost`), with lemmas about the sums and sequences they use.
