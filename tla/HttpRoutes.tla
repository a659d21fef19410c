----------------------------- MODULE HttpRoutes -----------------------------
(***************************************************************************)
(* Which permission a request needs, by the table of                       *)
(* internal/authz/middleware.go, and what the handlers of the modules do   *)
(* with its method and path, by the routes of internal/app/router.go: what *)
(* they do against what the table lets the system roles of internal/role   *)
(* ask for.  A path is the sequence of its segments below /api/v1; one     *)
(* outside of it begins with an empty segment.                             *)
(***************************************************************************)
EXTENDS Naturals, FiniteSets, SequencesExt

CONSTANT Caller   \* a system role, or "" for nobody

VARIABLE exchange \* the request that was served, and what became of it

-----------------------------------------------------------------------------
Rule(method, kind, pattern, namespace, public, action) ==
  [method |-> method, kind |-> kind, pattern |-> pattern, namespace |-> namespace,
   public |-> public, action |-> action]

\* What is asked on exactly this path, below it, or of paths that end so.
On(pattern, asks) == {Rule(m, "exact", pattern, <<>>, FALSE, asks[m]) : m \in DOMAIN asks}
Below(pattern, asks) == {Rule(m, "prefix", pattern, <<>>, FALSE, asks[m]) : m \in DOMAIN asks}
EndingIn(suffix, namespace, asks) ==
  {Rule(m, "suffix", suffix, namespace, FALSE, asks[m]) : m \in DOMAIN asks}
Public(methods, kind, pattern) == {Rule(m, kind, pattern, <<>>, TRUE, "") : m \in methods}

\* What agents are and do.
AgentRules ==
  On(<<"agents">>, [GET |-> "agent:read", POST |-> "agent:create"])
  \cup Below(<<"agents">>, [GET |-> "agent:read", PUT |-> "agent:update", DELETE |-> "agent:delete",
                            POST |-> "agent:control"])
  \cup Below(<<"cloud">>, [GET |-> "env:read", POST |-> "env:execute"])
  \cup On(<<"environments">>, [GET |-> "env:read", POST |-> "env:create"])
  \cup Below(<<"environments">>, [GET |-> "env:read", POST |-> "env:execute", DELETE |-> "env:destroy"])
  \cup On(<<"tasks">>, [GET |-> "task:read", POST |-> "task:create"])
  \cup Below(<<"tasks">>, [GET |-> "task:read", DELETE |-> "task:cancel"])
  \cup On(<<"terminals">>, [GET |-> "env:read", POST |-> "env:execute"])
  \cup Below(<<"terminals">>, [GET |-> "env:read", POST |-> "env:execute", DELETE |-> "env:destroy"])
  \cup Below(<<"filesystem">>, [GET |-> "file:read", POST |-> "file:write", DELETE |-> "file:delete"])
  \cup On(<<"browser">>, [GET |-> "browser:use"])
  \cup Below(<<"browser">>, [GET |-> "browser:use", POST |-> "browser:use", DELETE |-> "browser:use"])
  \cup On(<<"browsers">>, [GET |-> "browser:use", POST |-> "browser:use"])
  \cup Below(<<"browsers">>, [GET |-> "browser:use", DELETE |-> "browser:use"])
  \cup On(<<"memory">>, [GET |-> "memory:read", POST |-> "memory:write"])
  \cup Below(<<"memory">>, [GET |-> "memory:read", POST |-> "memory:write", DELETE |-> "memory:write"])
  \cup On(<<"adapters">>, [GET |-> "memory:read", POST |-> "memory:write"])
  \cup Below(<<"adapters">>, [GET |-> "memory:read", POST |-> "memory:write", DELETE |-> "memory:write"])
  \cup On(<<"decompose">>, [POST |-> "task:create"])
  \cup On(<<"messages">>, [GET |-> "message:read", POST |-> "message:send"])
  \cup Below(<<"messages">>, [GET |-> "message:read", POST |-> "message:send"])
  \cup On(<<"groups">>, [GET |-> "message:read", POST |-> "message:broadcast"])
  \cup Below(<<"groups">>, [GET |-> "message:read", POST |-> "message:broadcast"])
  \cup UNION {On(<<"recordings", step>>, [POST |-> "memory:write"]) : step \in {"start", "step", "stop"}}
  \cup On(<<"templates">>, [GET |-> "memory:read", POST |-> "memory:write"])
  \cup Below(<<"templates">>, [GET |-> "memory:read", POST |-> "memory:write", DELETE |-> "memory:write"])
  \cup On(<<"marketplace">>, [GET |-> "memory:read"])
  \cup Below(<<"marketplace">>, [GET |-> "memory:read", POST |-> "memory:write"])

\* What watches and governs them, and what is open to everybody.
GovernanceRules ==
  Below(<<"monitor">>, [GET |-> "agent:read"])
  \cup On(<<"monitor", "alert-dispositions">>, [GET |-> "agent:read"])
  \cup UNION {On(<<"monitor", what>>, [POST |-> "agent:control"]) : what \in {"task-outcomes", "agents", "alerts"}}
  \cup UNION {Below(<<"monitor", what>>, [POST |-> "agent:control"]) : what \in {"agents", "alerts"}}
  \cup Below(<<"audit">>, [GET |-> "role:manage"])
  \cup On(<<"audit", "retention">>, [GET |-> "role:manage", PUT |-> "role:manage"])
  \cup UNION {On(<<"audit">> \o what, [POST |-> "role:manage"]) :
                what \in {<<"events">>, <<"purge">>, <<"retention", "purge">>, <<"export", "verify">>}}
  \cup On(<<"network", "rules">>, [GET |-> "role:manage", POST |-> "role:manage"])
  \cup Below(<<"network", "rules">>, [DELETE |-> "role:manage"])
  \cup UNION {On(<<"network", what>>, [POST |-> "env:execute"]) : what \in {"evaluate", "proxy"}}
  \cup UNION {On(<<"network", what>>, [GET |-> "agent:read"]) : what \in {"traffic", "stats", "summary"}}
  \cup On(<<"network", "traffic", "purge">>, [POST |-> "role:manage"])
  \cup On(<<"tenants">>, [GET |-> "user:read", POST |-> "role:manage"])
  \cup On(<<"tenants", "current">>, [GET |-> "user:read"])
  \cup EndingIn(<<"status">>, <<"tenants">>, [POST |-> "role:manage"])
  \cup Below(<<"tenants">>, [GET |-> "user:read", POST |-> "user:update", DELETE |-> "role:manage"])
  \cup On(<<"roles">>, [GET |-> "role:manage", POST |-> "role:manage"])
  \cup Below(<<"roles">>, [GET |-> "role:manage", PUT |-> "role:manage", DELETE |-> "role:manage"])
  \cup Below(<<"role-assignments">>, [GET |-> "role:manage"])
  \cup On(<<"permissions">>, [GET |-> "role:manage"])
  \cup On(<<"users">>, [GET |-> "user:read"])
  \cup Below(<<"users">>, [GET |-> "user:read", PUT |-> "user:update", DELETE |-> "user:delete"])
  \cup EndingIn(<<"status">>, <<"users">>, [GET |-> "user:read", PUT |-> "user:activate", POST |-> "user:activate"])
  \cup EndingIn(<<"roles">>, <<"users">>, [GET |-> "user:read", POST |-> "role:assign", DELETE |-> "role:revoke"])
  \cup On(<<"authorizations">>, [GET |-> "role:manage", POST |-> "role:assign", DELETE |-> "role:revoke"])
  \cup Below(<<"authorizations">>, [GET |-> "role:manage"])
  \cup UNION {On(<<what>>, [GET |-> "role:manage"]) :
                what \in {"authorization-audit", "authorization-stats", "permission-routes"}}
  \cup {Rule("", "prefix", <<"admin">>, <<>>, FALSE, "role:manage")}
  \cup Public({"POST"}, "exact", <<"sso", "authorize">>) \cup Public({"GET", "POST"}, "exact", <<"sso", "callback">>)
  \cup Public({"GET"}, "exact", <<"sso", "status">>) \cup Public({"GET"}, "exact", <<"authorizations", "me">>)
  \cup Public({"GET", "HEAD"}, "exact", <<"", "health">>) \cup Public({"GET", "HEAD"}, "exact", <<"", "metrics">>)
  \cup Public({"OPTIONS"}, "prefix", <<>>) \cup Public({""}, "prefix", <<"auth">>)
  \cup Public({""}, "exact", <<"ws">>) \cup Public({""}, "exact", <<"ws", "status">>)
  \cup Public({"GET"}, "exact", <<"", "admin">>) \cup Public({"GET"}, "prefix", <<"", "admin">>)

defaultRules == AgentRules \cup GovernanceRules

-----------------------------------------------------------------------------
methodMatches(rule, method) == rule.method \in {"", method}

Matches(rule, method, path) ==
  /\ methodMatches(rule, method)
  /\ IsPrefix(rule.namespace, path)
  /\ CASE rule.kind = "exact" -> rule.pattern = path
       [] rule.kind = "prefix" -> IsStrictPrefix(rule.pattern, path)
       [] rule.kind = "suffix" -> IsSuffix(rule.pattern, path)

\* An exact rule is better than a suffix, that better than a prefix; then the
\* longer one, then the public one, then the one for all methods.
Rank(rule) == CASE rule.kind = "exact" -> 2 [] rule.kind = "suffix" -> 1 [] rule.kind = "prefix" -> 0
Size(rule) == Len(rule.pattern) + Len(rule.namespace)
Better(a, b) ==
  \/ Rank(a) > Rank(b)
  \/ Rank(a) = Rank(b) /\ Size(a) > Size(b)
  \/ Rank(a) = Rank(b) /\ Size(a) = Size(b) /\ a.public /\ ~b.public
  \/ Rank(a) = Rank(b) /\ Size(a) = Size(b) /\ a.public = b.public /\ a.method = "" /\ b.method # ""

\* The best of the rules that match; nothing when none does.
Lookup(method, path) ==
  LET found == {r \in defaultRules : Matches(r, method, path)}
  IN {r \in found : \A q \in found : q = r \/ Better(r, q)}

-----------------------------------------------------------------------------
\* CORS answers OPTIONS before a handler sees it.
Method == {"GET", "HEAD", "POST", "PUT", "PATCH", "DELETE"}

\* What a handler does at a path, by method: the operations that leave all as
\* it was, and those that change something.  "*" is an id, "**" all the rest.
At(path, reads, writes) == [path |-> path, reads |-> reads, writes |-> writes]
No == [m \in {} |-> ""]
ByAny(operation) == [m \in Method |-> operation]
Each(base, names, ReadsOf(_), WritesOf(_)) ==
  {At(base \o <<n>>, ReadsOf(n), WritesOf(n)) : n \in names}
Reading(base, names) == Each(base, names, LAMBDA n : [GET |-> n], LAMBDA n : No)
Posting(base, names) == Each(base, names, LAMBDA n : No, LAMBDA n : [POST |-> n])

AuthRoutes ==
  Posting(<<"auth">>, {"register", "login", "logout", "refresh"})
  \cup {At(<<"auth", "*">>, [GET |-> "oauth url"], No), At(<<"auth", "*", "callback">>, No, [GET |-> "oauth callback"])}
SsoRoutes ==
  {At(<<"sso", "authorize">>, No, [POST |-> "authorize"]), At(<<"sso", "status">>, [GET |-> "status"], No),
   At(<<"sso", "callback">>, No, [GET |-> "callback", POST |-> "callback"])}
AgentRoutes ==
  {At(<<"agents">>, [GET |-> "list"], [POST |-> "create"]),
   At(<<"agents", "*">>, [GET |-> "get"], [PUT |-> "update", DELETE |-> "delete"])}
  \cup Posting(<<"agents", "*">>, {"start", "stop", "pause", "resume"})
CloudRoutes ==
  {At(<<"environments">>, [GET |-> "list"], [POST |-> "create"]),
   At(<<"environments", "*">>, [GET |-> "get"], [DELETE |-> "delete"])}
  \cup Posting(<<"environments", "*">>, {"start", "stop", "pause", "resume", "exec", "upload"})
  \cup Each(<<"environments", "*">>, {"download", "files", "metrics"}, LAMBDA n : [POST |-> n], LAMBDA n : No)
TaskRoutes ==
  {At(<<"tasks">>, [GET |-> "list"], [POST |-> "create"]), At(<<"tasks", "*">>, [GET |-> "get"], No),
   At(<<"tasks", "*", "progress">>, ByAny("progress"), No), At(<<"decompose">>, No, [POST |-> "decompose"])}
  \cup Posting(<<"tasks", "*">>, {"start", "cancel", "retry"})
CommunicationRoutes ==
  {At(<<"messages">>, [GET |-> "list"], [POST |-> "send"]),
   At(<<"messages", "conversation">>, [GET |-> "conversation"], No),
   At(<<"groups">>, [GET |-> "list"], [POST |-> "create"]),
   At(<<"channels">>, [GET |-> "list"], [POST |-> "create"])}
  \cup Posting(<<"groups">>, {"join", "leave"})
WebSocketRoutes == {At(<<"ws">>, No, ByAny("upgrade")), At(<<"ws", "status">>, ByAny("status"), No)}
BrowserRoutes ==
  {At(<<"browsers">>, No, [POST |-> "create"]), At(<<"browsers", "*">>, [GET |-> "get"], [DELETE |-> "close"]),
   At(<<"browser", "profiles">>, [GET |-> "list"], No),
   At(<<"browser", "profiles", "**">>, [GET |-> "export"], [DELETE |-> "delete"]),
   At(<<"browser", "import-profile">>, No, [POST |-> "import"])}
  \cup Posting(<<"browsers", "*">>, {"navigate", "action", "replay"})
  \cup Posting(<<"browsers", "*", "record">>, {"start", "stop"})
  \cup Each(<<"browsers", "*">>, {"page", "screenshot", "extract"}, ByAny, LAMBDA n : No)
TerminalRoutes ==
  {At(<<"terminals">>, [GET |-> "list"], [POST |-> "create"]),
   At(<<"terminals", "*">>, [GET |-> "get"], [DELETE |-> "close"])}
  \cup Posting(<<"terminals", "*">>, {"execute", "resize"})
FileRoutes ==
  Reading(<<"filesystem">>, {"read", "list", "info", "stat"})
  \cup Posting(<<"filesystem">>, {"write", "mkdir", "move", "copy"})
  \cup {At(<<"filesystem", "search">>, [POST |-> "search"], No),
        At(<<"filesystem", "remove">>, No, [DELETE |-> "remove"])}
AdapterRoutes ==
  {At(<<"adapters">>, [GET |-> "list"], [POST |-> "create"]),
   At(<<"adapters", "*">>, [GET |-> "get"], [DELETE |-> "delete"]),
   At(<<"adapters", "*", "actions">>, [GET |-> "actions"], No),
   At(<<"adapters", "*", "execute">>, No, [POST |-> "execute"])}
MemoryRoutes ==
  {At(<<"memory">>, [GET |-> "search"], [POST |-> "create"]),
   At(<<"memory", "**">>, [GET |-> "get"], [PUT |-> "update", DELETE |-> "delete"]),
   At(<<"memory", "stats">>, [GET |-> "stats"], No), At(<<"memory", "cleanup">>, No, [POST |-> "cleanup"])}
  \cup {At(<<"memory", of, "**">>, [GET |-> "list"], No) : of \in {"agent", "user"}}
RoleRoutes ==
  {At(<<"roles">>, [GET |-> "list"], [POST |-> "create"]),
   At(<<"roles", "**">>, [GET |-> "get"], [PUT |-> "update", DELETE |-> "delete"]),
   At(<<"role-assignments", "**">>, [GET |-> "get"], [POST |-> "assign", DELETE |-> "revoke"]),
   At(<<"permissions">>, [GET |-> "list"], No), At(<<"permissions", "check">>, [POST |-> "check"], No)}
UserRoutes ==
  {At(<<"users">>, [GET |-> "list"], No), At(<<"users", "*">>, [GET |-> "get"], [DELETE |-> "delete"]),
   At(<<"users", "*", "status">>, [GET |-> "status"], [POST |-> "set status", PUT |-> "set status"])}
  \cup Reading(<<"users", "*">>, {"roles", "assignments"})
AuthorizationRoutes ==
  {At(<<"authorizations">>, No, [POST |-> "assign", DELETE |-> "revoke"]),
   At(<<"authorizations", "*", "**">>, [GET |-> "get"], No)}
  \cup Reading(<<"authorizations">>, {"me"})
  \cup Reading(<<>>, {"authorization-audit", "authorization-stats", "permission-routes"})
\* A path below a template or a listing that is none of these means the thing itself.
TemplateRoutes ==
  {At(<<"templates">>, [GET |-> "list"], [POST |-> "create"]),
   At(<<"templates", "**">>, [GET |-> "get"], [PUT |-> "update", DELETE |-> "delete"]),
   At(<<"templates", "popular">>, [GET |-> "popular"], No), At(<<"templates", "*", "export">>, ByAny("export"), No),
   At(<<"templates", "*", "executions">>, ByAny("executions"), No),
   At(<<"templates", "*", "execute">>, No, [POST |-> "execute"])}
  \cup Posting(<<"recordings">>, {"start", "step", "stop"})
MarketplaceRoutes ==
  {At(<<"marketplace">>, [GET |-> "browse"], No), At(<<"marketplace", "stats">>, [GET |-> "stats"], No),
   At(<<"marketplace", "**">>, [GET |-> "get"], [PUT |-> "update"]),
   At(<<"marketplace", "*", "reviews">>, [GET |-> "reviews"], [POST |-> "review"]),
   At(<<"marketplace", "*", "unpublish">>, No, [POST |-> "unpublish", DELETE |-> "unpublish"]),
   At(<<"marketplace", "*", "featured">>, No, [PUT |-> "feature", POST |-> "feature"])}
  \cup Posting(<<"marketplace", "*">>, {"install", "publish"})
MonitorRoutes ==
  {At(<<"monitor", "agents">>, [GET |-> "list"], [POST |-> "report"]),
   At(<<"monitor", "agents", "*">>, [GET |-> "get"], No),
   At(<<"monitor", "agents", "*", "metrics">>, [GET |-> "metrics"], [POST |-> "report metrics"]),
   At(<<"monitor", "alerts">>, [GET |-> "list"], [POST |-> "create rule"]),
   At(<<"monitor", "alerts", "**">>, No, [DELETE |-> "delete rule"]),
   At(<<"monitor", "alerts", "*", "dispositions">>, [GET |-> "dispositions"], No),
   At(<<"monitor", "metrics", "**">>, [GET |-> "metrics"], No)}
  \cup Reading(<<"monitor", "agents", "*">>, {"health"}) \cup Reading(<<"monitor">>, {"dashboard"})
  \cup Posting(<<"monitor", "alerts", "*">>, {"resolve", "ack", "reopen"})
SeriesRoutes ==
  {At(<<"monitor", "series", "**">>, [GET |-> "series"], No)}
  \cup Posting(<<"monitor">>, {"task-outcomes"}) \cup Reading(<<"monitor">>, {"alert-dispositions"})
AuditRoutes ==
  {At(<<"audit", "events">>, [GET |-> "list"], [POST |-> "record"]),
   At(<<"audit", "events", "**">>, [GET |-> "get"], No),
   At(<<"audit", "purge">>, No, [POST |-> "purge", DELETE |-> "purge"])}
  \cup Reading(<<"audit">>, {"stats", "distinct", "export"})
RetentionRoutes ==
  {At(<<"audit", "retention">>, [GET |-> "retention"], [PUT |-> "set retention", POST |-> "set retention"]),
   At(<<"audit", "export", "verify">>, [POST |-> "verify"], No)}
  \cup Posting(<<"audit", "retention">>, {"purge"})
NetworkRoutes ==
  {At(<<"network", "rules">>, [GET |-> "list"], [POST |-> "create"]),
   At(<<"network", "rules", "**">>, No, [DELETE |-> "delete"]),
   At(<<"network", "evaluate">>, [POST |-> "evaluate"], No)}
  \cup Reading(<<"network">>, {"traffic", "stats", "summary"}) \cup Posting(<<"network">>, {"proxy"})
  \cup Posting(<<"network", "traffic">>, {"purge"})
TenantRoutes ==
  {At(<<"tenants">>, [GET |-> "list"], [POST |-> "create"]), At(<<"tenants", "*">>, [GET |-> "get"], No),
   At(<<"tenants", "current">>, ByAny("current"), No), At(<<"tenants", "*", "status">>, No, [POST |-> "set status"]),
   At(<<"tenants", "*", "members">>, [GET |-> "members"], [POST |-> "add member"]),
   At(<<"tenants", "*", "members", "*">>, No, [DELETE |-> "remove member"]),
   At(<<"tenants", "*", "resources">>, [GET |-> "resources"], No)}
AdminRoutes ==
  {At(<<"admin", "config">>, [GET |-> "config"], [PUT |-> "set config", PATCH |-> "set config"]),
   At(<<"", "admin">>, [GET |-> "page", HEAD |-> "page"], No),
   At(<<"", "admin", "**">>, [GET |-> "page", HEAD |-> "page"], No)}
  \cup Reading(<<"admin">>, {"snapshot", "static"})

NewRouter ==
  {At(<<"", "health">>, ByAny("health"), No), At(<<"", "metrics">>, ByAny("metrics"), No)}
  \cup AuthRoutes \cup AgentRoutes \cup CloudRoutes \cup TaskRoutes \cup CommunicationRoutes
  \cup WebSocketRoutes \cup BrowserRoutes \cup TerminalRoutes \cup FileRoutes \cup AdapterRoutes
  \cup MemoryRoutes \cup RoleRoutes \cup UserRoutes \cup AuthorizationRoutes \cup TemplateRoutes
  \cup MarketplaceRoutes \cup MonitorRoutes \cup SeriesRoutes \cup AuditRoutes \cup RetentionRoutes
  \cup NetworkRoutes \cup TenantRoutes \cup SsoRoutes \cup AdminRoutes

-----------------------------------------------------------------------------
Rest(pattern) == Len(pattern) > 0 /\ pattern[Len(pattern)] = "**"
Fits(pattern, path) ==
  /\ IF Rest(pattern) THEN Len(path) >= Len(pattern) ELSE Len(path) = Len(pattern)
  /\ \A i \in DOMAIN pattern : pattern[i] \in {"**", "*", path[i]}

\* The mux takes the longest pattern, a handler a name before an id.
Wild(pattern) == Cardinality({i \in DOMAIN pattern : pattern[i] = "*"}) + (IF Rest(pattern) THEN 10 - Len(pattern) ELSE 0)
Served(path) ==
  LET fit == {r \in NewRouter : Fits(r.path, path)}
  IN {r \in fit : \A q \in fit : Wild(r.path) <= Wild(q.path)}

\* What a request comes to when it is let in: the operation, or nothing.
Operations(method, path) ==
  UNION {{[name |-> kind[method], writes |-> kind = r.writes] :
            kind \in {k \in {r.reads, r.writes} : method \in DOMAIN k}} : r \in Served(path)}

\* A request for each route, and for what lies beyond it.
Sample(pattern) == [i \in DOMAIN pattern |-> IF pattern[i] \in {"*", "**"} THEN "x" ELSE pattern[i]]
Paths == UNION {{Sample(r.path), Append(Sample(r.path), "y")} : r \in NewRouter}

\* The permissions of the system roles.
reviewerPermissions == {"agent:read", "task:read", "message:send", "message:read", "env:read", "file:read", "memory:read"}
observerPermissions == {"agent:read", "task:read", "message:read", "env:read", "file:read", "memory:read"}
workerPermissions ==
  {"agent:read", "task:read", "task:execute", "message:send", "message:read", "env:read", "env:execute",
   "file:read", "file:write", "browser:use", "memory:read", "memory:write"}
coordinatorPermissions == {r.action : r \in defaultRules}
Permissions(caller) ==
  CASE caller = "coordinator" -> coordinatorPermissions [] caller = "worker" -> workerPermissions
    [] caller = "reviewer" -> reviewerPermissions [] caller = "observer" -> observerPermissions
    [] caller = "" -> {}

None == [caller |-> "", method |-> "", path |-> <<>>, rules |-> {}, allowed |-> FALSE, operations |-> {}]
Init == exchange = None

\* Authorize, then the handler.
Serve(method, path) ==
  /\ exchange = None
  /\ LET rules == Lookup(method, path)
         operations == Operations(method, path)
     IN \E caller \in Caller :
          exchange' = [caller |-> caller, method |-> method, path |-> path, rules |-> rules,
                       allowed |-> \E r \in rules : r.public \/ r.action \in Permissions(caller),
                       operations |-> operations]

Next == \E method \in Method, path \in Paths : Serve(method, path)

Spec == Init /\ [][Next]_exchange

-----------------------------------------------------------------------------
TypeOK ==
  /\ exchange.caller \in Caller \cup {""} /\ exchange.method \in Method \cup {""}
  /\ Cardinality(exchange.operations) <= 1

Changed == exchange.allowed /\ \E o \in exchange.operations : o.writes

\* One rule decides, and not the order they were registered in.
OneRule == exchange.allowed => Cardinality(exchange.rules) = 1

\* What the roles are said to be: an observer changes nothing, a reviewer only
\* sends messages, nobody only signs in or connects; whoever has no role for it
\* gets no further than the public routes.
RolesHold ==
  Changed =>
    LET entrance == exchange.path[1] \in {"auth", "sso", "ws"} IN
    /\ exchange.caller \in {"", "observer"} => entrance
    /\ exchange.caller = "reviewer" => entrance \/ exchange.path[1] = "messages"
    /\ exchange.caller = "worker" => exchange.path[1] \notin
         {"roles", "role-assignments", "users", "authorizations", "tenants", "audit", "admin", "agents", "monitor"}

\* Whatever a handler serves, a coordinator, who has every permission, can ask for.
RoutesServed == exchange.caller = "coordinator" /\ exchange.operations # {} => exchange.allowed
=============================================================================
