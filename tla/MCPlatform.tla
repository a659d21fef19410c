----------------------------- MODULE MCPlatform -----------------------------
(* What the platform keeps and counts: environments, files, memories and     *)
(* templates; the policy of the network, the audit log, the alerts, series   *)
(* and metrics; the pipeline and the routes every request goes through, the  *)
(* decomposer and the console; and how an instance starts.  They share no    *)
(* state: each behaviour is one of `part`, while the variables of the others *)
(* stay as they were.  Some parts come with two callers over little data,    *)
(* and with one over more: what differs is in a record.  The parts whose     *)
(* properties are proved are in KeptParts, with their proofs; what is left   *)
(* of these, over the parts together, is at the end.                         *)
EXTENDS KeptParts, TLC

CONSTANTS
  NetRules, NetAgent, Domain, NetMethod,  \* EgressGateway
  MaxRecords, Drop, NetTime, MaxSent, MaxRules,
  EventId, Details, SensitiveKey, Suffix, \* AuditLog
  Today, Days, MaxLimit, MaxEvents,
  Interval, MaxBuckets, Window,           \* MetricSeries
  Time, Cpu, MaxData,
  Names, Labels, Value, Buckets,          \* MetricsRegistry
  Observed, MaxObserved,
  Caller,                                 \* HttpRoutes
  Class, Contents, PageSize, ServiceCap,  \* AdminConsole
  MaxOverview, RecentLimit, Sections, ConfigUpdate, MaxUpdates

VARIABLES part,
          nRules, nRecords, dropped, now, nOp, audited, purged,
          events, byID, seq, policy, aOp, calm, twice,
          samples, outcomes, sOp,
          counters, histogram, handles, gOp, added, observations, moments,
          exchange,
          content, failing, config, oOp, oChanges, history

netVars == <<nRules, nRecords, dropped, now, nOp, audited, purged>>
auditVars == <<events, byID, seq, policy, aOp, calm, twice>>
seriesVars == <<samples, outcomes, sOp>>
metricVars == <<counters, histogram, handles, gOp, added, observations, moments>>
routeVars == <<exchange, tasks>>
consoleVars == <<content, failing, config, oOp, oChanges, history>>
vars == <<part, cloudVars, fileVars, netVars, auditVars, alertVars, seriesVars, metricVars,
          pipeVars, memoryVars, marketVars, routeVars, startVars, consoleVars>>

-----------------------------------------------------------------------------
MemoryLog == INSTANCE AuditLog WITH op <- aOp, Id <- EventId, Detail <- Details, Client <- Single,
           Backend <- "memory"
PostgresLog == INSTANCE AuditLog WITH op <- aOp, Id <- EventId, Detail <- Details, Client <- Single,
           Backend <- "postgres"
Net == INSTANCE EgressGateway WITH rules <- nRules, records <- nRecords, op <- nOp, Rule <- NetRules,
           Agent <- NetAgent, Method <- NetMethod, Client <- Single, MaxTime <- NetTime
Series == INSTANCE MetricSeries WITH op <- sOp
Metrics == INSTANCE MetricsRegistry WITH op <- gOp, Measured <- Observed, MaxEvents <- MaxObserved
Routes == INSTANCE HttpRoutes
Console == INSTANCE AdminConsole WITH op <- oOp, changes <- oChanges, Content <- Contents,
           Query <- Sections, Update <- ConfigUpdate, MaxChanges <- MaxUpdates

-----------------------------------------------------------------------------
(* What the configurations give for the constants. *)

\* Below /srv/fs a file or directory a, with a second name in it; outside, a
\* sibling whose name begins alike.
SmallBase == <<"srv", "fs">>
Outside == {<<>>, <<"srv">>, <<"srv", "fs-old">>, <<"srv", "fs-old", "a">>}
Inside(paths) == {SmallBase} \cup {SmallBase \o p : p \in paths} \cup Outside
Path(abs, segs) == [abs |-> abs, segs |-> segs]
FewPlaces == Inside({<<"a">>, <<"a", "b">>})
FewRequests == {Path(FALSE, <<"a">>), Path(FALSE, <<"a", ".", "b">>),
                Path(TRUE, <<"srv", "fs-old", "a">>), Path(FALSE, <<"a", "..">>)}
MorePlaces == Inside({<<"a">>, <<"b">>, <<"a", "b">>, <<"b", "b">>})
MoreRequests == {Path(FALSE, <<"a">>), Path(TRUE, <<"srv", "fs", "b">>), Path(FALSE, <<"a", ".", "b">>),
                 Path(FALSE, <<"..", "fs-old", "a">>), Path(FALSE, <<"a", "..">>)}
FewFiles == [client |-> Client, place |-> FewPlaces, request |-> FewRequests]
MoreFiles == [client |-> Single, place |-> MorePlaces, request |-> MoreRequests]

\* Rules for everyone and for agent a, of every kind of target.
Target(kind, name) == [kind |-> kind, name |-> name]
NetRule(agent, target, effect, priority, methods) ==
  [agent |-> agent, target |-> target, effect |-> effect, priority |-> priority, methods |-> methods]
SmallNetRules ==
  {NetRule("", Target("any", <<>>), "allow", 0, {}),
   NetRule("", Target("wildcard", <<"com">>), "deny", 0, {}),
   NetRule("", Target("exact", <<"x", "com">>), "allow", 0, {"GET"}),
   NetRule("", Target("exact", <<"x", "com">>), "deny", 1, {"GET"}),
   NetRule("a", Target("wildcard", <<"com">>), "allow", 5, {}),
   NetRule("a", Target("exact", <<"y", "x", "com">>), "deny", 7, {"POST"})}
Method(name, padded) == [name |-> name, padded |-> padded]
SmallMethods == {Method("", FALSE), Method("GET", FALSE), Method("POST", FALSE), Method("POST", TRUE)}
SmallDomains == {<<"x", "com">>, <<"y", "x", "com">>, <<"org">>}

\* One set of details: a sensitive suffix below a harmless key, a harmless value,
\* an empty secret, a sensitive key at the top and one below a typed container, a
\* prefixed name that is no suffix.
Entry(path, depth, value) == [path |-> path, depth |-> depth, value |-> value]
SmallDetails ==
  {{Entry(<<<<"user">>, <<"my", "api", "key">>, <<"x">>>>, 3, "secret"), Entry(<<<<"note">>>>, 1, "plain"),
    Entry(<<<<"auth", "id">>>>, 1, ""), Entry(<<<<"token">>>>, 1, "secret"),
    Entry(<<<<"headers">>, <<"token">>>>, 1, "secret"), Entry(<<<<"app", "signing", "key">>>>, 1, "secret")}}
SmallSensitiveKeys == {<<"api", "key">>, <<"token">>, <<"auth">>, <<"signing", "key">>}
SmallSuffixes == {<<"api", "key">>, <<"token">>}

\* Two thresholds of one type; a failure and silence; a status that is fresh and one of
\* an agent that was silent before.
AlertRule(id, type, threshold) == [id |-> id, type |-> type, threshold |-> threshold]
FewAlerts == [client |-> Client, rule |-> {AlertRule(1, "cpu_high", 1), AlertRule(2, "cpu_high", 2)},
              alerts |-> 1, records |-> 2, time |-> 0]
MoreAlerts == [client |-> Single, rule |-> {AlertRule(3, "task_failed", 0), AlertRule(4, "inactive", 1)},
               alerts |-> 2, records |-> 1, time |-> 1]
SmallReported == {[cpu |-> 2, failed |-> TRUE, age |-> 0], [cpu |-> 0, failed |-> FALSE, age |-> 1]}

SmallNames == <<"a", "b">>
SmallLabels == {<<"m", "r">>, <<"r", "m">>}
SmallBuckets == {<<2, 1, 2>>}

\* A public route, a preflight two rules match, an upgrade with a token,
\* a request in a tenant and one that needs a permission.
Ask(method, path, token) ==
  [method |-> method, path |-> path, token |-> token, upgrade |-> path = <<"ws">>]
SmallAsked ==
  {Ask("POST", <<"tenants", "t", "status">>, "tenant"), Ask("OPTIONS", <<"admin", "x">>, ""),
   Ask("GET", <<"ws">>, "user"), Ask("GET", <<"authorizations", "me">>, ""),
   Ask("DELETE", <<"agents", "a">>, "user")}

OneTemplate == [client |-> Client, id |-> {1}, rating |-> {4}, fields |-> {{"name", "steps"}}]
TwoTemplates == [client |-> Single, id |-> {1, 2}, rating |-> {1, 4}, fields |-> {{"steps"}}]

\* Sets of keywords.
SmallGoals == SUBSET {"release", "test", "copy", "web", "call", "db"}

\* No file, a file with values of every kind; environments that are right, fall
\* back with or without a database of redis to select, choose memory, or hold a port, a duration or a pair of ports that is wrong.
NoFile == [kind |-> "none", values |-> [f \in {} |-> <<>>]]
SmallFiles == {NoFile, [NoFile EXCEPT !.kind = "missing"],
          [kind |-> "read", values |-> [port |-> <<9000>>, readTimeout |-> <<>>,
                                        jwtSecret |-> <<"placeholder">>, redisHost |-> <<"">>]],
          [kind |-> "read", values |-> [port |-> <<>>]]}
Good == [jwtSecret |-> <<"long">>, dbPassword |-> <<"long">>]
SmallEnvs == {Good, Good @@ [fallback |-> <<TRUE>>], Good @@ [fallback |-> <<TRUE>>, redisDB |-> <<1>>],
         [jwtSecret |-> <<"long">>, dbHost |-> <<"">>, redisHost |-> <<"">>],
         Good @@ [port |-> <<70000>>], Good @@ [readTimeout |-> <<>>], Good @@ [metricsPort |-> <<8080>>],
         Good @@ [port |-> <<8000>>]}
AllUp == [db |-> TRUE, redis |-> "up", disk |-> TRUE, port |-> TRUE]
AnyWorld == [db : BOOLEAN, redis : {"up", "mute", "down"}, disk : BOOLEAN, port : BOOLEAN]
MoreStarts == [instance |-> Client, file |-> {NoFile}, environ |-> {Good}, world |-> {AllUp}, starts |-> 3,
               requests |-> 0]
MoreWorlds == [instance |-> Single, file |-> SmallFiles, environ |-> SmallEnvs, world |-> AnyWorld, starts |-> 2,
               requests |-> 1]

\* Every module holds one thing of each class; a change takes it over what its
\* service lists.
SmallContents == {[s \in {"agents", "tasks", "monitor", "audit", "users", "authz", "rules", "stats"} |->
            [good |-> 1, bad |-> 1]]}
SmallSections == {{}, {"overview"}, {"agents", "users"}}
SmallUpdates == {[title |-> "t", flags |-> {"f"}, valid |-> TRUE], [title |-> "u", flags |-> {" "}, valid |-> FALSE]}

-----------------------------------------------------------------------------
Parts == {"cloud", "filesOfTwo", "filesOfOne", "network", "memoryLog", "postgresLog",
          "alertsOfTwo", "alertsOfOne", "series", "metrics", "pipeline", "memories",
          "marketOfTwo", "marketOfOne", "routes", "goals", "startupOfTwo", "startupOfOne",
          "console"}

Init ==
  /\ part \in Parts
  /\ Cloud!Init /\ Net!Init /\ MemoryLog!Init /\ Series!Init /\ Metrics!Init /\ Memories!Init
  /\ IF part = "filesOfTwo" THEN FilesOfTwo!Init ELSE FilesOfOne!Init
  /\ IF part = "alertsOfTwo" THEN AlertsOfTwo!Init ELSE AlertsOfOne!Init
  /\ IF part = "marketOfTwo" THEN Market(MarketOfTwo)!Init ELSE Market(MarketOfOne)!Init
  /\ Pipeline!Init /\ Routes!Init /\ Goals!Init /\ Console!Init
  /\ IF part = "startupOfOne" THEN Starts(StartupOfOne)!Init ELSE Starts(StartupOfTwo)!Init
  /\ part \notin {"memoryLog", "postgresLog"} => policy = 0
  /\ part # "pipeline" => env = [valid |-> FALSE, held |-> {}, up |-> FALSE, usable |-> FALSE]

CloudNext ==
  /\ part = "cloud" /\ Cloud!Next
  /\ UNCHANGED <<part, fileVars, netVars, auditVars, alertVars, seriesVars, metricVars,
                 pipeVars, memoryVars, marketVars, routeVars, startVars, consoleVars>>
FilesNext ==
  /\ (part = "filesOfTwo" /\ FilesOfTwo!Next) \/ (part = "filesOfOne" /\ FilesOfOne!Next)
  /\ UNCHANGED <<part, cloudVars, netVars, auditVars, alertVars, seriesVars, metricVars,
                 pipeVars, memoryVars, marketVars, routeVars, startVars, consoleVars>>
NetNext ==
  /\ part = "network" /\ Net!Next
  /\ UNCHANGED <<part, cloudVars, fileVars, auditVars, alertVars, seriesVars, metricVars,
                 pipeVars, memoryVars, marketVars, routeVars, startVars, consoleVars>>
AuditNext ==
  /\ (part = "memoryLog" /\ MemoryLog!Next) \/ (part = "postgresLog" /\ PostgresLog!Next)
  /\ UNCHANGED <<part, cloudVars, fileVars, netVars, alertVars, seriesVars, metricVars,
                 pipeVars, memoryVars, marketVars, routeVars, startVars, consoleVars>>
AlertsNext ==
  /\ (part = "alertsOfTwo" /\ AlertsOfTwo!Next) \/ (part = "alertsOfOne" /\ AlertsOfOne!Next)
  /\ UNCHANGED <<part, cloudVars, fileVars, netVars, auditVars, seriesVars, metricVars,
                 pipeVars, memoryVars, marketVars, routeVars, startVars, consoleVars>>
SeriesNext ==
  /\ part = "series" /\ Series!Next
  /\ UNCHANGED <<part, cloudVars, fileVars, netVars, auditVars, alertVars, metricVars,
                 pipeVars, memoryVars, marketVars, routeVars, startVars, consoleVars>>
MetricsNext ==
  /\ part = "metrics" /\ Metrics!Next
  /\ UNCHANGED <<part, cloudVars, fileVars, netVars, auditVars, alertVars, seriesVars,
                 pipeVars, memoryVars, marketVars, routeVars, startVars, consoleVars>>
PipelineNext ==
  /\ part = "pipeline" /\ Pipeline!Next
  /\ UNCHANGED <<part, cloudVars, fileVars, netVars, auditVars, alertVars, seriesVars,
                 metricVars, memoryVars, marketVars, routeVars, startVars, consoleVars>>
MemoriesNext ==
  /\ part = "memories" /\ Memories!Next
  /\ UNCHANGED <<part, cloudVars, fileVars, netVars, auditVars, alertVars, seriesVars,
                 metricVars, pipeVars, marketVars, routeVars, startVars, consoleVars>>
MarketNext ==
  /\ (part = "marketOfTwo" /\ Market(MarketOfTwo)!Next) \/ (part = "marketOfOne" /\ Market(MarketOfOne)!Next)
  /\ UNCHANGED <<part, cloudVars, fileVars, netVars, auditVars, alertVars, seriesVars,
                 metricVars, pipeVars, memoryVars, routeVars, startVars, consoleVars>>

RoutesNext ==
  /\ (part = "routes" /\ Routes!Next /\ UNCHANGED tasks)
     \/ (part = "goals" /\ Goals!Next /\ UNCHANGED exchange)
  /\ UNCHANGED <<part, cloudVars, fileVars, netVars, auditVars, alertVars, seriesVars,
                 metricVars, pipeVars, memoryVars, marketVars, startVars, consoleVars>>
StartupNext ==
  /\ (part = "startupOfTwo" /\ Starts(StartupOfTwo)!Next) \/ (part = "startupOfOne" /\ Starts(StartupOfOne)!Next)
  /\ UNCHANGED <<part, cloudVars, fileVars, netVars, auditVars, alertVars, seriesVars,
                 metricVars, pipeVars, memoryVars, marketVars, routeVars, consoleVars>>
ConsoleNext ==
  /\ part = "console" /\ Console!Next
  /\ UNCHANGED <<part, cloudVars, fileVars, netVars, auditVars, alertVars, seriesVars,
                 metricVars, pipeVars, memoryVars, marketVars, routeVars, startVars>>

Next ==
  \/ CloudNext \/ FilesNext \/ NetNext \/ AuditNext \/ AlertsNext
  \/ SeriesNext \/ MetricsNext \/ PipelineNext \/ MemoriesNext \/ MarketNext
  \/ RoutesNext \/ StartupNext \/ ConsoleNext

Spec == Init /\ [][Next]_vars

\* The two callers of a part are alike.
Symmetry == Permutations(Client)

-----------------------------------------------------------------------------
\* The types of the components.
TypeOK ==
  CASE part = "cloud" -> Cloud!TypeOK
    [] part = "filesOfTwo" -> FilesOfTwo!TypeOK
    [] part = "filesOfOne" -> FilesOfOne!TypeOK
    [] part = "network" -> Net!TypeOK
    [] part = "memoryLog" -> MemoryLog!TypeOK
    [] part = "postgresLog" -> PostgresLog!TypeOK
    [] part = "alertsOfTwo" -> AlertsOfTwo!TypeOK
    [] part = "alertsOfOne" -> AlertsOfOne!TypeOK
    [] part = "series" -> Series!TypeOK
    [] part = "metrics" -> Metrics!TypeOK
    [] part = "pipeline" -> Pipeline!TypeOK
    [] part = "memories" -> Memories!TypeOK
    [] part = "marketOfTwo" -> Market(MarketOfTwo)!TypeOK
    [] part = "marketOfOne" -> Market(MarketOfOne)!TypeOK
    [] part = "routes" -> Routes!TypeOK
    [] part = "goals" -> Goals!TypeOK
    [] part = "startupOfTwo" -> Starts(StartupOfTwo)!TypeOK
    [] part = "startupOfOne" -> Starts(StartupOfOne)!TypeOK
    [] part = "console" -> Console!TypeOK

\* FileStore: no call reads or writes outside the base directory of a tree without
\* symbolic links; the code follows a link wherever it leads.
AgentsConfined ==
  /\ part = "filesOfTwo" => FilesOfTwo!Confined
  /\ part = "filesOfOne" => FilesOfOne!Confined

\* CloudEnvironments: environments, records and directories go together;
\* MemoryStore: counts and updates are whole; TemplateMarket: installs,
\* ratings and templates are.
RecordsKept ==
  /\ part = "cloud" => Cloud!RecordsPaired /\ Cloud!RecordsExact /\ Cloud!DirsRemoved
  /\ part = "memories" => Memories!AccessExact /\ Memories!UpdateWhole
  /\ part = "marketOfTwo" =>
       Market(MarketOfTwo)!InstallsExact /\ Market(MarketOfTwo)!RatingExact /\ Market(MarketOfTwo)!TemplateWhole
  /\ part = "marketOfOne" =>
       Market(MarketOfOne)!InstallsExact /\ Market(MarketOfOne)!RatingExact /\ Market(MarketOfOne)!TemplateWhole
  /\ part = "goals" => Goals!RunsOfGoals

\* Startup: what is configured is what runs, or nothing does; each migration
\* runs once, whoever starts beside; and the exit says how it came about.
StartsExact ==
  /\ part = "startupOfTwo" =>
       Starts(StartupOfTwo)!ConfigExact /\ Starts(StartupOfTwo)!BackendDecided /\ Starts(StartupOfTwo)!LedgerExact
         /\ Starts(StartupOfTwo)!ExitExact /\ Starts(StartupOfTwo)!DevelopmentStarts
  /\ part = "startupOfOne" =>
       Starts(StartupOfOne)!ConfigExact /\ Starts(StartupOfOne)!BackendDecided /\ Starts(StartupOfOne)!LedgerExact
         /\ Starts(StartupOfOne)!ExitExact /\ Starts(StartupOfOne)!DevelopmentStarts

\* MemoryStore: what is gone does not come back.
GoneForGood == Memories!GoneForGood

\* AlertMonitor: what is breached when a status is stored or a rule made has an
\* alert, one, and it is stored; silence that grows later has none.
AlertsExact ==
  /\ part = "alertsOfTwo" => AlertsOfTwo!BreachRaised /\ AlertsOfTwo!RaisedOnce /\ AlertsOfTwo!AlertsStored
  /\ part = "alertsOfOne" => AlertsOfOne!BreachRaised /\ AlertsOfOne!RaisedOnce /\ AlertsOfOne!AlertsStored

\* What is kept, counted and decided is what happened.  AuditLog: secrets under
\* known names are redacted, ids lead to their events, the retention keeps what it must;
\* AlertMonitor: an alert has its trail; EgressGateway: every request is in the
\* log, dropped or purged; MetricSeries: a series and its summary hold what the
\* samples say; MetricsRegistry: nothing that is measured is lost;
\* RequestPipeline: every answer is counted once; AdminConsole: a snapshot shows
\* what there was.  FileStore: a path leads where its names do, and a copy is
\* one; EgressGateway: the decision is the one the rules make; HttpRoutes: one
\* rule decides about a request, and the roles ask for what they hold.
HistoryExact ==
  /\ part = "memoryLog" => MemoryLog!SecretsRedacted /\ MemoryLog!IdsExact
       /\ MemoryLog!RetentionExact /\ MemoryLog!ExportExact
  /\ part = "postgresLog" => PostgresLog!SecretsRedacted /\ PostgresLog!IdsExact
       /\ PostgresLog!RetentionExact /\ PostgresLog!ExportExact
  /\ part = "alertsOfTwo" => AlertsOfTwo!TrailExact
  /\ part = "alertsOfOne" => AlertsOfOne!TrailExact
  /\ part = "network" => Net!TrafficAccounted /\ Net!DecisionExact
  /\ part = "series" => Series!SeriesExact
  /\ part = "metrics" => Metrics!HistogramExact /\ Metrics!NothingLost
  /\ part = "pipeline" => Pipeline!CountedExact
  /\ part = "console" => Console!SnapshotExact /\ Console!ConfigWhole
  /\ part = "filesOfTwo" => FilesOfTwo!WorkspaceConfined /\ FilesOfTwo!CopyExact
  /\ part = "filesOfOne" => FilesOfOne!WorkspaceConfined /\ FilesOfOne!CopyExact
  /\ part = "routes" => Routes!OneRule /\ Routes!RolesHold

\* RequestPipeline: a handler is reached over a rule, a token and a permission
\* that held.
EntryAuthorized == part = "pipeline" => Pipeline!EntryAuthorized

\* RequestPipeline: what is refused leaves a trace.
DenialsTraced == Pipeline!DenialsTraced

\* RequestPipeline: a WebSocket is made.
UpgradeServed == Pipeline!UpgradeServed

\* HttpRoutes: what a handler does, some role may ask for.
RoutesServed == part = "routes" => Routes!RoutesServed

\* AdminConsole: the overview counts all agents and tasks.
CountsWhole == part = "console" => Console!CountsWhole

-----------------------------------------------------------------------------
(* What holds for all values of the constants. *)

\* The part that moves is as its own invariant says.
PartsInv ==
  /\ part = "cloud" => CloudInv
  /\ part = "memories" => MemoryInv
  /\ part = "marketOfTwo" => MarketInv(MarketOfTwo)
  /\ part = "marketOfOne" => MarketInv(MarketOfOne)
  /\ part = "goals" => GoalsInv
  /\ part = "pipeline" => PipeInv
  /\ part = "startupOfTwo" => StartupInv(StartupOfTwo)
  /\ part = "startupOfOne" => StartupInv(StartupOfOne)
  /\ part = "filesOfTwo" => FilesInv(TwoFiles)
  /\ part = "filesOfOne" => FilesInv(OneFiles)
  /\ part = "alertsOfTwo" => AlertsInv(TwoAlerts)
  /\ part = "alertsOfOne" => AlertsInv(OneAlerts)

LEMMA PartsInit == Init => PartsInv
<1> SUFFICES ASSUME Init PROVE PartsInv
  OBVIOUS
<1>1. Cloud!Init /\ Memories!Init /\ Goals!Init /\ Pipeline!Init
  BY DEF Init
<1>2. /\ part = "marketOfTwo" => Market(MarketOfTwo)!Init
      /\ part = "marketOfOne" => Market(MarketOfOne)!Init
      /\ part = "startupOfTwo" => Starts(StartupOfTwo)!Init
      /\ part = "startupOfOne" => Starts(StartupOfOne)!Init
      /\ part = "filesOfTwo" => FilesOfTwo!Init
      /\ part = "filesOfOne" => FilesOfOne!Init
      /\ part = "alertsOfTwo" => AlertsOfTwo!Init
      /\ part = "alertsOfOne" => AlertsOfOne!Init
  BY DEF Init
<1> QED
  BY <1>1, <1>2, CloudInit, MemoryInit, GoalsInit, PipeInit, MarketInit, StartupInit, FilesOfTwoInit,
     FilesOfOneInit, AlertsOfTwoInit, AlertsOfOneInit, MarketAssumption, StartupAssumption,
     FilesAssumption DEF PartsInv

\* A step is one of the part that moves.
LEMMA PartsMove ==
  ASSUME Next
  PROVE  /\ part' = part
         /\ part = "cloud" => Cloud!Next
         /\ part = "memories" => Memories!Next
         /\ part # "memories" => UNCHANGED memoryVars
         /\ part = "marketOfTwo" => Market(MarketOfTwo)!Next
         /\ part = "marketOfOne" => Market(MarketOfOne)!Next
         /\ part = "goals" => Goals!Next
         /\ part = "pipeline" => Pipeline!Next
         /\ part = "startupOfTwo" => Starts(StartupOfTwo)!Next
         /\ part = "startupOfOne" => Starts(StartupOfOne)!Next
         /\ part = "filesOfTwo" => FilesOfTwo!Next
         /\ part = "filesOfOne" => FilesOfOne!Next
         /\ part = "alertsOfTwo" => AlertsOfTwo!Next
         /\ part = "alertsOfOne" => AlertsOfOne!Next
<1>1. CASE CloudNext
  BY <1>1 DEF CloudNext
<1>2. CASE FilesNext
  BY <1>2 DEF FilesNext
<1>3. CASE NetNext
  BY <1>3 DEF NetNext
<1>4. CASE AuditNext
  BY <1>4 DEF AuditNext
<1>5. CASE AlertsNext
  BY <1>5 DEF AlertsNext
<1>6. CASE SeriesNext
  BY <1>6 DEF SeriesNext
<1>7. CASE MetricsNext
  BY <1>7 DEF MetricsNext
<1>8. CASE PipelineNext
  BY <1>8 DEF PipelineNext
<1>9. CASE MemoriesNext
  BY <1>9 DEF MemoriesNext
<1>10. CASE MarketNext
  BY <1>10 DEF MarketNext
<1>11. CASE RoutesNext
  BY <1>11 DEF RoutesNext
<1>12. CASE StartupNext
  BY <1>12 DEF StartupNext
<1>13. CASE ConsoleNext
  BY <1>13 DEF ConsoleNext
<1> QED
  BY <1>1, <1>2, <1>3, <1>4, <1>5, <1>6, <1>7, <1>8, <1>9, <1>10, <1>11, <1>12, <1>13 DEF Next

LEMMA PartsStep == PartsInv /\ [Next]_vars => PartsInv'
<1> SUFFICES ASSUME PartsInv, [Next]_vars PROVE PartsInv'
  OBVIOUS
<1>1. CASE Next
  <2>1. part' = part
    BY <1>1, PartsMove
  <2>2. part = "cloud" => CloudInv'
    BY <1>1, PartsMove, CloudStep DEF PartsInv
  <2>3. part = "memories" => MemoryInv'
    BY <1>1, PartsMove, MemoryStep DEF PartsInv
  <2>4. part = "marketOfTwo" => MarketInv(MarketOfTwo)'
    BY <1>1, PartsMove, MarketStep, MarketAssumption DEF PartsInv
  <2>5. part = "marketOfOne" => MarketInv(MarketOfOne)'
    BY <1>1, PartsMove, MarketStep, MarketAssumption DEF PartsInv
  <2>6. part = "goals" => GoalsInv'
    BY <1>1, PartsMove, GoalsStep DEF PartsInv
  <2>7. part = "pipeline" => PipeInv'
    BY <1>1, PartsMove, PipeStep DEF PartsInv
  <2>8. part = "startupOfTwo" => StartupInv(StartupOfTwo)'
    BY <1>1, PartsMove, StartupStep, StartupAssumption, VersionsCount DEF PartsInv
  <2>9. part = "startupOfOne" => StartupInv(StartupOfOne)'
    BY <1>1, PartsMove, StartupStep, StartupAssumption, VersionsCount DEF PartsInv
  <2>10. part = "filesOfTwo" => FilesInv(TwoFiles)'
    BY <1>1, PartsMove, FilesOfTwoStep, FilesAssumption DEF PartsInv
  <2>11. part = "filesOfOne" => FilesInv(OneFiles)'
    BY <1>1, PartsMove, FilesOfOneStep, FilesAssumption DEF PartsInv
  <2>12. part = "alertsOfTwo" => AlertsInv(TwoAlerts)'
    BY <1>1, PartsMove, AlertsOfTwoStep, AlertsAssumption DEF PartsInv
  <2>13. part = "alertsOfOne" => AlertsInv(OneAlerts)'
    BY <1>1, PartsMove, AlertsOfOneStep, AlertsAssumption DEF PartsInv
  <2> QED
    BY <2>1, <2>2, <2>3, <2>4, <2>5, <2>6, <2>7, <2>8, <2>9, <2>10, <2>11, <2>12, <2>13 DEF PartsInv
<1>2. CASE UNCHANGED vars
  <2>1. /\ part' = part /\ UNCHANGED tasks
        /\ UNCHANGED cloudVars /\ UNCHANGED memoryVars /\ UNCHANGED marketVars
        /\ UNCHANGED pipeVars /\ UNCHANGED startVars
        /\ UNCHANGED fileVars /\ UNCHANGED alertVars
    BY <1>2 DEF vars, routeVars
  <2>2. part = "cloud" => CloudInv'
    BY <2>1, CloudSame DEF PartsInv
  <2>3. part = "memories" => MemoryInv'
    BY <2>1, MemorySame DEF PartsInv
  <2>4. part = "marketOfTwo" => MarketInv(MarketOfTwo)'
    BY <2>1, MarketSame DEF PartsInv
  <2>5. part = "marketOfOne" => MarketInv(MarketOfOne)'
    BY <2>1, MarketSame DEF PartsInv
  <2>6. part = "goals" => GoalsInv'
    BY <2>1, GoalsSame DEF PartsInv
  <2>7. part = "pipeline" => PipeInv'
    BY <2>1, PipeSame DEF PartsInv
  <2>8. part = "startupOfTwo" => StartupInv(StartupOfTwo)'
    BY <2>1, StartupSame DEF PartsInv
  <2>9. part = "startupOfOne" => StartupInv(StartupOfOne)'
    BY <2>1, StartupSame DEF PartsInv
  <2>10. part = "filesOfTwo" => FilesInv(TwoFiles)'
    BY <2>1, FilesSame DEF PartsInv
  <2>11. part = "filesOfOne" => FilesInv(OneFiles)'
    BY <2>1, FilesSame DEF PartsInv
  <2>12. part = "alertsOfTwo" => AlertsInv(TwoAlerts)'
    BY <2>1, AlertsSame DEF PartsInv
  <2>13. part = "alertsOfOne" => AlertsInv(OneAlerts)'
    BY <2>1, AlertsSame DEF PartsInv
  <2> QED
    BY <2>1, <2>2, <2>3, <2>4, <2>5, <2>6, <2>7, <2>8, <2>9, <2>10, <2>11, <2>12, <2>13 DEF PartsInv
<1> QED
  BY <1>1, <1>2

\* In every behaviour the part that moves keeps its invariant.
THEOREM PartsInvariant == Spec => []PartsInv
BY PartsInit, PartsStep, PTL DEF Spec

\* Environments, their records and directories go together, memories are
\* counted and updated whole - by what touched them and by the fields that requests
\* gave last -, installs and ratings are exact, templates have the fields given
\* last, and a task of a goal ends as its subtasks do, for any callers and ids.
THEOREM RecordsAreKept == Spec => []RecordsKept
<1>1. PartsInv => RecordsKept
  BY CloudGives, MarketGives, GoalsGives, MemoryAssumption
     DEF PartsInv, RecordsKept, MemoryInv
<1> QED
  BY <1>1, PartsInvariant, PTL

\* For any files, environments, faults and number of instances that start
\* beside one another: what is configured is what runs, each migration runs
\* once, the backend is the one that was decided for, and the exit is clean.
THEOREM StartsAreExact == Spec => []StartsExact
<1>1. PartsInv => StartsExact
  BY StartupGives, StartupAssumption, VersionsCount DEF PartsInv, StartsExact
<1> QED
  BY <1>1, PartsInvariant, PTL

\* Whatever the rules of the table and the roles are: a handler is reached over
\* a rule, a token and a permission that held since the request came.
THEOREM EntryIsAuthorized == Spec => []EntryAuthorized
<1>1. PartsInv => EntryAuthorized
  BY PipeGives DEF PartsInv, EntryAuthorized
<1> QED
  BY <1>1, PartsInvariant, PTL

\* Whatever paths are asked for and whatever calls run beside: in a tree without
\* symbolic links, files and directories outside the base directory are neither
\* read nor changed.
THEOREM AgentsAreConfined == Spec => []AgentsConfined
<1>1. PartsInv => AgentsConfined
  BY FilesOfTwoGives, FilesOfOneGives, FilesAssumption DEF PartsInv, AgentsConfined
<1> QED
  BY <1>1, PartsInvariant, PTL

\* For any rules, of load, failure and silence, any thresholds, reports and
\* operators, and however time goes by: what the status breached when it was
\* stored, or a later rule was made, has an alert; of a type that was not opened
\* again there is one; and the repository holds them all.
THEOREM AlertsAreExact == Spec => []AlertsExact
<1>1. PartsInv => AlertsExact
  BY AlertsOfTwoGives, AlertsOfOneGives, AlertsAssumption DEF PartsInv, AlertsExact
<1> QED
  BY <1>1, PartsInvariant, PTL

\* An id that is gone from the memory store does not come back, whatever calls
\* had read it before.
THEOREM WhatIsGoneStaysGone == Spec => GoneForGood
<1>1. PartsInv /\ [Next]_vars => [\A i \in eUsed : i \notin DOMAIN entries => i \notin DOMAIN entries']_(Memories!vars)
  <2> SUFFICES ASSUME PartsInv, [Next]_vars, ~UNCHANGED Memories!vars
               PROVE  \A i \in eUsed : i \notin DOMAIN entries => i \notin DOMAIN entries'
    OBVIOUS
  <2>1. UNCHANGED memoryVars => UNCHANGED Memories!vars
    BY DEF memoryVars, Memories!vars
  <2>2. UNCHANGED vars => UNCHANGED memoryVars
    BY DEF vars
  <2>3. Next
    BY <2>1, <2>2
  <2>4. part = "memories" /\ Memories!Next
    BY <2>1, <2>3, PartsMove
  <2> QED
    BY <2>4, MemoryGone DEF PartsInv, MemoryInv
<1> QED
  BY <1>1, PartsInvariant, PTL DEF Spec, GoneForGood, Memories!GoneForGood
=============================================================================
