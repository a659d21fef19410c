------------------------------- MODULE Startup -------------------------------
(***************************************************************************)
(* How an instance comes up and goes down: cmd/agentbot/main.go,           *)
(* internal/config, the choice of the backends in internal/app, and the    *)
(* migrations of internal/storage.  The instances have one configuration   *)
(* and share a database; each may be killed between any two steps.         *)
(***************************************************************************)
EXTENDS Naturals, FiniteSets, FiniteSetsExt

CONSTANTS Instance,
          File,        \* configuration files: [kind, values]
          Environ,     \* environments: partial functions like the values of a file
          World,       \* what is there at first: [db, redis, disk, port]
          Version,     \* the embedded migrations, 1..n
          MaxStarts,   \* starts of all instances together
          MaxBreaks,   \* changes of the world
          MaxRequests  \* requests of one life

VARIABLES file, environ, world,
          inst,     \* the instances
          schema,   \* how often the script of a version was committed
          ledger,   \* schema_migrations
          used      \* starts and breaks so far

vars == <<file, environ, world, inst, schema, ledger, used>>

-----------------------------------------------------------------------------
(* Configuration.  What a layer sets is <<value>>, or <<>> when it cannot be *)
(* read as the type of its field.                                            *)
Durations == {"readTimeout"}
Ports == {"port", "metricsPort"}
PortNumber == 1..65535

Default ==
  [jwtSecret |-> "", dbHost |-> "localhost", dbPassword |-> "", redisHost |-> "localhost", redisPort |-> 6379,
   redisDB |-> 0, ssoIssuer |-> "", ssoSecret |-> "", fallback |-> FALSE, port |-> 8080, metrics |-> TRUE, metricsPort |-> 9090,
   readTimeout |-> 30]

DevelopmentDefault ==
  [Default EXCEPT !.jwtSecret = "long", !.dbHost = "", !.redisHost = "", !.redisPort = 0]

Override(cfg, layer) ==
  [f \in DOMAIN cfg |-> IF f \in DOMAIN layer /\ layer[f] # <<>> THEN layer[f][1] ELSE cfg[f]]

\* applyFile: a file that is not there, an unknown key or a value of the wrong
\* type is an error; a duration is a string, and kept as it was if it is none.
FileRead(f) ==
  /\ f.kind \notin {"missing", "unknown key"}
  /\ \A k \in DOMAIN f.values : f.values[k] = <<>> => k \in Durations
applyFile(cfg, f) == Override(cfg, f.values)

\* Mutant: a value that cannot be read is skipped, as a duration in the file is.
EnvReadSkips(cfg, e) ==
  \A k \in DOMAIN e \cap Ports : e[k] = <<>> \/ e[k][1] = cfg[k] \/ e[k][1] \in PortNumber

\* applyEnv: every value is read, and all errors are reported; a port that
\* changes must be one.
EnvRead(cfg, e) ==
  \A k \in DOMAIN e :
    /\ e[k] # <<>>
    /\ k \in Ports => e[k][1] = cfg[k] \/ e[k][1] \in PortNumber
applyEnv(cfg, e) == Override(cfg, e)

PlaceholderSecret(v) == v \in {"", "placeholder"}
Validate(cfg) ==
  /\ ~PlaceholderSecret(cfg.jwtSecret) /\ cfg.jwtSecret # "short"
  /\ cfg.dbHost # "" => ~PlaceholderSecret(cfg.dbPassword)
  /\ cfg.ssoIssuer # "" => ~PlaceholderSecret(cfg.ssoSecret)
  /\ cfg.port \in PortNumber
  /\ cfg.redisHost # "" => cfg.redisPort \in PortNumber
  /\ cfg.metrics => cfg.metricsPort \in PortNumber /\ cfg.metricsPort # cfg.port
  /\ cfg.readTimeout > 0

-----------------------------------------------------------------------------
Handle == {"none", "open", "closed"}
Down == [phase |-> "down", cfg |-> Default, db |-> "none", redis |-> "none", read |-> {}, tx |-> 0,
         backends |-> <<"", "">>, hub |-> "idle", http |-> "none", failed |-> FALSE, metrics |-> "none",
         signal |-> FALSE, handled |-> 0, active |-> 0, exit |-> 9]

Init ==
  /\ file \in File /\ environ \in Environ /\ world \in World
  /\ inst = [i \in Instance |-> Down]
  /\ schema = [v \in Version |-> 0] /\ ledger = {}
  /\ used = [starts |-> 0, breaks |-> 0]

Set(i, new) == inst' = [inst EXCEPT ![i] = new]
OnlyInst == UNCHANGED <<file, environ, world, schema, ledger, used>>

\* NewWithConfig returns an error, run ends: what was opened is closed, and the
\* database rolls an open transaction back.
Closed(h) == IF h = "open" THEN "closed" ELSE h
Refused(new) ==
  [new EXCEPT !.phase = "refused", !.exit = 1, !.tx = 0, !.db = Closed(new.db), !.redis = Closed(new.redis)]
Refuse(i) == Set(i, Refused(inst[i]))

\* config.Load, or the development configuration of New.
Load(i) ==
  /\ inst[i].phase = "down" /\ used.starts < MaxStarts
  /\ LET fromFile == applyFile(Default, file)
         cfg == applyEnv(fromFile, environ)
         ok == FileRead(file) /\ EnvRead(fromFile, environ) /\ Validate(cfg)
     IN Set(i, IF ok THEN [Down EXCEPT !.phase = "loaded", !.cfg = cfg] ELSE Refused([Down EXCEPT !.cfg = cfg]))
  /\ used' = [used EXCEPT !.starts = @ + 1]
  /\ UNCHANGED <<file, environ, world, schema, ledger>>

New(i) ==
  /\ inst[i].phase = "down" /\ used.starts < MaxStarts
  /\ Set(i, [Down EXCEPT !.phase = "loaded", !.cfg = DevelopmentDefault])
  /\ used' = [used EXCEPT !.starts = @ + 1]
  /\ UNCHANGED <<file, environ, world, schema, ledger>>

\* NewWithConfig validates again and makes the directory.
NewWithConfig(i) ==
  /\ inst[i].phase = "loaded"
  /\ IF Validate(inst[i].cfg) /\ world.disk THEN Set(i, [inst[i] EXCEPT !.phase = "storage"]) ELSE Refuse(i)
  /\ OnlyInst

\* selectStorage: Open looks whether the database answers.
SelectStorage(i) ==
  /\ inst[i].phase = "storage"
  /\ LET me == inst[i]
         Memory == [me EXCEPT !.phase = "redis", !.backends[1] = "memory"]
     IN Set(i, IF me.cfg.dbHost = "" THEN Memory
               ELSE IF world.db THEN [me EXCEPT !.phase = "ledger", !.db = "open"]
               ELSE IF me.cfg.fallback THEN Memory
               ELSE Refused(me))
  /\ OnlyInst

\* Migrate creates the ledger and reads it.
AppliedVersions(i) ==
  /\ inst[i].phase = "ledger"
  /\ IF world.db THEN Set(i, [inst[i] EXCEPT !.phase = "migrate", !.read = ledger]) ELSE Refuse(i)
  /\ OnlyInst

\* Mutant: a ledger without a primary key.
ApplyMigrationAgain(i) ==
  /\ inst[i].phase = "migrate" /\ inst[i].tx = 0 /\ Version \ inst[i].read # {}
  /\ IF world.db THEN Set(i, [inst[i] EXCEPT !.tx = Min(Version \ inst[i].read)]) ELSE Refuse(i)
  /\ OnlyInst

\* applyMigration runs the script and records the version, in one transaction:
\* the INSERT waits for one of the same version that has not ended, and fails
\* if that was committed.
ApplyMigration(i) ==
  /\ inst[i].phase = "migrate" /\ inst[i].tx = 0 /\ Version \ inst[i].read # {}
  /\ LET v == Min(Version \ inst[i].read)
     IN /\ world.db => \A j \in Instance : inst[j].tx # v
        /\ IF world.db /\ v \notin ledger THEN Set(i, [inst[i] EXCEPT !.tx = v]) ELSE Refuse(i)
  /\ OnlyInst

\* COMMIT; its answer may get lost.
CommitMigration(i) ==
  /\ inst[i].tx # 0
  /\ LET v == inst[i].tx
         Committed == /\ schema' = [schema EXCEPT ![v] = @ + 1] /\ ledger' = ledger \cup {v}
     IN \/ world.db /\ Committed /\ Set(i, [inst[i] EXCEPT !.tx = 0, !.read = @ \cup {v}])
        \/ world.db /\ Committed /\ Refuse(i)
        \/ ~world.db /\ Refuse(i) /\ UNCHANGED <<schema, ledger>>
  /\ UNCHANGED <<file, environ, world, used>>

Migrated(i) ==
  /\ inst[i].phase = "migrate" /\ inst[i].tx = 0 /\ Version \subseteq inst[i].read
  /\ Set(i, [inst[i] EXCEPT !.phase = "redis", !.backends[1] = "postgres"])
  /\ OnlyInst

\* New connects, and only if there is a password or a database to select does it
\* ask anything: a server that takes connections and answers nothing ("mute")
\* fails New then, and Ping otherwise.  The number stands for the password too.
Unreachable(cfg) == world.redis = "down" \/ (world.redis = "mute" /\ cfg.redisDB # 0)

\* selectRedis: without a client there may be a fallback; when Ping fails there is
\* none, and the client is closed.
SelectRedis(i) ==
  /\ inst[i].phase = "redis"
  /\ LET me == inst[i]
     IN Set(i, IF me.cfg.redisHost = "" \/ (Unreachable(me.cfg) /\ me.cfg.fallback)
               THEN [me EXCEPT !.phase = "build", !.backends[2] = "memory"]
               ELSE IF world.redis = "up" THEN [me EXCEPT !.phase = "build", !.redis = "open", !.backends[2] = "redis"]
               ELSE Refused([me EXCEPT !.redis = IF world.redis = "mute" THEN "open" ELSE @]))
  /\ OnlyInst

\* build opens the directory of the files once more.
build(i) ==
  /\ inst[i].phase = "build"
  /\ IF world.disk THEN Set(i, [inst[i] EXCEPT !.phase = "serve", !.http = "starting",
                                               !.metrics = IF inst[i].cfg.metrics THEN "starting" ELSE "none"])
     ELSE Refuse(i)
  /\ OnlyInst

-----------------------------------------------------------------------------
(* run: the two servers, and what ends them. *)

\* The goroutine of the server; once Shutdown was called, it does not listen.
Listen(i) ==
  /\ inst[i].http = "starting" /\ inst[i].phase \in {"serve", "stopping"}
  /\ Set(i, IF inst[i].phase = "stopping" THEN [inst[i] EXCEPT !.http = "closed"]
            ELSE IF world.port THEN [inst[i] EXCEPT !.http = "listening"]
            ELSE [inst[i] EXCEPT !.http = "closed", !.failed = TRUE])
  /\ OnlyInst
\* The metrics server; that it cannot listen is only logged.
ListenMetrics(i) ==
  /\ inst[i].metrics = "starting" /\ inst[i].phase \in {"serve", "stopping"}
  /\ \E to \in {"closed"} \cup (IF inst[i].phase = "serve" THEN {"listening"} ELSE {}) :
       Set(i, [inst[i] EXCEPT !.metrics = to])
  /\ OnlyInst

Accept(i) ==
  /\ inst[i].http = "listening" /\ inst[i].handled < MaxRequests
  /\ Set(i, [inst[i] EXCEPT !.handled = @ + 1, !.active = @ + 1])
  /\ OnlyInst
Answer(i) ==
  /\ inst[i].active > 0
  /\ Set(i, [inst[i] EXCEPT !.active = @ - 1])
  /\ OnlyInst
Signal(i) ==
  /\ inst[i].phase = "serve" /\ ~inst[i].signal
  /\ Set(i, [inst[i] EXCEPT !.signal = TRUE])
  /\ OnlyInst

\* The select takes one of what is there; Shutdown closes the listener.
Quit(i) ==
  /\ inst[i].phase = "serve"
  /\ \E code \in (IF inst[i].signal THEN {0} ELSE {}) \cup (IF inst[i].failed THEN {1} ELSE {}) :
       Set(i, [inst[i] EXCEPT !.phase = "stopping", !.exit = code,
                              !.http = IF @ = "listening" THEN "closed" ELSE @])
  /\ OnlyInst
\* Shutdown waits for the requests, but half a minute at most: those that are
\* left are cut off.  Then the metrics server and the hub are stopped; the handles
\* of the backends stay open.
Shutdown(i) ==
  /\ inst[i].phase = "stopping"
  /\ Set(i, [inst[i] EXCEPT !.phase = "exited", !.metrics = "closed", !.hub = "stopped", !.http = "closed"])
  /\ OnlyInst

\* The process is gone, killed or at its end; it may be started again.
Gone(i) ==
  /\ inst[i].phase # "down"
  /\ Set(i, Down)
  /\ OnlyInst

\* Something the instances rely on goes away.
Break ==
  /\ used.breaks < MaxBreaks
  /\ \/ world.db /\ world' = [world EXCEPT !.db = FALSE]
     \/ world.disk /\ world' = [world EXCEPT !.disk = FALSE]
  /\ used' = [used EXCEPT !.breaks = @ + 1]
  /\ UNCHANGED <<file, environ, inst, schema, ledger>>

Next ==
  \/ \E i \in Instance :
       \/ Load(i) \/ New(i) \/ NewWithConfig(i) \/ SelectStorage(i) \/ AppliedVersions(i)
       \/ ApplyMigration(i) \/ CommitMigration(i) \/ Migrated(i) \/ SelectRedis(i) \/ build(i)
       \/ Listen(i) \/ ListenMetrics(i) \/ Accept(i) \/ Answer(i) \/ Signal(i) \/ Quit(i)
       \/ Shutdown(i) \/ Gone(i)
  \/ Break

Spec == Init /\ [][Next]_vars

-----------------------------------------------------------------------------
TypeOK ==
  /\ file \in File /\ environ \in Environ
  /\ schema \in [Version -> 0..MaxStarts] /\ ledger \subseteq Version
  /\ \A i \in Instance :
       /\ inst[i].db \in Handle /\ inst[i].redis \in Handle /\ inst[i].tx \in Version \cup {0}
       /\ inst[i].active \in 0..MaxRequests /\ inst[i].exit \in {0, 1, 9}

Assembled(i) == inst[i].phase \in {"build", "serve", "stopping", "exited"}

\* Load: what is deployed takes effect or is refused.  A field has the value of
\* the last layer that sets one, but for a duration in the file that is none;
\* and no secret is missing.
ConfigExact ==
  \A i \in Instance : inst[i].phase \notin {"down", "refused"} /\ inst[i].cfg # DevelopmentDefault =>
    LET cfg == inst[i].cfg
        Says(layer, f) == f \in DOMAIN layer /\ layer[f] # <<>>
    IN /\ \A f \in DOMAIN cfg :
            cfg[f] = IF Says(environ, f) THEN environ[f][1]
                     ELSE IF Says(file.values, f) THEN file.values[f][1] ELSE Default[f]
       /\ \A f \in DOMAIN environ : environ[f] # <<>>
       /\ "long" = cfg.jwtSecret /\ (cfg.dbHost = "" \/ cfg.dbPassword = "long")

\* selectStorage, selectRedis: an instance that serves has all its state where
\* its configuration says, or in memory if that is allowed, and never runs on
\* an older schema; one that refuses leaves no connection behind.
BackendDecided ==
  \A i \in Instance :
    /\ Assembled(i) =>
         LET cfg == inst[i].cfg IN
         /\ inst[i].backends[1] = "postgres" <=> inst[i].db = "open"
         /\ inst[i].backends[2] = "redis" <=> inst[i].redis = "open"
         /\ cfg.dbHost # "" /\ ~cfg.fallback => inst[i].backends[1] = "postgres"
         /\ cfg.redisHost # "" /\ ~cfg.fallback => inst[i].backends[2] = "redis"
         /\ inst[i].backends[1] = "postgres" => ledger = Version
    /\ inst[i].phase = "refused" => inst[i].db # "open" /\ inst[i].redis # "open"

\* Migrate: the ledger says which scripts were run; each was run once, in their
\* order, whoever starts beside and whenever one is killed.
LedgerExact ==
  /\ \A v \in Version : schema[v] = IF v \in ledger THEN 1 ELSE 0
  /\ \A v \in ledger : 1..v \subseteq ledger

\* run: the exit code is 0 only after a signal and 1 only after a failure, though
\* either may come while the other is handled; and the goroutine of the server,
\* however late it is scheduled, leaves no listener behind.
ExitExact ==
  \A i \in Instance :
    /\ inst[i].exit = 0 => inst[i].signal
    /\ inst[i].exit = 1 => inst[i].failed \/ inst[i].phase = "refused"
    /\ inst[i].phase = "exited" => inst[i].http = "closed"

\* Whoever is served has a hub that delivers.
HubServes == \A i \in Instance : inst[i].phase = "serve" => inst[i].hub = "running"

\* New: the development configuration never fails its own validation, so that
\* only the disk stops it.
DevelopmentStarts ==
  \A i \in Instance : inst[i].phase = "refused" /\ inst[i].cfg = DevelopmentDefault => ~world.disk
=============================================================================
