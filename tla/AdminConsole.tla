----------------------------- MODULE AdminConsole -----------------------------
(***************************************************************************)
(* The console of internal/admin over the sources internal/app adapts for  *)
(* it: a snapshot reads one module after the other while they go on        *)
(* changing, and some of them may not answer.  What a module holds is a    *)
(* number of things by class (state, severity, action, role, effect).      *)
(***************************************************************************)
EXTENDS Naturals, FiniteSets, FiniteSetsExt, Sequences

CONSTANTS Class,       \* classes of things
          Content,     \* what the modules hold at first: [Source -> [Class -> Nat]]
          PageSize,    \* overviewPageSize
          ServiceCap,  \* the most agents or tasks their services list at once
          MaxOverview, \* maxOverviewAgents
          RecentLimit,
          Query,       \* sets of sections that are asked for
          Update,      \* requests for the configuration: [title, flags, valid]
          MaxChanges   \* things that appear, sources that fail, updates

VARIABLES content,     \* Source -> Class -> Nat
          failing,     \* the sources that return errors
          config,      \* the configuration of the console
          op,          \* the snapshot that is made
          changes,     \* how much changed so far
          history      \* configurations there were; contents and failures since the snapshot began

vars == <<content, failing, config, op, changes, history>>

Source == {"agents", "tasks", "monitor", "audit", "users", "authz", "rules", "stats"}
AllSections == {"overview", "agents", "tasks", "alerts", "audit", "users", "network", "plugins"}

Size(bag) == MapThenSumSet(LAMBDA c : bag[c], Class)
None == [c \in Class |-> 0]
Plus(a, b) == [c \in Class |-> a[c] + b[c]]

\* The pages a module may answer with: any `size` of what it holds but `skip`.
Least(a, b) == IF a < b THEN a ELSE b
Pages(bag, skip, size) ==
  LET n == IF skip >= Size(bag) THEN 0 ELSE Least(size, Size(bag) - skip)
  IN {p \in [Class -> 0..n] : Size(p) = n /\ \A c \in Class : p[c] <= bag[c]}

\* Normalize: no section asked for means all of them.
Normalize(sections) == IF sections = {} THEN AllSections ELSE sections

\* The reads of a snapshot in their order, and the sections that need each.
Reads == <<"agents", "monitoring", "tasks", "alerts", "audit count", "audit recent", "users", "authz",
           "network", "done">>
Wanted(read, sections) ==
  CASE read = "agents" -> sections \cap {"agents", "overview"} # {}
    [] read = "monitoring" -> "agents" \in sections
    [] read = "tasks" -> sections \cap {"tasks", "overview"} # {}
    [] read = "alerts" -> sections \cap {"alerts", "overview"} # {}
    [] read = "audit count" -> sections \cap {"audit", "overview"} # {}
    [] read = "audit recent" -> "audit" \in sections
    [] read \in {"users", "authz"} -> "users" \in sections
    [] read = "network" -> "network" \in sections
    [] OTHER -> TRUE
After(k, sections) == Min({j \in DOMAIN Reads : j > k /\ Wanted(Reads[j], sections)})

Idle == [pc |-> "idle"]
At(read) == op.pc = "reading" /\ Reads[op.read] = read
Ok(source) == source \notin failing

\* The read is done: `snap` holds what is known of the snapshot.
Next_(k, snap) == op' = [op EXCEPT !.read = After(k, op.sections), !.snap = snap]
Failed(snap, section) == [snap EXCEPT !.errors = @ \cup {section}]

Init ==
  /\ content \in Content /\ failing = {} /\ op = Idle /\ changes = 0
  /\ config = [title |-> "AgentBot Admin", flags |-> {}]
  /\ history = [configs |-> {config}, held |-> {}, failed |-> {}]

Same == UNCHANGED <<content, failing, config, changes, history>>

\* Snapshot copies the configuration, then reads.
Snapshot(q) ==
  /\ op = Idle
  /\ LET sections == Normalize(q)
     IN op' = [pc |-> "reading", sections |-> sections, read |-> After(0, sections), offset |-> 0,
               config |-> config,
               snap |-> [agents |-> None, tasks |-> None, alerts |-> None, monitoring |-> <<>>,
                         count |-> 0, audit |-> <<>>, users |-> <<>>,
                         network |-> <<>>, errors |-> {}, overview |-> <<>>]]
  /\ history' = [history EXCEPT !.held = {content}, !.failed = failing]
  /\ UNCHANGED <<content, failing, config, changes>>

\* fetchAgents: pages until one is short; the service lists ServiceCap at most.
fetchAgents ==
  /\ At("agents")
  /\ IF ~Ok("agents") THEN Next_(op.read, Failed([op.snap EXCEPT !.agents = None], "agents"))
     ELSE \E p \in Pages(content["agents"], op.offset, Least(PageSize, ServiceCap)) :
       LET got == Plus(op.snap.agents, p)
           snap == [op.snap EXCEPT !.agents = got]
       IN IF Size(p) < PageSize \/ Size(got) >= MaxOverview THEN Next_(op.read, snap)
          ELSE op' = [op EXCEPT !.offset = @ + PageSize, !.snap = snap]
  /\ Same

\* fetchMonitorSummary: adminMonitorSource answers, if with less.
fetchMonitorSummary ==
  /\ At("monitoring")
  /\ Next_(op.read, [op.snap EXCEPT !.monitoring = <<[degraded |-> ~Ok("monitor")]>>])
  /\ Same

\* fetchTasks asks for the same page again and again.
fetchTasks ==
  /\ At("tasks")
  /\ IF ~Ok("tasks") THEN Next_(op.read, Failed([op.snap EXCEPT !.tasks = None], "tasks"))
     ELSE \E p \in Pages(content["tasks"], 0, Least(PageSize, ServiceCap)) :
       LET got == Plus(op.snap.tasks, p)
           snap == [op.snap EXCEPT !.tasks = got]
       IN IF Size(p) < PageSize \/ Size(got) >= MaxOverview THEN Next_(op.read, snap)
          ELSE op' = [op EXCEPT !.snap = snap]
  /\ Same

fetchAlerts ==
  /\ At("alerts")
  /\ Next_(op.read, IF Ok("monitor") THEN [op.snap EXCEPT !.alerts = content["monitor"]]
                    ELSE Failed(op.snap, "alerts"))
  /\ Same

fetchAuditCount ==
  /\ At("audit count")
  /\ Next_(op.read, IF Ok("audit") THEN [op.snap EXCEPT !.count = Size(content["audit"])]
                    ELSE Failed(op.snap, "audit"))
  /\ Same

\* fetchAuditRecent and buildAuditDigest: one more than is shown tells whether
\* there are more; the classes count that one, too.  The total is the larger of
\* what was counted and what was read.
fetchAuditRecent ==
  /\ At("audit recent")
  /\ LET Digest(p) ==
           <<[total |-> IF op.snap.count < Size(p) THEN Size(p) ELSE op.snap.count, by |-> p,
              truncated |-> Size(p) > RecentLimit]>>
     IN IF ~Ok("audit") THEN Next_(op.read, Failed([op.snap EXCEPT !.audit = Digest(None)], "audit"))
        ELSE \E p \in Pages(content["audit"], 0, RecentLimit + 1) :
               Next_(op.read, [op.snap EXCEPT !.audit = Digest(p)])
  /\ Same

\* buildUserDigest: the total, and the classes of the first page.
ListUsers ==
  /\ At("users")
  /\ IF ~Ok("users") THEN Next_(op.read + 1, Failed(op.snap, "users"))
     ELSE \E p \in Pages(content["users"], 0, PageSize) :
       Next_(op.read, [op.snap EXCEPT !.users = <<[total |-> Size(content["users"]), by |-> p]>>])
  /\ Same

\* Without the statistics of the authorization the digest is dropped.
AuthzStats ==
  /\ At("authz")
  /\ Next_(op.read, IF Ok("authz") THEN op.snap ELSE Failed([op.snap EXCEPT !.users = <<>>], "users"))
  /\ Same

\* adminNetworkSource: the rules are counted, with the statistics or without.
fetchNetworkSummary ==
  /\ At("network")
  /\ Next_(op.read, [op.snap EXCEPT !.network =
       <<[rules |-> IF Ok("rules") THEN content["rules"] ELSE None, degraded |-> ~(Ok("rules") /\ Ok("stats"))]>>])
  /\ Same

\* Mutant: the overview is built before the users are read.
buildOverviewFirst(snap) ==
  [agents |-> snap.agents, tasks |-> snap.tasks, alerts |-> Size(snap.alerts), audit |-> snap.count,
   degraded |-> snap.errors \ {"users"} # {}]

\* buildOverview counts what was read, and is degraded if a section failed.
buildOverview(snap) ==
  [agents |-> snap.agents, tasks |-> snap.tasks, alerts |-> Size(snap.alerts), audit |-> snap.count,
   degraded |-> snap.errors # {}]

Assemble ==
  /\ At("done")
  /\ op' = [op EXCEPT !.pc = "done",
                      !.snap.overview = IF "overview" \in op.sections THEN <<buildOverview(op.snap)>> ELSE <<>>]
  /\ Same
Answer == op.pc = "done" /\ op' = Idle /\ Same

\* Mutant: the title is set before the flags are looked at.
UpdateConfigInPlace(u) ==
  /\ changes < MaxChanges
  /\ config' = [title |-> u.title, flags |-> IF u.valid THEN u.flags ELSE config.flags]
  /\ history' = [history EXCEPT !.configs = IF u.valid THEN @ \cup {config'} ELSE @]
  /\ changes' = changes + 1
  /\ UNCHANGED <<content, failing, op>>

\* UpdateConfig: on a copy, that takes the place of the configuration if all
\* of the request is valid.
UpdateConfig(u) ==
  /\ changes < MaxChanges
  /\ config' = IF u.valid THEN [title |-> u.title, flags |-> u.flags] ELSE config
  /\ history' = [history EXCEPT !.configs = @ \cup {config'}]
  /\ changes' = changes + 1
  /\ UNCHANGED <<content, failing, op>>

\* The modules go on: a thing more or less, a source that fails or is back.
\* (The console expects errors of every source; those over memory return none.)
Change ==
  /\ changes < MaxChanges
  /\ \/ \E s \in Source, c \in Class : \E n \in {content[s][c] + 1, content[s][c] - 1} \cap Nat :
          content' = [content EXCEPT ![s][c] = n] /\ UNCHANGED failing
     \/ \E s \in Source : failing' = (failing \ {s}) \cup ({s} \ failing) /\ UNCHANGED content
  /\ changes' = changes + 1
  /\ history' = [history EXCEPT !.held = @ \cup {content'}, !.failed = @ \cup failing']
  /\ UNCHANGED <<config, op>>

Next ==
  \/ \E q \in Query : Snapshot(q)
  \/ fetchAgents \/ fetchMonitorSummary \/ fetchTasks \/ fetchAlerts \/ fetchAuditCount \/ fetchAuditRecent
  \/ ListUsers \/ AuthzStats \/ fetchNetworkSummary \/ Assemble \/ Answer
  \/ \E u \in Update : UpdateConfig(u)
  \/ Change

Spec == Init /\ [][Next]_vars

-----------------------------------------------------------------------------
TypeOK ==
  /\ content \in [Source -> [Class -> Nat]] /\ failing \subseteq Source
  /\ op.pc \in {"idle", "reading", "done"}
  /\ op # Idle => op.sections \subseteq AllSections /\ op.snap.errors \subseteq op.sections \cup {"agents", "tasks", "alerts", "audit"}

Within(bag, held, cap) == Size(bag) = Least(cap, Size(held)) /\ \A c \in Class : bag[c] <= held[c]

\* Snapshot: whatever changes or fails meanwhile, a section shows what its
\* module held at some moment of the call, up to what its service lists; one
\* that could not be read has an error and nothing else does, and the overview
\* is degraded exactly then.
SnapshotExact ==
  op.pc = "done" =>
    LET s == op.snap
        Read(section, bag, source, cap) ==
          IF section \in s.errors THEN source \in history.failed /\ bag = None
          ELSE \E h \in history.held : Within(bag, h[source], cap)
    IN /\ Wanted("agents", op.sections) => Read("agents", s.agents, "agents", ServiceCap)
       /\ Wanted("tasks", op.sections) => Read("tasks", s.tasks, "tasks", ServiceCap)
       /\ Wanted("alerts", op.sections) => Read("alerts", s.alerts, "monitor", Size(s.alerts))
       /\ "audit" \in s.errors => "audit" \in history.failed
       /\ "users" \in s.errors => history.failed \cap {"users", "authz"} # {} /\ s.users = <<>>
       /\ "users" \in op.sections \ s.errors =>
            \E h \in history.held : s.users[1].total = Size(h["users"]) /\ Within(s.users[1].by, h["users"], PageSize)
       /\ "audit" \in op.sections \ s.errors =>
            /\ \E h \in history.held : s.audit[1].total = Size(h["audit"])
            /\ s.audit[1].total > RecentLimit => s.audit[1].truncated \/ Cardinality(history.held) > 1
       /\ "network" \in op.sections /\ history.failed \cap {"rules"} = {} =>
            \E h \in history.held : s.network[1].rules = h["rules"]
       /\ "overview" \in op.sections => s.overview[1].degraded = (s.errors # {})

\* UpdateConfig, Snapshot: a request that is refused leaves no part behind, and
\* a snapshot shows one configuration, not pieces of two.
ConfigWhole ==
  /\ config \in history.configs
  /\ op # Idle => op.config \in history.configs

\* fetchAgents, fetchTasks: the overview counts what there is, or says that it
\* does not (service.go:16-17, admin_sources.go:45-46).
CountsWhole ==
  op.pc = "done" /\ "overview" \in op.sections =>
    \A s \in {"agents", "tasks"} : s \in op.snap.errors \/ op.snap.overview[1].degraded
      \/ \E h \in history.held : Size(op.snap[s]) = Least(MaxOverview, Size(h[s]))

\* buildUserDigest: without the authorization the users are still counted
\* (service.go:372-374).
UsersSurviveAuthz ==
  op.pc = "done" /\ "users" \in op.sections /\ "users" \notin history.failed => op.snap.users # <<>>
=============================================================================
