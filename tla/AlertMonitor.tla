---------------------------- MODULE AlertMonitor ----------------------------
(***************************************************************************)
(* internal/monitor: the status of an agent, the alert rules, the alerts    *)
(* they raise and how these are worked off.  Rules and alerts are under the *)
(* service's lock, a status is stored before it is taken: reports and rules *)
(* of other calls come in between.  Rules are only evaluated where a status *)
(* is reported or a rule created: nothing looks at them as time passes.     *)
(* One agent: agents share nothing.                                         *)
(***************************************************************************)
EXTENDS Integers, SequencesExt

CONSTANTS
  Rule,       \* rules that are asked for: [id, type, threshold], the threshold of
              \* silence being the rule's Duration or DefaultInactiveAfter
  Status,     \* reports: [cpu |-> percent, failed |-> BOOLEAN, age |-> since LastActive]
  Operator,   \* who works off alerts
  Client,     \* concurrent calls
  MaxAlerts,  \* bound: no report begins with that many alerts
  MaxRecords, \* bound of the dispositions
  MaxTime     \* bound of the clock

VARIABLES
  now,          \* the clock
  status,       \* repository.status: {} or the status of the agent, [cpu, failed, seen]
  rules,        \* service.rules
  alerts,       \* service.byAge: [type, threshold, status, ackBy, resolvedBy, count]
  stored,       \* repository.alerts
  dispositions, \* repository.dispositions: [alert, action, from, to, operator]
  op,           \* the call each client is in
  asof,         \* history: when each rule was due to be held against the status: the
                \* time when the status was stored, or the rule created after it
  raised,       \* history: types with an unresolved alert since the status was stored
  reopened,     \* history: types of which an alert was opened again
  plain         \* history: alerts that ResolveAlert has resolved

vars == <<now, status, rules, alerts, stored, dispositions, op, asof, raised, reopened, plain>>

Types == {r.type : r \in Rule}

-----------------------------------------------------------------------------
Idle == [pc |-> "idle"]
Go(c, call) == op' = [op EXCEPT ![c] = call]
Begin(c, call) == op[c] = Idle /\ Len(alerts) < MaxAlerts /\ Go(c, call)

Unresolved(type) == {i \in DOMAIN alerts : alerts[i].type = type /\ alerts[i].status # "resolved"}

\* ruleBreach: cpu_high stands for the thresholds, inactive for unresponsive.
BreachedAt(rule, st, time) ==
  CASE rule.type = "cpu_high" -> st.cpu >= rule.threshold
    [] rule.type = "inactive" -> time - st.seen >= rule.threshold
    [] rule.type = "task_failed" -> st.failed
Breached(rule, st) == BreachedAt(rule, st, now)

OneOfEachType(due) ==
  {chosen \in SUBSET due : \A r \in due : Cardinality({q \in chosen : q.type = r.type}) = 1}

\* Mutant of Raising: a claimed alert does not count.
RaisingBesideClaimed(ruleSet, st) ==
  OneOfEachType({r \in ruleSet : Breached(r, st) /\ \A i \in Unresolved(r.type) : alerts[i].status # "firing"})

\* The rules for which a status raises an alert: one of each type that has none,
\* whichever the map yields first.
Raising(ruleSet, st) == OneOfEachType({r \in ruleSet : Breached(r, st) /\ Unresolved(r.type) = {}})

Firing(rule) == [type |-> rule.type, threshold |-> rule.threshold, status |-> "firing",
                 ackBy |-> "", resolvedBy |-> "", count |-> 0]

\* evaluateLocked
Evaluate(ruleSet, st) ==
  \E chosen \in Raising(ruleSet, st) :
    LET new == SetToSeq({Firing(r) : r \in chosen}) IN
      /\ alerts' = alerts \o new /\ stored' = stored \o new
      /\ raised' = raised \cup {r.type : r \in chosen}

Init ==
  /\ now = 0 /\ status = {} /\ rules = {} /\ asof = [r \in Rule |-> 0]
  /\ alerts = <<>> /\ stored = <<>> /\ dispositions = <<>>
  /\ op = [c \in Client |-> Idle]
  /\ raised = {} /\ reopened = {} /\ plain = {}

\* SaveStatus
Store(st) ==
  /\ status' = {st}
  /\ asof' = [r \in Rule |-> now]
  /\ raised' = {t \in Types : Unresolved(t) # {}}

\* ReportStatus stores the status, last active now if the report does not say ...
ReportStatus(c, st) ==
  LET given == [cpu |-> st.cpu, failed |-> st.failed, seen |-> now - st.age] IN
    /\ Begin(c, [pc |-> "evaluate", status |-> given])
    /\ Store(given)
    /\ UNCHANGED <<now, rules, alerts, stored, dispositions, reopened, plain>>

\* ... and evaluates it.
EvaluateAlerts(c) ==
  /\ op[c].pc = "evaluate"
  /\ Evaluate(rules, op[c].status)
  /\ Go(c, Idle)
  /\ UNCHANGED <<now, status, rules, dispositions, asof, reopened, plain>>

\* ReportMetrics reads the status, which is last active at the sample's time ...
ReportMetrics(c, st) ==
  /\ Begin(c, [pc |-> "refresh", status |->
                [cpu |-> st.cpu, failed |-> \E s \in status : s.failed, seen |-> now - st.age]])
  /\ UNCHANGED <<now, status, rules, alerts, stored, dispositions, asof, raised, reopened, plain>>

\* ... and reports it with the new values, over what came in meanwhile.
Refresh(c) ==
  /\ op[c].pc = "refresh"
  /\ Store(op[c].status)
  /\ Go(c, [op[c] EXCEPT !.pc = "evaluate"])
  /\ UNCHANGED <<now, rules, alerts, stored, dispositions, reopened, plain>>

\* Mutant of CreateAlert: a new rule waits for the next report.
CreateAlertUnread(rule) ==
  /\ Len(alerts) < MaxAlerts
  /\ \A r \in rules : r.id # rule.id
  /\ rules' = rules \cup {rule} /\ asof' = [asof EXCEPT ![rule] = now]
  /\ UNCHANGED <<now, status, alerts, stored, raised, dispositions, op, reopened, plain>>

\* A new rule is held against the stored status at once.
CreateAlert(rule) ==
  /\ Len(alerts) < MaxAlerts
  /\ \A r \in rules : r.id # rule.id
  /\ rules' = rules \cup {rule} /\ asof' = [asof EXCEPT ![rule] = now]
  /\ IF status = {} THEN UNCHANGED <<alerts, stored, raised>>
     ELSE \E st \in status : Evaluate(rules', st)
  /\ UNCHANGED <<now, status, dispositions, op, reopened, plain>>

DeleteAlert(rule) ==
  /\ rule \in rules
  /\ rules' = rules \ {rule}
  /\ UNCHANGED <<now, status, alerts, stored, dispositions, op, asof, raised, reopened, plain>>

\* ResolveAlert without a disposition.
ResolveAlert(i) ==
  /\ alerts[i].status # "resolved"
  /\ alerts' = [alerts EXCEPT ![i].status = "resolved"]
  /\ stored' = [stored EXCEPT ![i] = alerts'[i]]
  /\ plain' = plain \cup {i}
  /\ UNCHANGED <<now, status, rules, dispositions, op, asof, raised, reopened>>

\* The three ways to work an alert off; resolve takes any that is not resolved.
From(action) == CASE action = "ack" -> {"firing"} [] action = "resolve" -> {"firing", "acknowledged"}
                  [] action = "reopen" -> {"resolved"}
To(action) == CASE action = "ack" -> "acknowledged" [] action = "resolve" -> "resolved" [] action = "reopen" -> "firing"

\* The new state of an alert: to open it again wipes who had it.
Moved(alert, action, who) ==
  [alert EXCEPT !.status = To(action),
                !.ackBy = CASE action = "ack" -> who [] action = "resolve" -> @ [] action = "reopen" -> "",
                !.resolvedBy = CASE action = "ack" -> @ [] action = "resolve" -> who [] action = "reopen" -> "",
                !.count = @ + 1]

\* transition
Transition(i, action, who) ==
  /\ Len(dispositions) < MaxRecords
  /\ alerts[i].status \in From(action)
  /\ dispositions' = Append(dispositions, [alert |-> i, action |-> action, from |-> alerts[i].status,
                                           to |-> To(action), operator |-> who])
  /\ alerts' = [alerts EXCEPT ![i] = Moved(alerts[i], action, who)]
  /\ stored' = [stored EXCEPT ![i] = alerts'[i]]
  /\ reopened' = IF action = "reopen" THEN reopened \cup {alerts[i].type} ELSE reopened
  /\ raised' = IF action = "reopen" THEN raised \cup {alerts[i].type} ELSE raised
  /\ UNCHANGED <<now, status, rules, op, asof, plain>>

Tick ==
  /\ now < MaxTime /\ now' = now + 1
  /\ UNCHANGED <<status, rules, alerts, stored, dispositions, op, asof, raised, reopened, plain>>

Next ==
  \/ Tick
  \/ \E c \in Client :
       \/ \E st \in Status : ReportStatus(c, st) \/ ReportMetrics(c, st)
       \/ EvaluateAlerts(c) \/ Refresh(c)
  \/ \E rule \in Rule : CreateAlert(rule) \/ DeleteAlert(rule)
  \/ \E i \in DOMAIN alerts :
       \/ ResolveAlert(i)
       \/ \E action \in {"ack", "resolve", "reopen"}, who \in Operator : Transition(i, action, who)

Spec == Init /\ [][Next]_vars

-----------------------------------------------------------------------------
TypeOK ==
  /\ now \in 0..MaxTime
  /\ status \subseteq [cpu : {st.cpu : st \in Status}, failed : BOOLEAN, seen : Int]
  /\ rules \subseteq Rule
  /\ \A i \in DOMAIN alerts : alerts[i].status \in {"firing", "acknowledged", "resolved"}
  /\ Len(dispositions) <= MaxRecords

\* Once no report is on its way, every rule that the status breached when it was
\* stored - or, of a rule created after it, when that was - has had an alert that
\* nobody had resolved yet, whatever else came in and whatever time went by
\* meanwhile.  A rule of silence that is breached later, by time alone, has not:
\* see SilenceRaised.
Settled == \A c \in Client : op[c].pc # "evaluate"
BreachRaised ==
  Settled => \A rule \in rules, st \in status : BreachedAt(rule, st, asof[rule]) => rule.type \in raised

\* At most one alert of a type is unresolved, unless one was opened again.
RaisedOnce == \A type \in Types \ reopened : Cardinality(Unresolved(type)) <= 1

\* The dispositions of an alert lead from firing to where it is, each from where
\* the one before had led to; only a plain ResolveAlert leaves a gap.
Trail(i) == SelectSeq(dispositions, LAMBDA d : d.alert = i)
TrailExact ==
  \A i \in DOMAIN alerts : LET trail == Trail(i) IN
    /\ alerts[i].count = Len(trail)
    /\ \A k \in DOMAIN trail :
         \/ trail[k].from = IF k = 1 THEN "firing" ELSE trail[k - 1].to
         \/ i \in plain /\ trail[k].from = "resolved"
    /\ \/ alerts[i].status = IF trail = <<>> THEN "firing" ELSE Last(trail).to
       \/ i \in plain /\ alerts[i].status = "resolved"
    /\ alerts[i].ackBy # "" => \E k \in DOMAIN trail :
         trail[k].action = "ack" /\ trail[k].operator = alerts[i].ackBy /\ \A m \in k .. Len(trail) : trail[m].action # "reopen"

\* The repository holds what the service holds.
AlertsStored == stored = alerts

\* What disposition.go says: every change of an alert leaves a record.
EveryChangeRecorded == \A i \in DOMAIN alerts : alerts[i].status = "firing" \/ Trail(i) # <<>>

\* What disposition.go says: an alert that is raised again fires again.
RefireReopens == \A i, j \in DOMAIN alerts : alerts[i].type = alerts[j].type => i = j \/ alerts[i].type \in reopened

\* What docs/api.md promises of the rule types inactive and unresponsive: an agent
\* that has been silent for long enough is alerted.  The code does so only with
\* the next report of that agent or the next rule for it.
SilenceRaised ==
  Settled => \A rule \in rules, st \in status : Breached(rule, st) => rule.type \in raised
=============================================================================
