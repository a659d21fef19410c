--------------------------- MODULE EgressGateway ---------------------------
(***************************************************************************)
(* internal/network: the rules of MemoryPolicyStore, HTTPGateway, which    *)
(* decides on a snapshot of them and then sends, and MemoryTrafficStore,   *)
(* which keeps the newest records.  A record is stored and audited when    *)
(* its request is over, blocked or not.  The rules are asked about the     *)
(* method as it came, and once: what is sent is the method trimmed, and    *)
(* the redirects that follow are neither decided on nor recorded.          *)
(***************************************************************************)
EXTENDS Naturals, SequencesExt

CONSTANTS
  Rule,         \* [agent, target, effect, priority, methods]; agent "" is every agent
  Agent, Domain, \* a domain is a sequence of labels
  Method,       \* of the requests: [name, padded], with or without spaces around; "" is none
  Client,       \* concurrent requests
  MaxRecords, Drop, \* maxTrafficRecords, and the tenth of it that goes
  MaxTime, MaxSent, MaxRules  \* bounds of the clock, the requests and the rules

VARIABLES
  rules,        \* MemoryPolicyStore.rules
  records,      \* MemoryTrafficStore.records
  dropped,      \* ... and how many it dropped
  now, op,      \* the clock; the request each client is in
  audited, purged \* history: records handed to the audit log, and purged

vars == <<rules, records, dropped, now, op, audited, purged>>

-----------------------------------------------------------------------------
\* How specific a pattern is for a domain, if it matches: its own name, a name
\* above it, a wildcard above it, any.
Levels == 10
matchSpecificity(target, domain) ==
  LET n == Len(target.name) IN
  IF target.kind = "any" THEN {0}
  ELSE IF ~IsSuffix(target.name, domain) THEN {}
  ELSE IF target.kind = "wildcard" THEN IF n < Len(domain) THEN {n} ELSE {}
  ELSE IF n = Len(domain) THEN {2 * Levels + n} ELSE {Levels + n}

patternSpecificity(target) ==
  CASE target.kind = "any" -> 0 [] target.kind = "wildcard" -> Len(target.name)
    [] OTHER -> Levels + Len(target.name)

\* sortRules: agent rules, priority, deny, specificity; the ids decide the rest.
RuleBefore(r, s) ==
  IF (r.agent # "") # (s.agent # "") THEN r.agent # ""
  ELSE IF r.priority # s.priority THEN r.priority < s.priority
  ELSE IF r.effect # s.effect THEN r.effect = "deny"
  ELSE patternSpecificity(r.target) > patternSpecificity(s.target)

sortRules(rs) == SetToSortSeq(rs, RuleBefore)

\* EqualFold with the method as it came: the case does not matter, a space does.
effectMatchesMethod(r, method) ==
  \/ r.methods = {}
  \/ ~method.padded /\ (method.name = "" \/ method.name \in r.methods)

\* One pass of the loop of Evaluate: the best of the rules of a scope.
None == [effect |-> "none"]
Better(best, r, domain) ==
  LET spec == CHOOSE n \in matchSpecificity(r.target, domain) : TRUE
      bestSpec == CHOOSE n \in matchSpecificity(best.target, domain) : TRUE
  IN best = None \/ spec > bestSpec \/ (spec = bestSpec /\ r.effect = "deny")

Best(rs, scope, agent, method, domain) ==
  FoldLeft(LAMBDA best, r :
             IF /\ r.agent \in {"", agent} /\ (r.agent # "") = (scope = "agent")
                /\ effectMatchesMethod(r, method)
                /\ matchSpecificity(r.target, domain) # {}
                /\ Better(best, r, domain)
             THEN r ELSE best,
           None, sortRules(rs))

\* Mutant of Evaluate: the rules for every agent come first.
EvaluateGlobalFirst(rs, agent, method, domain) ==
  LET all == Best(rs, "global", agent, method, domain)
      own == Best(rs, "agent", agent, method, domain)
  IN IF all # None THEN all.effect = "allow" ELSE own # None /\ own.effect = "allow"

\* The rules of the agent come first, and what no rule allows is denied.
Evaluate(rs, agent, method, domain) ==
  LET own == Best(rs, "agent", agent, method, domain)
      all == Best(rs, "global", agent, method, domain)
  IN IF own # None THEN own.effect = "allow" ELSE all # None /\ all.effect = "allow"

\* What is sent: trimmed, in upper case, GET if there is nothing.
Sent(name) == [name |-> name, padded |-> FALSE]
normalizeMethod(method) == Sent(IF method.name = "" THEN "GET" ELSE method.name)

-----------------------------------------------------------------------------
Idle == [pc |-> "idle"]
Go(c, call) == op' = [op EXCEPT ![c] = call]

Init ==
  /\ rules = {} /\ records = <<>> /\ dropped = 0 /\ now = 0
  /\ op = [c \in Client |-> Idle]
  /\ audited = 0 /\ purged = 0

AddRule(r) ==
  /\ r \notin rules /\ Cardinality(rules) < MaxRules
  /\ rules' = rules \cup {r}
  /\ UNCHANGED <<records, dropped, now, op, audited, purged>>

DeleteRule(r) ==
  /\ r \in rules
  /\ rules' = rules \ {r}
  /\ UNCHANGED <<records, dropped, now, op, audited, purged>>

\* Mutant of Append_: room is only made beyond the limit.
AppendBeyond(rec) ==
  /\ IF Len(records) > MaxRecords
     THEN /\ records' = Append(SubSeq(records, Drop + 1, Len(records)), rec)
          /\ dropped' = dropped + Drop
     ELSE records' = Append(records, rec) /\ UNCHANGED dropped
  /\ audited' = audited + 1

\* persist: the oldest records make room, and the audit log gets a copy.
Append_(rec) ==
  /\ IF Len(records) >= MaxRecords
     THEN /\ records' = Append(SubSeq(records, Drop + 1, Len(records)), rec)
          /\ dropped' = dropped + Drop
     ELSE records' = Append(records, rec) /\ UNCHANGED dropped
  /\ audited' = audited + 1

\* Proxy: what is denied is recorded at once and never sent.
Proxy(c, agent, method, domain) ==
  /\ op[c] = Idle /\ audited < MaxSent
  /\ IF Evaluate(rules, agent, method, domain)
     THEN /\ Go(c, [pc |-> "send", at |-> now, agent |-> agent, method |-> normalizeMethod(method),
                    covered |-> Evaluate(rules, agent, normalizeMethod(method), domain)])
          /\ UNCHANGED <<records, dropped, audited>>
     ELSE Append_([at |-> now, allowed |-> FALSE, failed |-> FALSE]) /\ UNCHANGED op
  /\ UNCHANGED <<rules, now, purged>>

\* The client follows a redirect, with the method there was or with GET; nobody
\* asks the rules.
Redirected(c, method, domain) ==
  /\ op[c].pc = "send" /\ method \in {op[c].method, Sent("GET")}
  /\ Go(c, [op[c] EXCEPT !.method = method,
                         !.covered = @ /\ Evaluate(rules, op[c].agent, method, domain)])
  /\ UNCHANGED <<rules, records, dropped, now, audited, purged>>

\* The answer comes, or the request or the reading of it fails; the record
\* carries the time the request came in.
Answered(c, failed) ==
  /\ op[c].pc = "send" /\ audited < MaxSent
  /\ Append_([at |-> op[c].at, allowed |-> TRUE, failed |-> failed])
  /\ Go(c, Idle)
  /\ UNCHANGED <<rules, now, purged>>

Before(cutoff) == SelectSeq(records, LAMBDA rec : rec.at < cutoff)

\* PurgeBefore, for a cutoff that may be any time.
PurgeBefore(cutoff) ==
  /\ records' = SelectSeq(records, LAMBDA rec : rec.at >= cutoff)
  /\ purged' = purged + Len(Before(cutoff))
  /\ UNCHANGED <<rules, dropped, now, op, audited>>

Tick == now < MaxTime /\ now' = now + 1 /\ UNCHANGED <<rules, records, dropped, op, audited, purged>>

Next ==
  \/ Tick
  \/ \E r \in Rule : AddRule(r) \/ DeleteRule(r)
  \/ \E cutoff \in 1 .. MaxTime + 1 : PurgeBefore(cutoff)
  \/ \E c \in Client :
       \/ \E agent \in Agent, method \in Method, domain \in Domain : Proxy(c, agent, method, domain)
       \/ \E method \in {normalizeMethod(m) : m \in Method}, domain \in Domain : Redirected(c, method, domain)
       \/ \E failed \in BOOLEAN : Answered(c, failed)

Spec == Init /\ [][Next]_vars

-----------------------------------------------------------------------------
\* Query with a limit: the newest by time, then the later stored.
Query(until, limit) ==
  LET found == SortSeq(SelectSeq(records, LAMBDA rec : rec.at <= until), LAMBDA x, y : x.at < y.at)
  IN SubSeq(found, IF Len(found) > limit THEN Len(found) - limit + 1 ELSE 1, Len(found))

\* The dry run of the purge handler counts what Query finds up to the cutoff.
DryRun(cutoff) == Len(Query(cutoff, MaxSent))

TypeOK ==
  /\ rules \subseteq Rule
  /\ Len(records) <= MaxRecords /\ \A i \in DOMAIN records : records[i].at <= now
  /\ now \in 0 .. MaxTime /\ audited \in 0 .. MaxSent /\ dropped <= audited /\ purged <= audited

\* What Evaluate promises: of the rules that match, only those of the agent
\* count if there are any; of these only the most specific; and of these one
\* deny is enough.  Neither the order of the rules nor the method's absence
\* lets a deny be passed over.  It is about the method as Evaluate is given it,
\* which need not be the one that is sent: see SentAllowed.
Matching(agent, method, domain) ==
  {r \in rules : r.agent \in {"", agent} /\ effectMatchesMethod(r, method)
                 /\ matchSpecificity(r.target, domain) # {}}
DecisionExact ==
  \A agent \in Agent, method \in Method, domain \in Domain :
    LET found == Matching(agent, method, domain)
        scope == IF \E r \in found : r.agent # "" THEN {r \in found : r.agent # ""} ELSE found
        top == {r \in scope : \A s \in scope : \A m \in matchSpecificity(r.target, domain),
                                                  n \in matchSpecificity(s.target, domain) : m >= n}
    IN Evaluate(rules, agent, method, domain) = (top # {} /\ \A r \in top : r.effect = "allow")

\* What docs/api.md says: what is not allowed is not sent.  It does not hold
\* where the method that is sent is not the one the rules were asked about, nor
\* after a redirect.
SentAllowed == \A c \in Client : op[c].pc = "send" => op[c].covered

\* No record is lost silently: what the audit log got is stored, or counted as
\* dropped, or was purged.
TrafficAccounted == Len(records) + dropped + purged = audited

\* What PolicyRule.Priority says: of rules alike but for their effect the one
\* with the smaller priority decides.
PriorityDecides ==
  \A r, s \in rules : \A domain \in Domain :
    /\ rules = {r, s} /\ r.agent = s.agent /\ r.target = s.target /\ r.methods = s.methods
    /\ r.priority < s.priority /\ matchSpecificity(r.target, domain) # {}
    => \A agent \in Agent : r.agent \in {"", agent} => Evaluate(rules, agent, Sent(""), domain) = (r.effect = "allow")
=============================================================================
