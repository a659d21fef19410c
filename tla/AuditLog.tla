------------------------------ MODULE AuditLog ------------------------------
(***************************************************************************)
(* internal/audit: the log of memoryRepository or PostgresRepository, its  *)
(* redaction, the export with its manifest, and the purge by the retention *)
(* policy.  Export counts and then lists, a retention purge reads the      *)
(* policy, counts, reads the policy again and deletes: other calls come in *)
(* between.                                                                *)
(***************************************************************************)
EXTENDS Naturals, SequencesExt

CONSTANTS
  Id,           \* ids that callers give; an event without gets one of its own
  Detail,       \* details: sets of [path |-> keys, depth, value |-> "", "plain" or "secret"]: the
                \* first depth keys lead through map[string]interface{} and []interface{} only,
                \* what follows is below a container of another type
  SensitiveKey, \* sensitiveKeyNames; a key is a sequence of segments
  Suffix,       \* sensitiveSuffixes, fewer than the names
  Today,        \* the time of the calls
  Days,         \* retention days; 0 is without limit
  Client,       \* concurrent calls
  Backend,      \* "memory" or "postgres"
  MaxLimit,     \* the limit of an export
  MaxEvents     \* bound of the events

VARIABLES
  events,       \* the log: [id, seq, at, details]
  byID,         \* memoryRepository.byID, the table's key for PostgreSQL
  seq,          \* the last sequence number
  policy,       \* RetentionService.policy
  op,           \* the call each client is in
  calm,         \* history: clients during whose call nothing was written
  twice         \* history: ids that two events have had

vars == <<events, byID, seq, policy, op, calm, twice>>

-----------------------------------------------------------------------------
\* The whole key, one of its segments, or the words it ends with: these are
\* looked up in a list of their own.
IsSensitiveKey(key) ==
  \/ key \in SensitiveKey
  \/ \E i \in DOMAIN key : <<key[i]>> \in SensitiveKey
  \/ \E suffix \in Suffix : IsSuffix(suffix, key)

\* Mutant of RedactDetails: nested keys are not looked at.
RedactTop(details) ==
  {IF d.value # "" /\ IsSensitiveKey(d.path[1])
   THEN [path |-> SubSeq(d.path, 1, 1), depth |-> 1, value |-> "[REDACTED]"] ELSE d : d \in details}

\* Below a sensitive key everything is one placeholder, but for an empty value; a
\* container of another type is left as it is, with all the keys below it.
RedactDetails(details) ==
  {LET hit == {i \in 1 .. d.depth : IsSensitiveKey(d.path[i])}
       first == CHOOSE i \in hit : \A j \in hit : i <= j
   IN IF d.value = "" \/ hit = {} THEN d
      ELSE [path |-> SubSeq(d.path, 1, first), depth |-> first, value |-> "[REDACTED]"] : d \in details}

\* The cutoff of a policy; there is none without limit.
Cutoff(days) == IF days = 0 THEN 0 ELSE Today - days

Before(cutoff) == SelectSeq(events, LAMBDA e : e.at < cutoff)
Upto(cutoff) == SelectSeq(events, LAMBDA e : e.at <= cutoff)

\* List: the newest first, the later appended first among those of one time.
Newest(limit) ==
  LET sorted == SortSeq(events, LAMBDA d, e : d.at > e.at \/ (d.at = e.at /\ d.seq > e.seq))
  IN SubSeq(sorted, 1, IF Len(sorted) < limit THEN Len(sorted) ELSE limit)

-----------------------------------------------------------------------------
Idle == [pc |-> "idle"]
Go(c, call) == op' = [op EXCEPT ![c] = call]
Begin(c, call) == op[c] = Idle /\ Go(c, call) /\ calm' = calm \cup {c}

Init ==
  /\ events = <<>> /\ byID = {} /\ seq = 0
  /\ policy \in Days
  /\ op = [c \in Client |-> Idle]
  /\ calm = {} /\ twice = {}

\* The id of an event: the caller's, or one that is made for it.  In memory that
\* is the time in nanoseconds, which may be an earlier event's too; the table
\* gets a random one.
EventID(id) ==
  IF id # "" THEN {id}
  ELSE {seq + 1} \cup (IF Backend = "memory" THEN {e.id : e \in ToSet(events)} \ Id ELSE {})

\* Append: the details are redacted, the event gets the next number.  A second
\* event with an id takes the place of the first in byID; the table refuses it.
AppendEvent(id, at, details) ==
  /\ seq < MaxEvents
  /\ \E name \in EventID(id) :
       /\ Backend = "memory" \/ \A e \in ToSet(events) : e.id # name
       /\ events' = Append(events, [id |-> name, seq |-> seq + 1, at |-> at, details |-> RedactDetails(details)])
       /\ byID' = {n \in byID : n[1] # name} \cup {<<name, seq + 1>>}
       /\ twice' = IF \E n \in byID : n[1] = name THEN twice \cup {name} ELSE twice
  /\ seq' = seq + 1
  /\ calm' = {}
  /\ UNCHANGED <<policy, op>>

\* Purge: what is older than the cutoff goes, from the index too.
PurgeTo(cutoff) ==
  /\ events' = SelectSeq(events, LAMBDA e : e.at >= cutoff)
  /\ byID' = {n \in byID : \A e \in ToSet(Before(cutoff)) : e.id # n[1]}

Purge(cutoff) ==
  /\ PurgeTo(cutoff)
  /\ calm' = {}
  /\ UNCHANGED <<seq, policy, op, twice>>

SetPolicy(days) ==
  /\ policy' = days
  /\ calm' = {}
  /\ UNCHANGED <<events, byID, seq, op, twice>>

\* Purge of the retention service: a plan is made of the policy ...
Plan(c, dryRun) ==
  /\ Begin(c, [pc |-> IF policy = 0 THEN "planned" ELSE "count", dryRun |-> dryRun \/ policy = 0,
               cutoff |-> Cutoff(policy), candidates |-> 0, removed |-> 0])
  /\ UNCHANGED <<events, byID, seq, policy, twice>>

\* Mutant of Candidates: the limit of a query is kept.
CandidatesLimited(c) ==
  /\ op[c].pc = "count"
  /\ LET n == Len(Upto(op[c].cutoff)) IN
       Go(c, [op[c] EXCEPT !.candidates = IF n > 1 THEN 1 ELSE n, !.pc = IF op[c].dryRun THEN "planned" ELSE "reread"])
  /\ UNCHANGED <<events, byID, seq, policy, calm, twice>>

\* ... that says how many events there are up to the cutoff; a dry run ends here.
Candidates(c) ==
  /\ op[c].pc = "count"
  /\ Go(c, [op[c] EXCEPT !.candidates = Len(Upto(op[c].cutoff)),
                         !.pc = IF op[c].dryRun THEN "planned" ELSE "reread"])
  /\ UNCHANGED <<events, byID, seq, policy, calm, twice>>

\* The policy is read again ...
Reread(c) ==
  /\ op[c].pc = "reread"
  /\ Go(c, IF policy = 0 THEN [op[c] EXCEPT !.pc = "planned", !.dryRun = TRUE]
           ELSE [op[c] EXCEPT !.pc = "purge", !.removed = Cutoff(policy)])
  /\ UNCHANGED <<events, byID, seq, policy, calm, twice>>

\* ... and what is older goes.  The answer still names the cutoff of the plan.
PurgeOld(c) ==
  /\ op[c].pc = "purge"
  /\ PurgeTo(op[c].removed)
  /\ Go(c, [op[c] EXCEPT !.pc = "planned", !.removed = Len(Before(op[c].removed))])
  /\ calm' = calm \cap {c}
  /\ UNCHANGED <<seq, policy, twice>>

\* Export: what there is is counted ...
Export(c) ==
  /\ Begin(c, [pc |-> "list", total |-> Len(events), counted |-> events])
  /\ UNCHANGED <<events, byID, seq, policy, twice>>

\* ... and listed up to the limit; fewer than were counted is "truncated".
ListRecords(c) ==
  /\ op[c].pc = "list"
  /\ LET found == Newest(MaxLimit) IN
       Go(c, [pc |-> "exported", records |-> found, counted |-> op[c].counted,
              truncated |-> op[c].total > Len(found), left |-> events])
  /\ UNCHANGED <<events, byID, seq, policy, calm, twice>>

Answer(c) ==
  /\ op[c].pc \in {"planned", "exported"}
  /\ Go(c, Idle)
  /\ UNCHANGED <<events, byID, seq, policy, calm, twice>>

Next ==
  \/ \E id \in Id \cup {""}, at \in 0 .. Today, details \in Detail : AppendEvent(id, at, details)
  \/ \E cutoff \in 1 .. Today : Purge(cutoff)
  \/ \E days \in Days : SetPolicy(days)
  \/ \E c \in Client :
       \/ \E dryRun \in BOOLEAN : Plan(c, dryRun)
       \/ Candidates(c) \/ Reread(c) \/ PurgeOld(c) \/ Export(c) \/ ListRecords(c) \/ Answer(c)

Spec == Init /\ [][Next]_vars

-----------------------------------------------------------------------------
TypeOK ==
  /\ Len(events) <= MaxEvents /\ seq \in 0 .. MaxEvents /\ policy \in Days
  /\ \A i, j \in DOMAIN events : i < j => events[i].seq < events[j].seq
  /\ calm \subseteq Client

\* Nothing secret is in the log under a key that is a sensitive name, contains one
\* as a segment or ends with a sensitive suffix, however deep in nested maps and
\* lists.  Below a container of any other type it may be, and so may the secret of
\* a prefixed name that is no suffix (app_signing_key).
SecretsRedacted ==
  \A e \in ToSet(events) : \A d \in e.details :
    d.value = "secret" => \A i \in 1 .. d.depth : ~IsSensitiveKey(d.path[i])

\* An event is found by its id as long as it is in the log, unless its id was
\* given, or made, twice; and nothing else is.
IdsExact ==
  /\ \A e \in ToSet(events) : e.id \in twice \/ <<e.id, e.seq>> \in byID
  /\ \A n \in byID : \E e \in ToSet(events) : n = <<e.id, e.seq>>

\* When nothing is written meanwhile, a retention purge leaves nothing that is
\* older than the cutoff it reports, removes no more than it announced and
\* nothing after the cutoff; a dry run removes nothing.
RetentionExact ==
  \A c \in calm : op[c].pc = "planned" =>
    /\ op[c].dryRun => op[c].removed = 0
    /\ ~op[c].dryRun => /\ Before(op[c].cutoff) = <<>>
                        /\ op[c].candidates = op[c].removed + Len(Upto(op[c].cutoff))
    /\ op[c].dryRun /\ op[c].cutoff > 0 => op[c].candidates = Len(Upto(op[c].cutoff))

\* When nothing is written meanwhile, an export holds all there is or says that
\* it is cut, and what it leaves out is older than what it holds.
ExportExact ==
  \A c \in calm : op[c].pc = "exported" =>
    /\ op[c].truncated = (Len(events) > MaxLimit)
    /\ \A e \in ToSet(events) : \/ e \in ToSet(op[c].records)
                                \/ op[c].truncated /\ \A d \in ToSet(op[c].records) : d.at >= e.at

\* What the comment in Export says, that an export tells whether it was cut: all
\* that was counted and is not purged is in it, unless it is marked.
TruncationTold ==
  \A c \in Client : op[c].pc = "exported" /\ ~op[c].truncated =>
    ToSet(op[c].counted) \cap ToSet(op[c].left) \subseteq ToSet(op[c].records)

\* What the comment in Plan says: a dry run is off by one event at most.
DryRunClose ==
  \A c \in calm : op[c].pc = "planned" /\ op[c].dryRun => op[c].candidates <= Len(Before(op[c].cutoff)) + 1
=============================================================================
