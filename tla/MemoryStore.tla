---------------------------- MODULE MemoryStore ----------------------------
(* The memories of the agents (internal/memory): a map of pointers behind a  *)
(* read-write lock.  Get and Search give out the stored entries themselves,  *)
(* so Update writes the fields of a live entry with no lock at all, and      *)
(* Search counts its accesses while it only holds the read lock.  Ids are    *)
(* fresh uuids.  Of the five fields an Update may give, content and summary  *)
(* stand for all.                                                            *)
EXTENDS Naturals, Integers, FiniteSets

CONSTANTS Id,         \* the ids Create draws, each once
          Agent,      \* owners of memories
          TTL,        \* lifetimes a request may ask for, 0 for none
          Importance, \* grades
          Client,     \* concurrent callers of the service
          MaxTime,    \* bound of the clock
          MaxTouches  \* bound: how often an entry is touched

VARIABLES now,      \* the clock
          entries,  \* MemoryStore.entries: live id -> entry
          op,       \* what each caller is in
          used,     \* history: ids given so far
          touched,  \* history: how often an id was read, updated or matched
          given,    \* history: the fields of an id as a request gave them last
          raced,    \* history: ids that two Searches counted at once
          mixed     \* history: ids that two Updates wrote at once

vars == <<now, entries, op, used, touched, given, raced, mixed>>

Idle == [call |-> "idle"]
Fields == {"content", "summary"}
Searching == {c \in Client : op[c].call = "search"}
Locked == Searching # {}   \* the read lock is held: a writer waits

\* IsExpired: after ExpiresAt, not at it.
IsExpired(e) == e.expires # 0 /\ now > e.expires

Without(i) == [j \in DOMAIN entries \ {i} |-> entries[j]]

\* matchSearch, by owner and least importance; expired entries are left out.
Matching(req) ==
  {i \in DOMAIN entries : /\ ~IsExpired(entries[i]) /\ entries[i].agent = req.agent
                          /\ entries[i].importance >= req.minScore}

Init ==
  /\ now = 1 /\ entries = <<>> /\ used = {} /\ raced = {} /\ mixed = {}
  /\ op = [c \in Client |-> Idle] /\ touched = [i \in Id |-> 0]
  /\ given = [i \in Id |-> [f \in Fields |-> "new"]]

\* service.Create and store.Create: the defaults, a fresh id, the expiry.
Create(c, agent, ttl, grade) ==
  /\ op[c] = Idle /\ ~Locked
  /\ \E i \in Id \ used :
       /\ \A j \in Id \ used : i <= j
       /\ used' = used \cup {i}
       /\ entries' = [j \in DOMAIN entries \cup {i} |-> IF j \in DOMAIN entries THEN entries[j] ELSE
            [agent |-> agent, importance |-> grade, access |-> 0, content |-> "new", summary |-> "new",
             expires |-> IF ttl = 0 THEN 0 ELSE now + ttl]]
  /\ UNCHANGED <<now, op, touched, given, raced, mixed>>

\* Get under the write lock: an expired entry goes, another one is touched.
Touched(i) == [entries EXCEPT ![i].access = @ + 1]
Get(c, i) ==
  /\ op[c] = Idle /\ ~Locked /\ i \in DOMAIN entries /\ touched[i] < MaxTouches
  /\ IF IsExpired(entries[i]) THEN entries' = Without(i) /\ UNCHANGED touched
     ELSE entries' = Touched(i) /\ touched' = [touched EXCEPT ![i] = @ + 1]
  /\ UNCHANGED <<now, op, used, given, raced, mixed>>

\* service.Update: Get, then one field after the other on the live entry, each
\* only when the request has it (an entry that is gone by then is written
\* unseen), then store.Update.
Writers(i) == {c \in Client : op[c].call = "update" /\ op[c].id = i}
BeginUpdate(c, i, fields) ==
  /\ op[c] = Idle /\ ~Locked /\ i \in DOMAIN entries /\ ~IsExpired(entries[i]) /\ touched[i] < MaxTouches
  /\ entries' = Touched(i) /\ touched' = [touched EXCEPT ![i] = @ + 1]
  /\ op' = [op EXCEPT ![c] = [call |-> "update", id |-> i, left |-> fields]]
  /\ given' = [given EXCEPT ![i] = [f \in Fields |-> IF f \in fields THEN c ELSE @[f]]]
  /\ mixed' = IF Writers(i) # {} THEN mixed \cup {i} ELSE mixed
  /\ UNCHANGED <<now, used, raced>>
SetField(c, field) ==
  /\ op[c].call = "update" /\ field \in op[c].left /\ (field = "summary" => "content" \notin op[c].left)
  /\ entries' = IF op[c].id \in DOMAIN entries THEN [entries EXCEPT ![op[c].id][field] = c] ELSE entries
  /\ op' = [op EXCEPT ![c].left = @ \ {field}]
  /\ UNCHANGED <<now, used, touched, given, raced, mixed>>
Stored(i) == entries   \* the entry written back is the entry that is there

\* Mutant of Update: the entry is stored without a look whether it is there.
UpdateAlways(c) ==
  /\ op[c].call = "update" /\ op[c].left = {} /\ ~Locked
  /\ entries' = [j \in DOMAIN entries \cup {op[c].id} |-> IF j \in DOMAIN entries THEN entries[j] ELSE
       [agent |-> CHOOSE a \in Agent : TRUE, importance |-> 1, access |-> touched[j], content |-> c,
        summary |-> c, expires |-> 0]]
  /\ op' = [op EXCEPT ![c] = Idle]
  /\ UNCHANGED <<now, used, touched, given, raced, mixed>>

\* store.Update, of an entry that is there still.
Update(c) ==
  /\ op[c].call = "update" /\ op[c].left = {} /\ ~Locked
  /\ entries' = Stored(op[c].id)
  /\ op' = [op EXCEPT ![c] = Idle]
  /\ UNCHANGED <<now, used, touched, given, raced, mixed>>

Delete(c, i) ==
  /\ op[c] = Idle /\ ~Locked /\ i \in DOMAIN entries
  /\ entries' = Without(i)
  /\ UNCHANGED <<now, op, used, touched, given, raced, mixed>>

Cleanup(c) ==
  /\ op[c] = Idle /\ ~Locked
  /\ entries' = [i \in {j \in DOMAIN entries : ~IsExpired(entries[j])} |-> entries[i]]
  /\ entries' # entries
  /\ UNCHANGED <<now, op, used, touched, given, raced, mixed>>

\* Search under the read lock: every match is counted (read, then written, and
\* another Search may do the same in between); the page that is handed out is
\* cut from the matches afterwards, which changes nothing.
BeginSearch(c, req) ==
  /\ op[c] = Idle /\ Matching(req) # {} /\ \A i \in Matching(req) : touched[i] < MaxTouches
  /\ op' = [op EXCEPT ![c] = [call |-> "search", req |-> req,
                              read |-> [i \in Matching(req) |-> entries[i].access]]]
  /\ raced' = raced \cup (Matching(req) \cap UNION {DOMAIN op[d].read : d \in Searching})
  /\ UNCHANGED <<now, entries, used, touched, given, mixed>>
Search(c) ==
  /\ op[c].call = "search"
  /\ LET ids == DOMAIN op[c].read IN
       /\ entries' = [i \in DOMAIN entries |->
            IF i \in ids THEN [entries[i] EXCEPT !.access = op[c].read[i] + 1] ELSE entries[i]]
       /\ touched' = [i \in Id |-> IF i \in ids THEN touched[i] + 1 ELSE touched[i]]
  /\ op' = [op EXCEPT ![c] = Idle]
  /\ UNCHANGED <<now, used, given, raced, mixed>>

Tick ==
  /\ now < MaxTime /\ now' = now + 1
  /\ UNCHANGED <<entries, op, used, touched, given, raced, mixed>>

Request == [agent : Agent, minScore : {0} \cup Importance]

Next ==
  \/ \E c \in Client :
       \/ \E a \in Agent, ttl \in TTL, grade \in Importance : Create(c, a, ttl, grade)
       \/ \E i \in Id : Get(c, i) \/ Delete(c, i) \/ \E fields \in SUBSET Fields : BeginUpdate(c, i, fields)
       \/ \E field \in Fields : SetField(c, field)
       \/ Update(c) \/ Cleanup(c) \/ Search(c)
       \/ \E req \in Request : BeginSearch(c, req)
  \/ Tick

Spec == Init /\ [][Next]_vars

-----------------------------------------------------------------------------
TypeOK ==
  /\ now \in 1..MaxTime /\ used \subseteq Id /\ DOMAIN entries \subseteq used
  /\ \A i \in DOMAIN entries :
       entries[i].agent \in Agent /\ entries[i].importance \in Importance /\ entries[i].access \in Nat
  /\ raced \subseteq Id /\ mixed \subseteq Id

\* An entry that was deleted, expired or cleaned up does not come back, not
\* even through an Update that had it in hand when it went: the ids that are
\* gone stay gone.
GoneForGood == [][\A i \in used : i \notin DOMAIN entries => i \notin DOMAIN entries']_vars

\* AccessCount never exceeds the times an entry was touched - by Get, by Update
\* and by every Search it matches, on the page that is handed out or not - and
\* is exact unless two Searches had it at the same moment: the write lock of Get
\* and Update keeps the others apart.
AccessExact ==
  \A i \in DOMAIN entries :
    /\ entries[i].access <= touched[i]
    /\ i \notin raced => entries[i].access = touched[i]

\* Every field of an entry is the one a request gave last, as long as no two
\* Updates of the entry overlapped and none has still to write: a field that a
\* request leaves out is kept, and no other one is.
UpdateWhole ==
  \A i \in DOMAIN entries :
    \/ i \in mixed \/ \E c \in Writers(i) : op[c].left # {}
    \/ \A f \in Fields : entries[i][f] = given[i][f]
=============================================================================
