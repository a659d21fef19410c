---------------------------- MODULE AccessProofs ----------------------------
(***************************************************************************)
(* Proofs about the components of MCAccess, for every value of the         *)
(* constants: failed logins, tokens, users, tenants, roles and single      *)
(* sign-on.  Each component has an inductive invariant over its own        *)
(* variables; Inv puts them together, for a step moves one component only. *)
(***************************************************************************)
EXTENDS MCAccess, Integers, Sequences, FiniteSetTheorems, TLAPS

-----------------------------------------------------------------------------
(* LoginGuard: who has passed the check of a key and not yet counted itself  *)
(* under it, in redis.db; no counter expires within its window.              *)

LoginCall ==
  [pc : {"check", "login", "record", "clear"}, email : Account, addr : Address, key : Guard!Key,
   right : BOOLEAN]
  \cup [pc : {"expire", "record"}, email : Account, addr : Address, key : Guard!Key,
        right : {FALSE}, slot : Guard!Slots]

ToCount(k) ==
  {c \in Client :
     \/ gOp[c].pc = "check" /\ gOp[c].key = gOp[c].addr /\ k = gOp[c].email
     \/ gOp[c].pc = "login" /\ k \in {gOp[c].email, gOp[c].addr}
     \/ gOp[c].pc = "record" /\ k \in {gOp[c].key, gOp[c].addr}
     \/ gOp[c].pc = "expire" /\ gOp[c].key # gOp[c].addr /\ k = gOp[c].addr}

GuardData ==
  /\ gNow \in 0..GuardTime /\ skipped \in BOOLEAN
  /\ count \in [Guard!Counter -> [Guard!Slots -> Nat]]
  /\ dies \in [Guard!Counter -> [Guard!Slots -> Nat]]
  /\ gOp \in [Client -> {Guard!Idle} \cup LoginCall]
  /\ \A c \in Client : gOp[c] # Guard!Idle => gOp[c].key \in {gOp[c].email, gOp[c].addr}

Overrun ==
  ~skipped => \A k \in Guard!Key :
    /\ count[<<Selected, k>>][Guard!Slot] + Cardinality(ToCount(k)) < Limit + Cardinality(Client)
    /\ \A s \in Guard!Slots : count[<<Selected, k>>][s] < Limit + Cardinality(Client)

Lasting ==
  /\ \A n \in Guard!Counter, s \in Guard!Slots :
       /\ s > Guard!Slot => count[n][s] = 0
       /\ \A m \in 0..GuardTime : m \div Window = s => m < dies[n][s]
  /\ \A c \in Client : gOp[c].pc = "expire" => gOp[c].slot <= Guard!Slot

GuardInv == GuardData /\ Overrun /\ Lasting

-----------------------------------------------------------------------------
(* TokenSessions: what a confirmed logout has revoked stays so in its store  *)
(* for as long as the token could live, and whoever began after it and asks  *)
(* that store knows.                                                         *)

TokenCall(token, store) ==
  [pc : {"lookup", "serve", "revoke"}, replica : Replica, token : token, kind : {"use", "logout"},
   late : SUBSET store, asked : SUBSET store]

SharedInv ==
  /\ tNow \in Nat
  /\ issued \in [Shared!Token -> Nat] /\ revoked \in [Database -> [Shared!Token -> Nat]]
  /\ loggedOut \in [Database -> SUBSET Shared!Token]
  /\ tOp \in [Client -> {Shared!Idle} \cup TokenCall(Shared!Token, Database)]
  /\ \A t \in Shared!Token : issued[t] > 0 => t.at <= tNow
  /\ \A s \in Database : \A t \in loggedOut[s] : revoked[s][t] >= t.at + SharedAccess
  /\ \A c \in Client : tOp[c] # Shared!Idle =>
       /\ tOp[c].token.at <= tNow
       /\ \A x \in tOp[c].late : tOp[c].token \in loggedOut[x]
       /\ tOp[c].asked \cap tOp[c].late # {} => tNow >= tOp[c].token.at + SharedAccess

LocalInv ==
  /\ tNow \in Nat
  /\ issued \in [Local!Token -> Nat] /\ revoked \in [Replica -> [Local!Token -> Nat]]
  /\ loggedOut \in [Replica -> SUBSET Local!Token]
  /\ tOp \in [Client -> {Local!Idle} \cup TokenCall(Local!Token, Replica)]
  /\ \A t \in Local!Token : issued[t] > 0 => t.at <= tNow
  /\ \A r \in Replica : \A t \in loggedOut[r] : revoked[r][t] >= t.at + LocalAccess
  /\ \A c \in Client : tOp[c] # Local!Idle =>
       /\ tOp[c].token.at <= tNow
       /\ tOp[c].replica \in tOp[c].late => tOp[c].token \in loggedOut[tOp[c].replica]
       /\ tOp[c].asked \subseteq {tOp[c].replica}
       /\ tOp[c].asked \cap tOp[c].late # {} => tNow >= tOp[c].token.at + LocalAccess

-----------------------------------------------------------------------------
(* UserDirectory: what is about to be stored differs from the user only in  *)
(* the field the call is for, unless it is out of date.                     *)

UserCall ==
  [pc : {"create", "check", "store"}, kind : {"create", "update", "password", "oauth", "status"},
   user : User, stale : BOOLEAN, new : Postgres!Record]

UserData ==
  /\ users \in [User -> Postgres!Record \cup {Memory!Absent, Memory!Gone}]
  /\ uOp \in [Client -> {Memory!Idle} \cup UserCall] /\ crossed \in BOOLEAN

CreatedOnce ==
  \A c \in Client : uOp[c] # Memory!Idle =>
    IF uOp[c].pc = "create"
    THEN /\ users[uOp[c].user] = Memory!Absent
         /\ \A d \in Client : uOp[d] # Memory!Idle /\ uOp[d].user = uOp[c].user => c = d
    ELSE users[uOp[c].user] # Memory!Absent

Changes(call, old, new) ==
  /\ call.kind = "update" \/ new.email = old.email
  /\ call.kind = "password" \/ new.password = old.password
  /\ call.kind = "oauth" \/ new.oauth = old.oauth
  /\ call.kind = "status" \/ new.status = old.status

OneField ==
  \A c \in Client :
    uOp[c] # Memory!Idle /\ uOp[c].pc # "create" /\ ~uOp[c].stale /\ Memory!Exists(uOp[c].user) =>
      Changes(uOp[c], users[uOp[c].user], uOp[c].new)

Unique ==
  \A u, v \in User : u # v /\ Memory!Exists(u) /\ Memory!Exists(v) => users[u].email # users[v].email

UserInv == UserData /\ CreatedOnce /\ OneField /\ (~crossed => Unique)

-----------------------------------------------------------------------------
(* TenantScopes: a tenant is made by one call, before anybody is a member;   *)
(* resources are removed by a call in the scope of their owner.              *)

TenantRecord == [status : Tenants!Status, slug : Slug]
TenantCall ==
  [pc : {"create"}, tenant : Tenant, slug : Slug, user : User]
  \cup [pc : {"add", "member"}, tenant : Tenant, user : User]
  \cup [pc : {"status"}, tenant : Tenant, record : TenantRecord]
  \cup [pc : {"scope"}, tenant : Tenant]
  \cup [pc : {"remove"}, tenant : Tenant, resource : Resource]

TenantData ==
  /\ tenants \in [Tenant -> {Tenants!NoTenant} \cup TenantRecord]
  /\ members \in [Tenant -> SUBSET User] /\ \A t \in Tenant : IsFiniteSet(members[t])
  /\ owners \in [Resource -> Tenant \cup {Tenants!NoOwner, Tenants!Removed}]
  /\ nOp \in [Client -> {Tenants!Idle} \cup TenantCall] /\ overlapped \in BOOLEAN

Creating(c) == nOp[c].pc = "create"
Adding(t) == {c \in Client : nOp[c].pc = "add" /\ nOp[c].tenant = t}

MadeOnce ==
  /\ \A c, d \in Client : Creating(c) /\ Creating(d) /\ nOp[c].tenant = nOp[d].tenant => c = d
  /\ \A c \in Client :
       /\ Creating(c) => ~Tenants!Exists(nOp[c].tenant)
       /\ nOp[c].pc = "add" => Tenants!Exists(nOp[c].tenant)
       /\ nOp[c].pc = "status" =>
            Tenants!Exists(nOp[c].tenant) /\ tenants[nOp[c].tenant].slug = nOp[c].record.slug
       /\ nOp[c].pc = "remove" => owners[nOp[c].resource] \in {nOp[c].tenant, Tenants!Removed}
  /\ \A t \in Tenant : ~Tenants!Exists(t) => members[t] = {}

Quota ==
  \A t \in Tenant : Cardinality(members[t]) + Cardinality(Adding(t)) < MaxMembers + Cardinality(Client)

Slugs ==
  ~overlapped =>
    /\ \A c, d \in Client : Creating(c) /\ Creating(d) => c = d
    /\ \A c \in Client : Creating(c) => Tenants!SlugFree(nOp[c].slug)
    /\ Tenants!SlugsUnique

TenantInv == TenantData /\ MadeOnce /\ Quota /\ Slugs

-----------------------------------------------------------------------------
(* RoleChecks: a check has seen all that its list can name; what has been   *)
(* held all the time still lies before it.                                  *)

CheckCall ==
  [pc : {"check"}, live : BOOLEAN, list : Seq(Role \cup GrantRole), len : Nat, i : Nat]
  \cup [pc : {"decided"}, allowed : BOOLEAN]

\* The entry at k of the list that c goes through.
Entry(c, k) == IF rOp[c].live THEN slice.array[k] ELSE rOp[c].list[k]

RoleTyped(R) ==
  /\ roles \in [R -> [exists : BOOLEAN, grants : BOOLEAN, writers : SUBSET Writer]]
  /\ slice \in [array : Seq(R), len : Nat] /\ slice.len <= Len(slice.array)
  /\ DOMAIN rOp = Checker \cup Writer
  /\ \A c \in Checker : rOp[c] \in {Roles!Idle} \cup CheckCall
  /\ \A c \in Writer : rOp[c] \in {Roles!Idle} \cup [pc : {"assign"}, role : R]
                                  \cup [pc : {"update"}, role : R, grants : BOOLEAN]

RoleData(R) ==
  /\ RoleTyped(R)
  /\ seen \in [Checker -> [always : SUBSET R, held : SUBSET R, granted : SUBSET R, shifted : BOOLEAN]]

Listed(R, c) ==
  /\ rOp[c].i \in 1..(rOp[c].len + 1)
  /\ rOp[c].len <= Len(IF rOp[c].live THEN slice.array ELSE rOp[c].list)
  /\ \A k \in 1..rOp[c].len : Entry(c, k) \in seen[c].held

Witnessed(R, c) ==
  /\ Roles!Held(slice) \subseteq seen[c].held
  /\ {r \in R : Roles!Loose(r)} \subseteq seen[c].granted
  /\ \A r \in seen[c].always : Roles!Has(r) /\ Roles!Solid(r)

Ahead(c, copies) ==
  copies \/ ~seen[c].shifted =>
    /\ rOp[c].live => rOp[c].len <= slice.len
    /\ \A r \in seen[c].always : \E k \in rOp[c].i..rOp[c].len : Entry(c, k) = r

Decision(c, copies) ==
  IF rOp[c].allowed THEN seen[c].held \cap seen[c].granted # {}
  ELSE seen[c].always = {} \/ (~copies /\ seen[c].shifted)

RoleInv(R, copies) ==
  /\ RoleData(R)
  /\ \A c \in Checker :
       /\ rOp[c].pc = "check" =>
            Listed(R, c) /\ Witnessed(R, c) /\ Ahead(c, copies) /\ (copies => ~rOp[c].live)
       /\ rOp[c].pc = "decided" => Decision(c, copies)

-----------------------------------------------------------------------------
(* SsoLogin: a state is there until it is used; an answer is no older than   *)
(* its request, and the cache no older than an answer.                       *)

SsoCall ==
  [pc : {"exchange", "bind", "create"}, email : Account]
  \cup [pc : {"keys"}, email : Account, key : Nat]
  \cup [pc : {"fetch"}, email : Account, key : Nat, force : BOOLEAN, since : Nat]
  \cup [pc : {"answered"}, email : Account, key : Nat, force : BOOLEAN, since : Nat, keys : SUBSET Nat]
  \cup [pc : {"done"}, account : BOOLEAN]
  \cup [pc : {"refused"}, key : Nat]

SsoData ==
  /\ sNow \in 1..SsoTime /\ begun \in 0..MaxSession
  /\ sessions \in [Sso!Session -> Nat] /\ uses \in [Sso!Session -> Nat]
  /\ retired \in Seq(Nat) /\ Len(retired) >= 1
  /\ cache \in [keys : SUBSET Nat, at : Nat, full : BOOLEAN] /\ cache.at <= sNow
  /\ sOp \in [Client -> {Sso!Idle} \cup SsoCall]

StatesOnce ==
  \A s \in Sso!Session :
    /\ uses[s] <= 1 /\ (sessions[s] # Sso!NoSession => uses[s] = 0)
    /\ s > begun => sessions[s] = Sso!NoSession /\ uses[s] = 0

KeysOf(call) ==
  /\ call.pc \in {"keys", "fetch", "answered", "refused"} => call.key \in 1..Len(retired)
  /\ call.pc \in {"fetch", "answered"} => call.since <= sNow /\ sNow <= call.since + Timeout
  /\ call.pc = "answered" =>
       /\ call.key \notin call.keys => retired[call.key] # Sso!Never
       /\ \A k \in call.keys : k \in 1..Len(retired) /\ call.since <= retired[k]
  /\ call.pc = "refused" => retired[call.key] # Sso!Never

SsoInv ==
  /\ SsoData /\ StatesOnce
  /\ \A c \in Client : KeysOf(sOp[c])
  /\ \A k \in cache.keys : k \in 1..Len(retired) /\ cache.at <= retired[k] + Timeout

-----------------------------------------------------------------------------
Inv ==
  /\ GuardInv /\ UserInv /\ TenantInv /\ SsoInv
  /\ part = "local tokens" => LocalInv
  /\ part # "local tokens" => SharedInv
  /\ part = "postgres users" => Unique
  /\ part = "roles" => RoleInv(Role, FALSE)
  /\ part = "grants" => RoleInv(GrantRole, TRUE)

-----------------------------------------------------------------------------
LEMMA DivMono ==
  ASSUME NEW w \in Nat \ {0}, NEW a \in Nat, NEW b \in Nat, a <= b
  PROVE  a \div w <= b \div w /\ a \div w \in Nat
<1>1. a = w * (a \div w) + (a % w) /\ a % w \in 0..(w - 1) /\ a \div w \in Int
  OBVIOUS
<1>2. b = w * (b \div w) + (b % w) /\ b % w \in 0..(w - 1) /\ b \div w \in Int
  OBVIOUS
<1> DEFINE p == a \div w  q == b \div w  x == a % w  y == b % w
<1>3. /\ a = w * p + x /\ x \in 0..(w - 1) /\ p \in Int
      /\ b = w * q + y /\ y \in 0..(w - 1) /\ q \in Int
  BY <1>1, <1>2
<1> HIDE DEF p, q, x, y
<1>4. p <= q
  <2> SUFFICES ASSUME p > q PROVE FALSE
    BY <1>3
  <2>1. w * p >= w * (q + 1)
    BY <1>3
  <2>2. w * (q + 1) = w * q + w
    BY <1>3
  <2> QED BY <1>3, <2>1, <2>2
<1>5. p >= 0
  <2> SUFFICES ASSUME p <= -1 PROVE FALSE
    BY <1>3
  <2>1. w * p <= w * (-1)
    BY <1>3
  <2> QED BY <1>3, <2>1
<1> QED BY <1>3, <1>4, <1>5 DEF p, q

LEMMA DivNear ==
  ASSUME NEW w \in Nat \ {0}, NEW a \in Nat, NEW b \in Nat, a \div w <= b \div w
  PROVE  a < b + w
<1>1. a = w * (a \div w) + (a % w) /\ a % w \in 0..(w - 1) /\ a \div w \in Int
  OBVIOUS
<1>2. b = w * (b \div w) + (b % w) /\ b % w \in 0..(w - 1) /\ b \div w \in Int
  OBVIOUS
<1> DEFINE p == a \div w  q == b \div w  x == a % w  y == b % w
<1>3. /\ a = w * p + x /\ x \in 0..(w - 1) /\ p \in Int
      /\ b = w * q + y /\ y \in 0..(w - 1) /\ q \in Int /\ p <= q
  BY <1>1, <1>2
<1> HIDE DEF p, q, x, y
<1>4. w * p <= w * q
  BY <1>3
<1> QED BY <1>3, <1>4

LEMMA SameSize == ASSUME NEW S PROVE Guard!Cardinality(S) = Cardinality(S)
BY DEF Guard!Cardinality, Cardinality

LEMMA Clients == IsFiniteSet(Client) /\ Cardinality(Client) \in Nat
BY AccessAssumption, FS_CardinalityType

LEMMA PartOfClients ==
  ASSUME NEW S \in SUBSET Client
  PROVE  IsFiniteSet(S) /\ Cardinality(S) \in Nat /\ Cardinality(S) <= Cardinality(Client)
BY Clients, FS_Subset, FS_CardinalityType

LEMMA LessOne ==
  ASSUME NEW S \in SUBSET Client, NEW c \in S, NEW T \in SUBSET (S \ {c})
  PROVE  Cardinality(T) + 1 <= Cardinality(S)
<1>1. IsFiniteSet(S) /\ Cardinality(S) \in Nat
  BY PartOfClients
<1>2. Cardinality(S \ {c}) = Cardinality(S) - 1
  BY <1>1, FS_RemoveElement
<1>3. IsFiniteSet(S \ {c}) /\ Cardinality(T) <= Cardinality(S \ {c}) /\ Cardinality(T) \in Nat
  BY <1>1, PartOfClients, FS_Subset
<1> QED BY <1>1, <1>2, <1>3

\* A step that neither moves the clock nor is skipped keeps the bound, if for
\* each key nobody else has come to count itself, or its counter is below the
\* limit, or one who had to count itself did, or the counter is cleared.
Counted(k) ==
  LET n == <<Selected, k>> IN
    \/ count'[n] = count[n] /\ ToCount(k)' \subseteq ToCount(k)
    \/ count'[n] = count[n] /\ count[n][Guard!Slot] < Limit
    \/ /\ count'[n] = [count[n] EXCEPT ![Guard!Slot] = @ + 1]
       /\ \E c \in ToCount(k) : ToCount(k)' \subseteq ToCount(k) \ {c}
    \/ count'[n] = [count[n] EXCEPT ![Guard!Slot] = 0] /\ ToCount(k)' \subseteq ToCount(k)

LEMMA InSelected ==
  ASSUME NEW k \in Guard!Key
  PROVE  <<Selected, k>> \in Guard!Counter
BY AccessAssumption DEF NamesAssumption, Guard!Counter

LEMMA NowSlot ==
  ASSUME GuardData
  PROVE  Guard!Slot \in Guard!Slots /\ Guard!Slot \in Nat /\ Guard!Slots \subseteq Nat
<1>1. Window \in Nat \ {0} /\ GuardTime \in Nat
  BY AccessAssumption DEF LimitsAssumption
<1>2. gNow \in Nat /\ gNow <= GuardTime
  BY <1>1 DEF GuardData
<1> QED BY <1>1, <1>2, DivMono DEF Guard!Slot, Guard!Slots

LEMMA OverrunKept ==
  ASSUME GuardData, Overrun, gNow' = gNow, skipped => skipped',
         ~skipped' => \A k \in Guard!Key : Counted(k)
  PROVE  Overrun'
<1> DEFINE Slot == Guard!Slot
<1>1. SUFFICES ASSUME ~skipped', ~skipped, NEW k \in Guard!Key
               PROVE  /\ count'[<<Selected, k>>][Slot] + Cardinality(ToCount(k)') < Limit + Cardinality(Client)
                      /\ \A s \in Guard!Slots : count'[<<Selected, k>>][s] < Limit + Cardinality(Client)
  <2>1. Guard!Slot' = Guard!Slot
    BY DEF Guard!Slot
  <2> QED BY <1>1, <2>1 DEF Overrun, Slot
<1> DEFINE h == <<Selected, k>>
<1>2. Slot \in Guard!Slots
  BY NowSlot DEF Slot
<1>3. Limit \in Nat \ {0}
  BY AccessAssumption DEF LimitsAssumption
<1>4. h \in Guard!Counter /\ count[h] \in [Guard!Slots -> Nat]
  BY InSelected DEF GuardData
<1>5. ToCount(k) \subseteq Client /\ ToCount(k)' \subseteq Client
  BY DEF ToCount
<1> DEFINE n == Cardinality(ToCount(k))  m == Cardinality(ToCount(k)')  N == Cardinality(Client)
<1>6. n \in 0..N /\ m \in 0..N /\ N \in Nat
  BY <1>5, PartOfClients, Clients
<1>7. count[h][Slot] + n < Limit + N /\ \A s \in Guard!Slots : count[h][s] < Limit + N
  BY <1>1 DEF Overrun
<1>8. ToCount(k)' \subseteq ToCount(k) => m <= n
  BY <1>5, PartOfClients, FS_Subset
<1>9. (\E c \in ToCount(k) : ToCount(k)' \subseteq ToCount(k) \ {c}) => m + 1 <= n
  BY <1>5, LessOne
<1>10. Counted(k)
  BY <1>1
<1>11. CASE count'[h] = count[h] /\ ToCount(k)' \subseteq ToCount(k)
  <2> HIDE DEF n, m, N, Slot
  <2> QED BY <1>2, <1>3, <1>4, <1>6, <1>7, <1>8, <1>11 DEF m, N
<1>12. CASE count'[h] = count[h] /\ count[h][Guard!Slot] < Limit
  <2>1. count[h][Slot] < Limit
    BY <1>12 DEF Slot
  <2> HIDE DEF n, m, N, Slot
  <2> QED BY <1>2, <1>3, <1>4, <1>6, <1>7, <1>12, <2>1 DEF m, N
<1>13. CASE /\ count'[h] = [count[h] EXCEPT ![Guard!Slot] = @ + 1]
            /\ \E c \in ToCount(k) : ToCount(k)' \subseteq ToCount(k) \ {c}
  <2>1. count'[h] = [count[h] EXCEPT ![Slot] = @ + 1]
    BY <1>13 DEF Slot
  <2>2. m + 1 <= n
    BY <1>13, <1>9
  <2> HIDE DEF n, m, N, Slot
  <2> QED BY <1>2, <1>3, <1>4, <1>6, <1>7, <2>1, <2>2 DEF m, N
<1>14. CASE count'[h] = [count[h] EXCEPT ![Guard!Slot] = 0] /\ ToCount(k)' \subseteq ToCount(k)
  <2>1. count'[h] = [count[h] EXCEPT ![Slot] = 0]
    BY <1>14 DEF Slot
  <2> HIDE DEF n, m, N, Slot
  <2> QED BY <1>2, <1>3, <1>4, <1>6, <1>7, <1>8, <1>14, <2>1 DEF m, N
<1> QED BY <1>10, <1>11, <1>12, <1>13, <1>14 DEF Counted

\* What is known of a call that is under way.
LEMMA CallOf ==
  ASSUME GuardData, NEW c \in Client, gOp[c].pc # "idle"
  PROVE  /\ gOp[c] \in LoginCall /\ gOp[c].email \in Account /\ gOp[c].addr \in Address
         /\ gOp[c].key \in Guard!Key /\ gOp[c].key \in {gOp[c].email, gOp[c].addr}
         /\ gOp[c].right \in BOOLEAN
         /\ gOp[c].email \notin Address /\ gOp[c].addr \notin Account
         /\ gOp[c].email \in Guard!Key /\ gOp[c].addr \in Guard!Key
<1>1. gOp[c] # Guard!Idle
  BY DEF Guard!Idle
<1>2. gOp[c] \in LoginCall
  BY <1>1 DEF GuardData
<1>3. gOp[c].email \in Account /\ gOp[c].addr \in Address
  BY <1>2 DEF LoginCall
<1>4. gOp[c].key \in {gOp[c].email, gOp[c].addr}
  BY <1>1 DEF GuardData
<1>5. gOp[c].right \in BOOLEAN
  BY <1>2 DEF LoginCall
<1>6. Account \cap Address = {}
  BY AccessAssumption DEF NamesAssumption
<1>7. gOp[c].key \in Guard!Key
  BY <1>2 DEF LoginCall
<1> QED BY <1>2, <1>3, <1>4, <1>5, <1>6, <1>7 DEF Guard!Key

\* A step of one call that leaves the clock and the counters as they are.
LEMMA OnlyCall ==
  ASSUME GuardInv, NEW c \in Client, NEW call \in {Guard!Idle} \cup LoginCall,
         gOp' = [gOp EXCEPT ![c] = call], UNCHANGED <<gNow, count, dies>>, skipped' \in BOOLEAN,
         call # Guard!Idle => call.key \in {call.email, call.addr},
         call.pc = "expire" => gOp[c].pc = "expire" /\ call = gOp[c]
  PROVE  GuardData' /\ Lasting'
<1> USE DEF GuardInv
<1>1. \A d \in Client : gOp'[d] = IF d = c THEN call ELSE gOp[d]
  BY DEF GuardData
<1>2. gOp' \in [Client -> {Guard!Idle} \cup LoginCall]
  BY DEF GuardData
<1>3. GuardData'
  <2>1. \A d \in Client : gOp'[d] # Guard!Idle => gOp'[d].key \in {gOp'[d].email, gOp'[d].addr}
    BY <1>1 DEF GuardData
  <2> QED BY <1>2, <2>1 DEF GuardData, Guard!Idle
<1>4. Guard!Slot' = Guard!Slot
  BY DEF Guard!Slot
<1>5. (\A d \in Client : gOp[d].pc = "expire" => gOp[d].slot <= Guard!Slot)'
  BY <1>1, <1>4 DEF Lasting
<1>6. Lasting'
  BY <1>4, <1>5 DEF Lasting, GuardData
<1> QED BY <1>3, <1>6

LEMMA LoginBegins ==
  ASSUME GuardInv, NEW c \in Client, NEW e \in Account, NEW a \in Address, NEW right \in BOOLEAN,
         Guard!Login(c, e, a, right)
  PROVE  GuardInv'
<1> USE DEF GuardInv
<1> DEFINE call == [pc |-> "check", email |-> e, addr |-> a, key |-> e, right |-> right]
<1>1. gOp' = [gOp EXCEPT ![c] = call] /\ UNCHANGED <<gNow, count, dies, skipped>> /\ gOp[c] = Guard!Idle
  BY DEF Guard!Login
<1>2. call \in LoginCall /\ call.pc = "check" /\ call.key = e /\ call.addr = a /\ call.email = e
  BY DEF LoginCall, Guard!Key
<1>3. e # a
  BY AccessAssumption DEF NamesAssumption
<1>4. GuardData' /\ Lasting'
  <2> HIDE DEF call
  <2>1. skipped' \in BOOLEAN
    BY <1>1 DEF GuardData
  <2> QED BY <1>1, <1>2, <2>1, OnlyCall
<1>5. \A d \in Client : gOp'[d] = IF d = c THEN call ELSE gOp[d]
  BY <1>1 DEF GuardData
<1>6. \A k \in Guard!Key : ToCount(k)' \subseteq ToCount(k)
  <2> HIDE DEF call
  <2> QED BY <1>2, <1>3, <1>5 DEF ToCount
<1>7. Overrun'
  <2>1. skipped' = skipped /\ \A k \in Guard!Key : Counted(k)
    BY <1>1, <1>6 DEF Counted
  <2> QED BY <1>1, <2>1, OverrunKept
<1> QED BY <1>4, <1>7

LEMMA LoginChecks ==
  ASSUME GuardInv, NEW c \in Client, NEW d \in Database,
         Guard!CheckBlocks(c, d) \/ Guard!CheckPasses(c, d) \/ Guard!CheckFails(c) \/ Guard!Answer(c)
  PROVE  GuardInv'
<1> USE DEF GuardInv
<1>1. CASE Guard!CheckBlocks(c, d)
  <2>1. gOp' = [gOp EXCEPT ![c] = Guard!Idle] /\ UNCHANGED <<gNow, count, dies>>
        /\ skipped' = (skipped \/ d # Selected)
    BY <1>1 DEF Guard!CheckBlocks, Guard!End, Guard!Over
  <2>2. Guard!Idle.pc = "idle"
    BY DEF Guard!Idle
  <2>3. GuardData' /\ Lasting'
    <3>1. skipped' \in BOOLEAN
      BY <2>1 DEF GuardData
    <3> QED BY <2>1, <2>2, <3>1, OnlyCall
  <2>4. \A x \in Client : gOp'[x] = IF x = c THEN Guard!Idle ELSE gOp[x]
    BY <2>1 DEF GuardData
  <2>5. \A k \in Guard!Key : ToCount(k)' \subseteq ToCount(k)
    BY <2>2, <2>4 DEF ToCount
  <2>6. \A k \in Guard!Key : Counted(k)
    BY <2>1, <2>5 DEF Counted
  <2> QED BY <2>1, <2>3, <2>6, OverrunKept
<1>2. CASE Guard!CheckPasses(c, d)
  <2> DEFINE o == gOp[c]
             call == IF o.key \in Account THEN [o EXCEPT !.key = o.addr] ELSE [o EXCEPT !.pc = "login"]
  <2>1. gOp' = [gOp EXCEPT ![c] = call] /\ UNCHANGED <<gNow, count, dies>> /\ o.pc = "check"
        /\ ~Guard!Exceeded(d, o.key) /\ skipped' = (skipped \/ d # Selected)
    BY <1>2 DEF Guard!CheckPasses, Guard!At, Guard!GoTo, Guard!Over
  <2>2. /\ o \in LoginCall /\ o.email \in Account /\ o.addr \in Address
        /\ o.key \in {o.email, o.addr} /\ o.email \notin Address /\ o.addr \notin Account
        /\ o.addr \in Guard!Key /\ o.key \in Guard!Key
    BY <2>1, CallOf
  <2>3. call \in LoginCall
    BY <2>1, <2>2 DEF LoginCall
  <2>4. /\ call.email = o.email /\ call.addr = o.addr /\ call.key = o.addr
        /\ call.pc = IF o.key \in Account THEN "check" ELSE "login"
    BY <2>1, <2>2, <2>3 DEF LoginCall
  <2>5. GuardData' /\ Lasting'
    <3>1. skipped' \in BOOLEAN
      BY <2>1 DEF GuardData
    <3> HIDE DEF call, o
    <3> QED BY <2>1, <2>3, <2>4, <3>1, OnlyCall
  <2>6. \A x \in Client : gOp'[x] = IF x = c THEN call ELSE gOp[x]
    BY <2>1 DEF GuardData
  <2>7. ~skipped' => count[<<Selected, o.key>>][Guard!Slot] < Limit
    <3>1. count[<<Selected, o.key>>][Guard!Slot] \in Nat
      BY <2>2, NowSlot, InSelected DEF GuardData
    <3>2. Limit \in Nat
      BY AccessAssumption DEF LimitsAssumption
    <3>3. ~skipped' => d = Selected
      BY <2>1
    <3> QED BY <2>1, <3>1, <3>2, <3>3 DEF Guard!Exceeded
  <2>8. \A k \in Guard!Key : k # o.key => ToCount(k)' \subseteq ToCount(k)
    <3> HIDE DEF call
    <3>1. SUFFICES ASSUME NEW k \in Guard!Key, k # o.key PROVE \A x \in ToCount(k)' : x \in ToCount(k)
      OBVIOUS
    <3>2. c \in ToCount(k)' => c \in ToCount(k)
      BY <2>1, <2>2, <2>4, <2>6, <3>1 DEF ToCount
    <3>3. \A x \in Client : x # c /\ x \in ToCount(k)' => x \in ToCount(k)
      BY <2>6 DEF ToCount
    <3> QED BY <3>2, <3>3 DEF ToCount
  <2>9. ~skipped' => \A k \in Guard!Key : Counted(k)
    BY <2>1, <2>7, <2>8 DEF Counted
  <2> QED BY <2>1, <2>5, <2>9, OverrunKept
<1>3. CASE Guard!CheckFails(c)
  <2> DEFINE o == gOp[c]  call == [o EXCEPT !.pc = "login"]
  <2>1. gOp' = [gOp EXCEPT ![c] = call] /\ UNCHANGED <<gNow, count, dies>> /\ skipped' = TRUE /\ o.pc = "check"
    BY <1>3 DEF Guard!CheckFails, Guard!At, Guard!GoTo
  <2>2. o \in LoginCall /\ o.key \in {o.email, o.addr}
    BY <2>1, CallOf
  <2>3. call \in LoginCall
    BY <2>1, <2>2 DEF LoginCall
  <2>4. call.email = o.email /\ call.addr = o.addr /\ call.key = o.key /\ call.pc = "login"
    BY <2>2 DEF LoginCall
  <2>5. GuardData' /\ Lasting'
    <3> HIDE DEF call, o
    <3> QED BY <2>1, <2>2, <2>3, <2>4, OnlyCall
  <2> QED BY <2>1, <2>5 DEF Overrun
<1>4. CASE Guard!Answer(c)
  <2> DEFINE o == gOp[c]
             call == [o EXCEPT !.pc = IF o.right THEN "clear" ELSE "record", !.key = o.email]
  <2>1. gOp' = [gOp EXCEPT ![c] = call] /\ UNCHANGED <<gNow, count, dies, skipped>> /\ o.pc = "login"
    BY <1>4 DEF Guard!Answer, Guard!At
  <2>2. o \in LoginCall /\ o.email \in Guard!Key /\ o.right \in BOOLEAN
    BY <2>1, CallOf
  <2>3. call \in LoginCall
    BY <2>1, <2>2 DEF LoginCall
  <2>4. /\ call.email = o.email /\ call.addr = o.addr /\ call.key = o.email
        /\ call.pc \in {"clear", "record"}
    BY <2>2 DEF LoginCall
  <2>5. GuardData' /\ Lasting'
    <3>1. skipped' \in BOOLEAN
      BY <2>1 DEF GuardData
    <3> HIDE DEF call, o
    <3> QED BY <2>1, <2>2, <2>3, <2>4, <3>1, OnlyCall
  <2>6. \A x \in Client : gOp'[x] = IF x = c THEN call ELSE gOp[x]
    BY <2>1 DEF GuardData
  <2>7. \A k \in Guard!Key : ToCount(k)' \subseteq ToCount(k)
    <3> HIDE DEF call
    <3> QED BY <2>1, <2>4, <2>6 DEF ToCount
  <2>8. \A k \in Guard!Key : Counted(k)
    BY <2>1, <2>7 DEF Counted
  <2> QED BY <2>1, <2>5, <2>8, OverrunKept
<1> QED BY <1>1, <1>2, <1>3, <1>4

\* The call after it has counted itself under its key.
Rest(o) == IF o.key \in Account THEN [o EXCEPT !.pc = "record", !.key = o.addr] ELSE Guard!Idle

LEMMA RestOf ==
  ASSUME GuardInv, NEW c \in Client, gOp[c].pc \in {"record", "expire"}
  PROVE  /\ Rest(gOp[c]) \in {Guard!Idle} \cup LoginCall
         /\ Rest(gOp[c]) # Guard!Idle =>
              /\ gOp[c].key = gOp[c].email /\ Rest(gOp[c]).pc = "record"
              /\ Rest(gOp[c]).key = gOp[c].addr /\ Rest(gOp[c]).addr = gOp[c].addr
              /\ Rest(gOp[c]).email = gOp[c].email
         /\ Rest(gOp[c]) = Guard!Idle => gOp[c].key = gOp[c].addr
<1> DEFINE o == gOp[c]
<1>1. /\ o \in LoginCall /\ o.email \in Account /\ o.addr \in Address /\ o.key \in Guard!Key
      /\ o.key \in {o.email, o.addr} /\ o.email \notin Address /\ o.addr \notin Account
      /\ o.addr \in Guard!Key
  BY CallOf DEF GuardInv
<1>2. o.key \notin Account => Rest(o) = Guard!Idle
  BY DEF Rest
<1>3. ASSUME o.key \in Account
      PROVE  /\ Rest(o) \in LoginCall /\ Rest(o).pc = "record" /\ Rest(o).key = o.addr
             /\ Rest(o).addr = o.addr /\ Rest(o).email = o.email
  <2>1. Rest(o) = [o EXCEPT !.pc = "record", !.key = o.addr]
    BY <1>3 DEF Rest
  <2>2. Rest(o) \in LoginCall
    BY <1>1, <2>1 DEF LoginCall
  <2> QED BY <1>1, <2>1 DEF LoginCall
<1> QED BY <1>1, <1>2, <1>3 DEF Guard!Idle

LEMMA RecordedIs ==
  ASSUME GuardInv, NEW c \in Client, gOp[c].pc \in {"record", "expire"}, Guard!Recorded(c)
  PROVE  gOp' = [gOp EXCEPT ![c] = Rest(gOp[c])]
<1>1. gOp[c].pc # "idle"
  OBVIOUS
<1> QED BY <1>1 DEF Guard!Recorded, Guard!End, Rest

\* A counter grows while the clock stands: what Lasting says of the counters stays.
LEMMA GrowthLasts ==
  ASSUME GuardInv, NEW k \in Guard!Counter, count' = [count EXCEPT ![k][Guard!Slot] = @ + 1],
         UNCHANGED <<gNow, dies>>
  PROVE  /\ count' \in [Guard!Counter -> [Guard!Slots -> Nat]]
         /\ \A l \in Guard!Counter, s \in Guard!Slots :
              /\ s > Guard!Slot => count'[l][s] = 0
              /\ \A m \in 0..GuardTime : m \div Window = s => m < dies'[l][s]
<1> USE DEF GuardInv
<1> DEFINE Slot == Guard!Slot
<1>1. Slot \in Guard!Slots /\ Slot \in Nat /\ Guard!Slots \subseteq Nat
  BY NowSlot
<1>2. count \in [Guard!Counter -> [Guard!Slots -> Nat]] /\ count[k][Slot] + 1 \in Nat
  BY <1>1 DEF GuardData
<1>3. count' = [count EXCEPT ![k] = [count[k] EXCEPT ![Slot] = count[k][Slot] + 1]]
  BY <1>1, <1>2
<1> HIDE DEF Slot
<1>4. [count[k] EXCEPT ![Slot] = count[k][Slot] + 1] \in [Guard!Slots -> Nat]
  BY <1>1, <1>2
<1>5. count' \in [Guard!Counter -> [Guard!Slots -> Nat]]
  BY <1>2, <1>3, <1>4
<1>6. \A l \in Guard!Counter, s \in Guard!Slots : s > Slot => count'[l][s] = 0
  <2>1. SUFFICES ASSUME NEW l \in Guard!Counter, NEW s \in Guard!Slots, s > Slot PROVE count'[l][s] = 0
    OBVIOUS
  <2>2. count[l][s] = 0
    BY <2>1 DEF Lasting, Slot
  <2>3. s # Slot
    BY <1>1, <2>1
  <2> QED BY <1>2, <1>3, <1>4, <2>2, <2>3
<1> QED BY <1>5, <1>6 DEF Lasting, Slot

LEMMA LoginRecords ==
  ASSUME GuardInv, NEW c \in Client, NEW b \in Database,
         Guard!Increment(c, b) \/ Guard!IncrementLost(c, b)
  PROVE  GuardInv'
<1> USE DEF GuardInv
<1> DEFINE o == gOp[c]  k == gOp[c].key  n == <<b, gOp[c].key>>
           wait == [pc |-> "expire", email |-> o.email, addr |-> o.addr, key |-> k, right |-> FALSE,
                    slot |-> Guard!Slot]
<1>1. o.pc = "record" /\ UNCHANGED <<gNow, dies>> /\ skipped' = (skipped \/ b # Selected)
  BY DEF Guard!Increment, Guard!IncrementLost, Guard!At, Guard!Over
<1>2. /\ o \in LoginCall /\ o.email \in Account /\ o.addr \in Address /\ k \in Guard!Key
      /\ k \in {o.email, o.addr} /\ o.email \notin Address /\ o.addr \notin Account
      /\ o.addr \in Guard!Key /\ o.email \in Guard!Key /\ n \in Guard!Counter
  BY <1>1, CallOf DEF Guard!Counter
<1>3. count' = [count EXCEPT ![n][Guard!Slot] = @ + 1] \/ count' = count
  BY DEF Guard!Increment, Guard!IncrementLost
<1>4. gOp' = [gOp EXCEPT ![c] = Rest(o)] \/ gOp' = [gOp EXCEPT ![c] = wait]
  <2>1. CASE gOp' = [gOp EXCEPT ![c] = wait]
    BY <2>1
  <2>2. CASE Guard!Recorded(c)
    BY <1>1, <2>2, RecordedIs
  <2> QED BY <2>1, <2>2 DEF Guard!Increment, Guard!IncrementLost
<1>5. Guard!Slot \in Guard!Slots /\ Guard!Slot \in Nat
  BY NowSlot
<1>6. wait \in LoginCall /\ wait.pc = "expire" /\ wait.key = k /\ wait.addr = o.addr
      /\ wait.email = o.email /\ wait.slot = Guard!Slot
  BY <1>2, <1>5 DEF LoginCall
<1>7. PICK call \in {Guard!Idle} \cup LoginCall :
        /\ gOp' = [gOp EXCEPT ![c] = call]
        /\ call # Guard!Idle => /\ call.key \in {call.email, call.addr}
                                /\ call.addr = o.addr /\ call.email = o.email
                                /\ \/ call.pc = "expire" /\ call.key = k /\ call.slot = Guard!Slot
                                   \/ call.pc = "record" /\ call.key = o.addr /\ k = o.email
  <2>1. CASE gOp' = [gOp EXCEPT ![c] = Rest(o)]
    BY <1>1, <2>1, RestOf
  <2>2. CASE gOp' = [gOp EXCEPT ![c] = wait]
    <3> HIDE DEF wait, o, k
    <3> QED BY <1>2, <1>6, <2>2
  <2> QED BY <1>4, <2>1, <2>2
<1> HIDE DEF wait
<1>8. \A d \in Client : gOp'[d] = IF d = c THEN call ELSE gOp[d]
  BY <1>7 DEF GuardData
<1>9. count' \in [Guard!Counter -> [Guard!Slots -> Nat]]
  BY <1>1, <1>2, <1>3, GrowthLasts DEF GuardData
<1>10. GuardData'
  <2>1. gOp' \in [Client -> {Guard!Idle} \cup LoginCall]
    BY <1>7 DEF GuardData
  <2>2. \A d \in Client : gOp'[d] # Guard!Idle => gOp'[d].key \in {gOp'[d].email, gOp'[d].addr}
    BY <1>7, <1>8 DEF GuardData
  <2> QED BY <1>1, <1>9, <2>1, <2>2 DEF GuardData, Guard!Idle
<1>11. Guard!Slot' = Guard!Slot
  BY <1>1 DEF Guard!Slot
<1>12. Lasting'
  <2>1. (\A l \in Guard!Counter, s \in Guard!Slots :
           /\ s > Guard!Slot => count[l][s] = 0
           /\ \A m \in 0..GuardTime : m \div Window = s => m < dies[l][s])'
    BY <1>1, <1>2, <1>3, <1>11, GrowthLasts DEF Lasting
  <2>2. (\A d \in Client : gOp[d].pc = "expire" => gOp[d].slot <= Guard!Slot)'
    <3>1. \A d \in Client : d # c => (gOp'[d].pc = "expire" => gOp'[d].slot <= Guard!Slot)
      BY <1>8 DEF Lasting
    <3>2. gOp'[c].pc = "expire" => gOp'[c].slot <= Guard!Slot
      BY <1>5, <1>7, <1>8 DEF Guard!Idle
    <3> QED BY <1>11, <3>1, <3>2
  <2> QED BY <2>1, <2>2 DEF Lasting
<1>13. ~skipped' => \A l \in Guard!Key : Counted(l)
  <2> SUFFICES ASSUME b = Selected, NEW l \in Guard!Key PROVE Counted(l)
    BY <1>1
  <2> DEFINE h == <<Selected, l>>
  <2>1. \A d \in Client : d # c /\ d \in ToCount(l)' => d \in ToCount(l)
    BY <1>8 DEF ToCount
  <2>2. c \in ToCount(l)' => c \in ToCount(l) /\ l # k
    BY <1>1, <1>2, <1>7, <1>8 DEF ToCount, Guard!Idle
  <2>3. ToCount(l)' \subseteq ToCount(l)
    BY <2>1, <2>2 DEF ToCount
  <2>4. c \in ToCount(k)
    BY <1>1, <1>2 DEF ToCount
  <2>5. l = k => ToCount(l)' \subseteq ToCount(l) \ {c}
    BY <2>2, <2>3
  <2>6. CASE count' = count
    BY <2>3, <2>6 DEF Counted
  <2>7. CASE count' = [count EXCEPT ![n][Guard!Slot] = @ + 1]
    <3>1. h \in Guard!Counter /\ (l # k => h # n) /\ (l = k => h = n)
      BY InSelected
    <3>2. l # k => count'[h] = count[h]
      BY <2>7, <3>1 DEF GuardData
    <3>3. l = k => count'[h] = [count[h] EXCEPT ![Guard!Slot] = @ + 1]
      BY <1>2, <2>7, <3>1 DEF GuardData
    <3> QED BY <2>3, <2>4, <2>5, <3>2, <3>3 DEF Counted
  <2> QED BY <1>3, <2>6, <2>7
<1>14. skipped' \in BOOLEAN /\ (skipped => skipped')
  BY <1>1 DEF GuardData
<1> QED BY <1>1, <1>10, <1>12, <1>13, <1>14, OverrunKept

LEMMA LoginExpires ==
  ASSUME GuardInv, NEW c \in Client, NEW b \in Database, Guard!Expire(c, b)
  PROVE  GuardInv'
<1> USE DEF GuardInv
<1> DEFINE o == gOp[c]  k == gOp[c].key  s == gOp[c].slot  n == <<b, gOp[c].key>>
<1>1. o.pc = "expire" /\ UNCHANGED <<gNow, count>> /\ gOp' = [gOp EXCEPT ![c] = Rest(o)]
      /\ skipped' = (skipped \/ b # Selected)
      /\ \/ dies' = dies
         \/ dies' = [dies EXCEPT ![n][s] = gNow + Guard!Lifetime]
  BY RecordedIs DEF Guard!Expire, Guard!At, Guard!Over
<1>2. /\ o \in LoginCall /\ o.email \in Account /\ o.addr \in Address /\ k \in Guard!Key
      /\ k \in {o.email, o.addr} /\ o.email \notin Address /\ o.addr \notin Account
      /\ n \in Guard!Counter
  BY <1>1, CallOf DEF Guard!Counter
<1>3. s \in Guard!Slots /\ s <= Guard!Slot
  BY <1>1, <1>2 DEF LoginCall, Lasting
<1> DEFINE call == Rest(o)
<1>4. /\ call \in {Guard!Idle} \cup LoginCall
      /\ call # Guard!Idle => /\ call.key \in {call.email, call.addr} /\ call.pc = "record"
                              /\ call.key = o.addr /\ call.addr = o.addr /\ k = o.email
      /\ call = Guard!Idle => k = o.addr
  BY <1>1, RestOf
<1> HIDE DEF call
<1>5. \A d \in Client : gOp'[d] = IF d = c THEN call ELSE gOp[d]
  BY <1>1 DEF GuardData, call
<1>6. Window \in Nat \ {0} /\ GuardTime \in Nat /\ gNow \in Nat /\ gNow <= GuardTime
  BY AccessAssumption DEF LimitsAssumption, GuardData
<1>7. gNow + Guard!Lifetime \in Nat
  BY <1>6 DEF Guard!Lifetime
<1>8. GuardData'
  <2>1. dies' \in [Guard!Counter -> [Guard!Slots -> Nat]]
    <3>1. [dies[n] EXCEPT ![s] = gNow + Guard!Lifetime] \in [Guard!Slots -> Nat]
      BY <1>2, <1>3, <1>7 DEF GuardData
    <3> QED BY <1>1, <1>2, <3>1 DEF GuardData
  <2>2. gOp' \in [Client -> {Guard!Idle} \cup LoginCall]
    BY <1>1, <1>4 DEF GuardData, call
  <2>3. \A d \in Client : gOp'[d] # Guard!Idle => gOp'[d].key \in {gOp'[d].email, gOp'[d].addr}
    BY <1>4, <1>5 DEF GuardData
  <2> QED BY <1>1, <2>1, <2>2, <2>3 DEF GuardData, Guard!Idle
<1>9. Guard!Slot' = Guard!Slot
  BY <1>1 DEF Guard!Slot
<1>10. Lasting'
  <2>1. (\A l \in Guard!Counter, r \in Guard!Slots : r > Guard!Slot => count[l][r] = 0)'
    BY <1>1, <1>9 DEF Lasting
  <2>2. ASSUME NEW l \in Guard!Counter, NEW r \in Guard!Slots, NEW m \in 0..GuardTime, m \div Window = r
        PROVE  m < dies'[l][r]
    <3>1. m < dies[l][r]
      BY <2>2 DEF Lasting
    <3>2. CASE dies'[l][r] = dies[l][r]
      BY <3>1, <3>2
    <3>3. CASE l = n /\ r = s /\ dies'[l][r] = gNow + Guard!Lifetime
      <4>1. m \div Window <= gNow \div Window /\ m \in Nat
        BY <1>3, <1>6, <2>2, <3>3 DEF Guard!Slot
      <4>2. m < gNow + Window
        BY <1>6, <4>1, DivNear
      <4> QED BY <1>6, <3>3, <4>1, <4>2 DEF Guard!Lifetime
    <3> HIDE DEF n, s, k, o
    <3> QED BY <1>1, <1>2, <1>3, <3>2, <3>3 DEF GuardData
  <2>3. (\A d \in Client : gOp[d].pc = "expire" => gOp[d].slot <= Guard!Slot)'
    BY <1>4, <1>5, <1>9 DEF Lasting, Guard!Idle
  <2> QED BY <2>1, <2>2, <2>3 DEF Lasting
<1>11. \A l \in Guard!Key : ToCount(l)' \subseteq ToCount(l)
  <2> SUFFICES ASSUME NEW l \in Guard!Key PROVE ToCount(l)' \subseteq ToCount(l)
    OBVIOUS
  <2>1. \A d \in Client : d # c /\ d \in ToCount(l)' => d \in ToCount(l)
    BY <1>5 DEF ToCount
  <2>2. c \in ToCount(l)' => c \in ToCount(l)
    BY <1>1, <1>2, <1>4, <1>5 DEF ToCount, Guard!Idle
  <2> QED BY <2>1, <2>2 DEF ToCount
<1>12. \A l \in Guard!Key : Counted(l)
  BY <1>1, <1>11 DEF Counted
<1> QED BY <1>1, <1>8, <1>10, <1>12, OverrunKept

LEMMA LoginClears ==
  ASSUME GuardInv, NEW c \in Client, NEW b \in Database, Guard!Clear(c, b)
  PROVE  GuardInv'
<1> USE DEF GuardInv
<1> DEFINE e == gOp[c].email  n == <<b, gOp[c].email>>
<1>1. /\ gOp[c].pc = "clear" /\ gNow' = gNow /\ gOp' = [gOp EXCEPT ![c] = Guard!Idle]
      /\ skipped' = (skipped \/ b # Selected)
      /\ \/ UNCHANGED <<count, dies>>
         \/ /\ count' = [count EXCEPT ![n][Guard!Slot] = 0]
            /\ dies' = [dies EXCEPT ![n][Guard!Slot] = Guard!Never]
  BY DEF Guard!Clear, Guard!At, Guard!End, Guard!Over
<1>2. e \in Guard!Key /\ n \in Guard!Counter
  BY <1>1, CallOf DEF Guard!Counter
<1>3. Guard!Slot \in Guard!Slots /\ Guard!Slot \in Nat /\ Guard!Slots \subseteq Nat
  BY NowSlot
<1>4. Window \in Nat \ {0} /\ GuardTime \in Nat
  BY AccessAssumption DEF LimitsAssumption
<1>5. Guard!Never \in Nat /\ \A m \in 0..GuardTime : m < Guard!Never
  BY <1>4 DEF Guard!Never
<1>6. \A d \in Client : gOp'[d] = IF d = c THEN Guard!Idle ELSE gOp[d]
  BY <1>1 DEF GuardData
<1>7. Guard!Slot' = Guard!Slot
  BY <1>1 DEF Guard!Slot
<1>8. GuardData'
  <2>1. count' \in [Guard!Counter -> [Guard!Slots -> Nat]]
    <3>1. [count[n] EXCEPT ![Guard!Slot] = 0] \in [Guard!Slots -> Nat]
      BY <1>2, <1>3 DEF GuardData
    <3> QED BY <1>1, <1>2, <3>1 DEF GuardData
  <2>2. dies' \in [Guard!Counter -> [Guard!Slots -> Nat]]
    <3>1. [dies[n] EXCEPT ![Guard!Slot] = Guard!Never] \in [Guard!Slots -> Nat]
      BY <1>2, <1>3, <1>5 DEF GuardData
    <3> QED BY <1>1, <1>2, <3>1 DEF GuardData
  <2>3. gOp' \in [Client -> {Guard!Idle} \cup LoginCall]
    BY <1>1 DEF GuardData
  <2>4. \A d \in Client : gOp'[d] # Guard!Idle => gOp'[d].key \in {gOp'[d].email, gOp'[d].addr}
    BY <1>6 DEF GuardData
  <2> QED BY <1>1, <2>1, <2>2, <2>3, <2>4 DEF GuardData, Guard!Idle
<1>9. Lasting'
  <2>1. (\A l \in Guard!Counter, r \in Guard!Slots : r > Guard!Slot => count[l][r] = 0)'
    <3> SUFFICES ASSUME NEW l \in Guard!Counter, NEW r \in Guard!Slots, r > Guard!Slot PROVE count'[l][r] = 0
      BY <1>7
    <3>1. count[l][r] = 0
      BY DEF Lasting
    <3> HIDE DEF n, e
    <3> QED BY <1>1, <1>2, <1>3, <3>1 DEF GuardData
  <2>2. ASSUME NEW l \in Guard!Counter, NEW r \in Guard!Slots, NEW m \in 0..GuardTime, m \div Window = r
        PROVE  m < dies'[l][r]
    <3>1. m < dies[l][r]
      BY <2>2 DEF Lasting
    <3> HIDE DEF n, e
    <3> QED BY <1>1, <1>2, <1>3, <1>5, <3>1 DEF GuardData
  <2>3. (\A d \in Client : gOp[d].pc = "expire" => gOp[d].slot <= Guard!Slot)'
    BY <1>6, <1>7 DEF Lasting, Guard!Idle
  <2> QED BY <2>1, <2>2, <2>3 DEF Lasting
<1>10. \A l \in Guard!Key : Counted(l)
  <2> SUFFICES ASSUME NEW l \in Guard!Key PROVE Counted(l)
    OBVIOUS
  <2>1. ToCount(l)' \subseteq ToCount(l)
    BY <1>6 DEF ToCount, Guard!Idle
  <2> DEFINE h == <<Selected, l>>
  <2>2. count'[h] = count[h] \/ count'[h] = [count[h] EXCEPT ![Guard!Slot] = 0]
    BY <1>1, <1>2, InSelected DEF GuardData
  <2> QED BY <2>1, <2>2 DEF Counted
<1> QED BY <1>1, <1>8, <1>9, <1>10, OverrunKept

\* Nothing expires in its window, and a new window begins with empty counters.
LEMMA ClockTicks ==
  ASSUME GuardInv, Guard!Tick
  PROVE  /\ GuardInv'
         /\ \A k \in Guard!Counter : Guard!Slot' = Guard!Slot => count'[k][Guard!Slot] = count[k][Guard!Slot]
<1> USE DEF GuardInv
<1>1. /\ gNow' = gNow + 1 /\ gNow < GuardTime /\ UNCHANGED <<gOp, skipped>>
      /\ count' = [k \in Guard!Counter |-> [s \in Guard!Slots |-> IF dies[k][s] <= gNow' THEN 0 ELSE count[k][s]]]
      /\ dies' = [k \in Guard!Counter |-> [s \in Guard!Slots |-> IF dies[k][s] <= gNow' THEN Guard!Never ELSE dies[k][s]]]
  BY DEF Guard!Tick
<1>2. Window \in Nat \ {0} /\ GuardTime \in Nat /\ gNow \in Nat /\ Limit \in Nat \ {0}
  BY AccessAssumption DEF LimitsAssumption, GuardData
<1>3. gNow' \in 0..GuardTime /\ gNow <= gNow'
  BY <1>1, <1>2
<1>4. Guard!Slot \in Guard!Slots /\ Guard!Slot \in Nat /\ Guard!Slots \subseteq Nat
  BY NowSlot
<1>5. Guard!Slot <= Guard!Slot' /\ Guard!Slot' \in Nat
  <2>1. gNow \div Window <= gNow' \div Window /\ gNow' \div Window \in Nat
    <3>1. gNow' \in Nat
      BY <1>1, <1>2
    <3>2. gNow' <= gNow' /\ gNow' <= GuardTime /\ GuardTime \in Nat
      BY <1>2, <1>3
    <3>3. gNow' \div Window \in Nat
      BY <1>2, <3>1, <3>2, DivMono
    <3> QED BY <1>2, <1>3, <3>1, <3>3, DivMono
  <2> QED BY <2>1 DEF Guard!Slot
<1>6. Guard!Never \in Nat /\ \A m \in 0..GuardTime : m < Guard!Never
  BY <1>2 DEF Guard!Never
<1>7. GuardData'
  <2>1. count' \in [Guard!Counter -> [Guard!Slots -> Nat]]
    BY <1>1 DEF GuardData
  <2>2. dies' \in [Guard!Counter -> [Guard!Slots -> Nat]]
    BY <1>1, <1>6 DEF GuardData
  <2> QED BY <1>1, <1>3, <2>1, <2>2 DEF GuardData, Guard!Idle
<1>8. Guard!Slot' \in Guard!Slots
  <2>1. gNow' \in Nat /\ gNow' <= GuardTime
    BY <1>2, <1>3
  <2>2. gNow' \div Window <= GuardTime \div Window
    BY <1>2, <2>1, DivMono
  <2>3. GuardTime \div Window \in Nat
    BY <1>2, <1>3, <2>1, DivMono
  <2> QED BY <1>5, <2>2, <2>3 DEF Guard!Slot, Guard!Slots
<1>9. Lasting'
  <2>1. (\A l \in Guard!Counter, r \in Guard!Slots : r > Guard!Slot => count[l][r] = 0)'
    <3> SUFFICES ASSUME NEW l \in Guard!Counter, NEW r \in Guard!Slots, r > Guard!Slot' PROVE count'[l][r] = 0
      OBVIOUS
    <3>1. r > Guard!Slot
      BY <1>4, <1>5
    <3>2. count[l][r] = 0
      BY <3>1 DEF Lasting
    <3> QED BY <1>1, <3>2
  <2>2. ASSUME NEW l \in Guard!Counter, NEW r \in Guard!Slots, NEW m \in 0..GuardTime, m \div Window = r
        PROVE  m < dies'[l][r]
    <3>1. m < dies[l][r]
      BY <2>2 DEF Lasting
    <3> QED BY <1>1, <1>6, <3>1
  <2>3. (\A d \in Client : gOp[d].pc = "expire" => gOp[d].slot <= Guard!Slot)'
    <3> SUFFICES ASSUME NEW d \in Client, gOp[d].pc = "expire" PROVE gOp[d].slot <= Guard!Slot'
      BY <1>1
    <3>1. gOp[d].slot <= Guard!Slot
      BY DEF Lasting
    <3>2. gOp[d].slot \in Guard!Slots
      BY CallOf DEF LoginCall
    <3> QED BY <1>4, <1>5, <3>1, <3>2
  <2> QED BY <2>1, <2>2, <2>3 DEF Lasting
<1>10. \A k \in Guard!Counter : Guard!Slot' = Guard!Slot => count'[k][Guard!Slot] = count[k][Guard!Slot]
  <2> SUFFICES ASSUME NEW k \in Guard!Counter, Guard!Slot' = Guard!Slot
               PROVE  count'[k][Guard!Slot] = count[k][Guard!Slot]
    OBVIOUS
  <2>1. gNow' < dies[k][Guard!Slot]
    BY <1>3, <1>4 DEF Lasting, Guard!Slot
  <2>2. dies[k][Guard!Slot] \in Nat /\ gNow' \in Nat
    BY <1>2, <1>3, <1>4 DEF GuardData
  <2> QED BY <1>1, <1>4, <2>1, <2>2
<1>11. Overrun'
  <2> DEFINE N == Cardinality(Client)
  <2>1. N \in Nat
    BY Clients
  <2>2. SUFFICES ASSUME ~skipped, NEW k \in Guard!Key
                 PROVE  /\ count'[<<Selected, k>>][Guard!Slot'] + Cardinality(ToCount(k)') < Limit + N
                        /\ \A s \in Guard!Slots : count'[<<Selected, k>>][s] < Limit + N
    BY <1>1 DEF Overrun
  <2> DEFINE h == <<Selected, k>>
  <2>10. h \in Guard!Counter
    BY InSelected
  <2>3. ToCount(k)' = ToCount(k)
    BY <1>1 DEF ToCount
  <2>4. ToCount(k) \in SUBSET Client
    BY DEF ToCount
  <2>5. Cardinality(ToCount(k)) \in 0..N
    BY <2>1, <2>4, PartOfClients
  <2>6. /\ count[h][Guard!Slot] + Cardinality(ToCount(k)) < Limit + N
        /\ \A s \in Guard!Slots : count[h][s] < Limit + N
    BY <2>2 DEF Overrun
  <2>7. \A s \in Guard!Slots : count'[h][s] < Limit + N
    <3> HIDE DEF h, N
    <3> QED BY <1>1, <1>2, <2>1, <2>6, <2>10
  <2>8. CASE Guard!Slot' = Guard!Slot
    BY <1>10, <2>3, <2>6, <2>7, <2>8, <2>10
  <2>9. CASE Guard!Slot' # Guard!Slot
    <3>1. Guard!Slot' > Guard!Slot
      BY <1>4, <1>5, <2>9
    <3>2. count[h][Guard!Slot'] = 0
      BY <1>8, <2>10, <3>1 DEF Lasting
    <3>3. count'[h][Guard!Slot'] = 0
      BY <1>1, <1>8, <2>10, <3>2
    <3> HIDE DEF N
    <3> QED BY <1>2, <2>1, <2>3, <2>5, <2>7, <3>3
  <2> QED BY <2>8, <2>9
<1> QED BY <1>7, <1>9, <1>10, <1>11

LEMMA GuardSteps == ASSUME GuardInv, Guard!Next PROVE GuardInv'
<1>1. ASSUME NEW c \in Client, Guard!Step(c) PROVE GuardInv'
  <2>1. Guard!CheckFails(c) \/ Guard!Answer(c) => GuardInv'
    BY LoginChecks, AccessAssumption DEF NamesAssumption
  <2>2. ASSUME NEW d \in Database, Guard!Command(c, d) PROVE GuardInv'
    BY <2>2, LoginChecks, LoginRecords, LoginExpires, LoginClears DEF Guard!Command
  <2> QED BY <1>1, <2>1, <2>2 DEF Guard!Step
<1> QED BY <1>1, ClockTicks, LoginBegins DEF Guard!Next

LEMMA GuardStarts == ASSUME Guard!Init PROVE GuardInv
<1> USE DEF Guard!Init
<1>1. Window \in Nat \ {0} /\ GuardTime \in Nat /\ Limit \in Nat \ {0} /\ gNow = 0 /\ gNow \in Nat
  BY AccessAssumption DEF LimitsAssumption
<1>2. gNow <= GuardTime
  BY <1>1
<1>3. GuardTime \div Window \in Nat /\ gNow \div Window \in Nat /\ gNow \div Window <= GuardTime \div Window
  <2>1. GuardTime <= GuardTime
    BY <1>1
  <2>2. GuardTime \div Window \in Nat
    BY <1>1, <2>1, DivMono
  <2>3. gNow \div Window <= GuardTime \div Window /\ gNow \div Window \in Nat
    BY <1>1, <1>2, DivMono
  <2> QED BY <2>2, <2>3
<1>4. Guard!Never \in Nat /\ \A m \in 0..GuardTime : m < Guard!Never
  BY <1>1 DEF Guard!Never
<1>5. GuardData
  <2>1. dies \in [Guard!Counter -> [Guard!Slots -> Nat]]
    BY <1>4
  <2>2. count \in [Guard!Counter -> [Guard!Slots -> Nat]]
    OBVIOUS
  <2>3. gOp \in [Client -> {Guard!Idle} \cup LoginCall] /\ \A c \in Client : gOp[c] = Guard!Idle
    OBVIOUS
  <2>4. skipped \in BOOLEAN
    OBVIOUS
  <2>5. gNow \in 0..GuardTime
    BY <1>1, <1>2
  <2> QED BY <2>1, <2>2, <2>3, <2>4, <2>5 DEF GuardData
<1>6. Lasting
  BY <1>4 DEF Lasting, Guard!Idle
<1>7. Overrun
  <2>1. Guard!Slot \in Guard!Slots
    BY <1>3 DEF Guard!Slot, Guard!Slots
  <2>2. \A k \in Guard!Key : ToCount(k) = {}
    BY DEF ToCount, Guard!Idle
  <2>3. \A k \in Guard!Key : Cardinality(ToCount(k)) = 0
    BY <2>2, FS_EmptySet
  <2>4. Cardinality(Client) \in Nat
    BY Clients
  <2> QED BY <1>1, <2>1, <2>3, <2>4, InSelected DEF Overrun
<1> QED BY <1>5, <1>6, <1>7 DEF GuardInv

LEMMA GuardSame == ASSUME GuardInv, UNCHANGED guardVars PROVE GuardInv'
<1>1. UNCHANGED <<gNow, count, dies, gOp, skipped>>
  BY DEF guardVars
<1>2. \A k : ToCount(k)' = ToCount(k)
  BY <1>1 DEF ToCount
<1>3. GuardData'
  BY <1>1 DEF GuardInv, GuardData, Guard!Idle
<1>4. Overrun'
  BY <1>1, <1>2 DEF GuardInv, Overrun, Guard!Slot
<1>5. Lasting'
  BY <1>1 DEF GuardInv, Lasting, Guard!Slot
<1> QED BY <1>3, <1>4, <1>5 DEF GuardInv

LEMMA GuardBounds == ASSUME GuardInv PROVE Guard!FailuresBounded
<1>1. Guard!Cardinality(Client) = Cardinality(Client)
  BY SameSize
<1> QED BY <1>1 DEF GuardInv, Overrun, Guard!FailuresBounded

\* What CountersKept says of a step.
LEMMA GuardKeeps ==
  ASSUME GuardInv, Guard!Next, NEW b \in Database, NEW k \in Guard!Key, Guard!Slot' = Guard!Slot,
         count'[<<b, k>>][Guard!Slot] < count[<<b, k>>][Guard!Slot]
  PROVE  \E c \in Client : Guard!Clear(c, b) /\ gOp[c].email = k
<1> USE DEF GuardInv
<1> DEFINE h == <<b, k>>
<1>0. h \in Guard!Counter
  BY DEF Guard!Counter
<1>1. Guard!Slot \in Guard!Slots /\ Guard!Slot \in Nat
  BY NowSlot
<1>2. count[h] \in [Guard!Slots -> Nat] /\ count[h][Guard!Slot] \in Nat
  BY <1>0, <1>1 DEF GuardData
<1>3. count'[h] # count[h]
  BY <1>2
<1>4. ~Guard!Tick
  <2>1. Guard!Tick => count'[h][Guard!Slot] = count[h][Guard!Slot]
    BY <1>0, ClockTicks
  <2> QED BY <1>2, <2>1
<1>5. PICK c \in Client, d \in Database :
        Guard!Increment(c, d) \/ Guard!IncrementLost(c, d) \/ Guard!Clear(c, d)
  <2>1. \A c \in Client, d \in Database :
          Guard!CheckBlocks(c, d) \/ Guard!CheckPasses(c, d) \/ Guard!CheckFails(c)
            \/ Guard!Answer(c) \/ Guard!Expire(c, d) => count' = count
    BY DEF Guard!CheckBlocks, Guard!CheckPasses, Guard!CheckFails, Guard!Answer, Guard!Expire
  <2>2. \A c \in Client, e \in Account, a \in Address, right \in BOOLEAN :
          Guard!Login(c, e, a, right) => count' = count
    BY DEF Guard!Login
  <2>3. count' # count
    BY <1>3
  <2>4. PICK c \in Client : Guard!Step(c)
    BY <1>4, <2>2, <2>3 DEF Guard!Next
  <2>5. ~Guard!CheckFails(c) /\ ~Guard!Answer(c)
    BY <2>1, <2>3
  <2>6. PICK d \in Database : Guard!Command(c, d)
    BY <2>4, <2>5 DEF Guard!Step
  <2> QED BY <2>1, <2>3, <2>6 DEF Guard!Command
<1>6. ~Guard!Increment(c, d) /\ ~Guard!IncrementLost(c, d)
  <2> DEFINE n == <<d, gOp[c].key>>
  <2>1. Guard!Increment(c, d) \/ Guard!IncrementLost(c, d) =>
          count' = count \/ (gOp[c].pc = "record" /\ count' = [count EXCEPT ![n][Guard!Slot] = @ + 1])
    BY DEF Guard!Increment, Guard!IncrementLost, Guard!At
  <2>2. gOp[c].pc = "record" => n \in Guard!Counter
    BY CallOf DEF Guard!Counter
  <2>3. gOp[c].pc = "record" /\ count' = [count EXCEPT ![n][Guard!Slot] = @ + 1] =>
          count'[h][Guard!Slot] \in {count[h][Guard!Slot], count[h][Guard!Slot] + 1}
    <3> HIDE DEF n, h
    <3> QED BY <1>0, <1>1, <1>2, <2>2 DEF GuardData
  <2> QED BY <1>2, <1>3, <2>1, <2>3
<1>7. Guard!Clear(c, d)
  BY <1>5, <1>6
<1>8. d = b /\ gOp[c].email = k
  <2>1. gOp[c].pc = "clear" /\ gOp[c].email \in Guard!Key
    BY <1>7, CallOf DEF Guard!Clear, Guard!At
  <2>2. count' = [count EXCEPT ![<<d, gOp[c].email>>][Guard!Slot] = 0]
    BY <1>3, <1>7 DEF Guard!Clear
  <2>3. h = <<d, gOp[c].email>>
    BY <1>0, <1>3, <2>2 DEF GuardData
  <2> QED BY <2>3
<1> QED BY <1>7, <1>8

-----------------------------------------------------------------------------
LEMMA Periods == {SharedAccess, LocalAccess, SharedTime, LocalTime} \subseteq Nat
BY AccessAssumption DEF LimitsAssumption

\* A request that goes on, ends or begins, and nothing else.
LEMMA SharedRequest ==
  ASSUME SharedInv, NEW c \in Client, NEW call \in {Shared!Idle} \cup TokenCall(Shared!Token, Database),
         tOp' = [tOp EXCEPT ![c] = call], UNCHANGED <<tNow, issued, revoked, loggedOut>>,
         call # Shared!Idle =>
           /\ call.token.at <= tNow
           /\ \A x \in call.late : call.token \in loggedOut[x]
           /\ call.asked \cap call.late # {} => tNow >= call.token.at + SharedAccess
  PROVE  SharedInv'
<1>1. tOp' \in [Client -> {Shared!Idle} \cup TokenCall(Shared!Token, Database)]
  BY DEF SharedInv
<1>2. \A d \in Client : tOp'[d] = IF d = c THEN call ELSE tOp[d]
  BY DEF SharedInv
<1>3. UNCHANGED <<Shared!Token, Shared!Idle, TokenCall(Shared!Token, Database)>>
  BY DEF Shared!Token, Shared!Idle, TokenCall
<1> QED BY <1>1, <1>2, <1>3 DEF SharedInv

LEMMA SharedSteps == ASSUME SharedInv, Shared!Next PROVE SharedInv'
<1> USE DEF SharedInv
<1>c. UNCHANGED <<Shared!Token, Shared!Idle, TokenCall(Shared!Token, Database)>>
  BY DEF Shared!Token, Shared!Idle, TokenCall
<1>t. \A t \in Shared!Token : t.at \in Nat
  BY Periods DEF Shared!Token
<1>d. \A c \in Client : tOp[c].pc # "idle" =>
        /\ tOp[c] # Shared!Idle /\ tOp[c] \in TokenCall(Shared!Token, Database)
        /\ tOp[c].token \in Shared!Token /\ tOp[c].late \subseteq Database
        /\ tOp[c].replica \in Replica /\ tOp[c].kind \in {"use", "logout"}
  BY DEF TokenCall, Shared!Idle
<1>1. CASE Shared!Tick
  <2>1. tNow' = tNow + 1 /\ UNCHANGED <<issued, revoked, tOp, loggedOut>>
    BY <1>1 DEF Shared!Tick
  <2>2. \A t \in Shared!Token : issued[t] > 0 => t.at <= tNow'
    BY <1>t, <2>1
  <2>3. \A c \in Client : tOp[c] # Shared!Idle =>
          /\ tOp[c].token.at <= tNow'
          /\ tOp[c].asked \cap tOp[c].late # {} => tNow' >= tOp[c].token.at + SharedAccess
    <3> SUFFICES ASSUME NEW c \in Client, tOp[c] # Shared!Idle
                 PROVE  /\ tOp[c].token.at <= tNow'
                        /\ tOp[c].asked \cap tOp[c].late # {} => tNow' >= tOp[c].token.at + SharedAccess
      OBVIOUS
    <3>1. tOp[c].token \in Shared!Token
      BY DEF TokenCall
    <3>2. tOp[c].token.at \in Nat /\ SharedAccess \in Nat /\ tNow \in Nat
      BY <1>t, <3>1, Periods
    <3>3. tOp[c].token.at <= tNow
      OBVIOUS
    <3>4. tOp[c].asked \cap tOp[c].late # {} => tNow >= tOp[c].token.at + SharedAccess
      OBVIOUS
    <3> QED BY <2>1, <3>2, <3>3, <3>4
  <2> QED BY <1>c, <2>1, <2>2, <2>3
<1>2. ASSUME NEW u \in Holder, Shared!Issue(u), UNCHANGED <<tNow, revoked, tOp, loggedOut>> PROVE SharedInv'
  <2> DEFINE t == [user |-> u, at |-> tNow]
  <2>1. issued' = [issued EXCEPT ![t] = IF @ = 0 THEN 1 ELSE 2] /\ t.at = tNow
    BY <1>2 DEF Shared!Issue
  <2> HIDE DEF t
  <2>2. issued' \in [Shared!Token -> Nat]
    BY <2>1
  <2>3. \A x \in Shared!Token : issued'[x] > 0 => x.at <= tNow
    <3> SUFFICES ASSUME NEW x \in Shared!Token, issued'[x] > 0 PROVE x.at <= tNow
      OBVIOUS
    <3>1. CASE x = t
      BY <2>1, <3>1, <1>t
    <3>2. CASE x # t
      BY <2>1, <3>2
    <3> QED BY <3>1, <3>2
  <2> QED BY <1>c, <1>2, <2>2, <2>3
<1>3. ASSUME NEW u \in Holder, Shared!DeleteUser(u) PROVE SharedInv'
  BY <1>c, <1>3 DEF Shared!DeleteUser
<1>4. ASSUME NEW u \in Holder, Shared!Login(u) PROVE SharedInv'
  BY <1>2, <1>4 DEF Shared!Login
<1>5. ASSUME NEW t \in Shared!Token, Shared!Refresh(t) PROVE SharedInv'
  BY <1>2, <1>5 DEF Shared!Refresh, Shared!Token
<1>6. ASSUME NEW c \in Client, Shared!Reject(c) \/ Shared!Serve(c) PROVE SharedInv'
  BY <1>6, SharedRequest DEF Shared!Reject, Shared!Serve, Shared!Respond
<1>7. ASSUME NEW c \in Client, Shared!Accept(c) PROVE SharedInv'
  <2>1. PICK s \in Database :
          /\ ~(tNow < revoked[s][tOp[c].token])
          /\ tOp' = [tOp EXCEPT ![c].pc = IF tOp[c].kind = "logout" THEN "revoke" ELSE "serve",
                                ![c].asked = {s}]
    BY <1>7 DEF Shared!Accept, Shared!IsRevoked, Shared!Reached
  <2> DEFINE o == tOp[c]
             call == [o EXCEPT !.pc = IF o.kind = "logout" THEN "revoke" ELSE "serve", !.asked = {s}]
  <2>2. /\ o.pc = "lookup" /\ UNCHANGED <<tNow, issued, revoked, loggedOut>>
        /\ tOp' = [tOp EXCEPT ![c] = call]
    BY <1>7, <2>1 DEF Shared!Accept
  <2>3. o # Shared!Idle /\ o \in TokenCall(Shared!Token, Database) /\ o.token \in Shared!Token
        /\ o.late \subseteq Database
    BY <1>d, <2>2
  <2>4. /\ call \in TokenCall(Shared!Token, Database) /\ call.token = o.token /\ call.late = o.late
        /\ call.asked = {s}
    BY <2>3 DEF TokenCall
  <2>5. s \in o.late => tNow >= o.token.at + SharedAccess
    <3> SUFFICES ASSUME s \in o.late PROVE tNow >= o.token.at + SharedAccess
      OBVIOUS
    <3>1. o.token \in loggedOut[s]
      BY <2>3
    <3>2. revoked[s][o.token] >= o.token.at + SharedAccess
      BY <3>1
    <3>3. revoked[s][o.token] \in Nat /\ o.token.at \in Nat /\ SharedAccess \in Nat
      BY <1>t, <2>3, Periods
    <3> QED BY <2>1, <3>2, <3>3
  <2>6. o.token.at <= tNow /\ \A x \in o.late : o.token \in loggedOut[x]
    BY <2>3
  <2> HIDE DEF call, o
  <2>7. call.asked \cap call.late # {} => tNow >= call.token.at + SharedAccess
    BY <2>4, <2>5
  <2> QED BY <2>2, <2>4, <2>6, <2>7, SharedRequest
<1>8. ASSUME NEW c \in Client, Shared!Revoke(c) PROVE SharedInv'
  <2> DEFINE t == tOp[c].token
             put(s) == [revoked EXCEPT ![s][t] = tNow + SharedAccess]
  <2>0. tOp[c].pc = "revoke" /\ tOp' = [tOp EXCEPT ![c] = Shared!Idle] /\ UNCHANGED <<tNow, issued>>
    BY <1>8 DEF Shared!Revoke, Shared!Respond
  <2>1. PICK r \in Database :
          \/ revoked' = put(r) /\ loggedOut' = [loggedOut EXCEPT ![r] = @ \cup {t}]
          \/ revoked' \in {put(r), revoked} /\ UNCHANGED loggedOut
    BY <1>8 DEF Shared!Revoke, Shared!Reached
  <2>2. t \in Shared!Token /\ t.at <= tNow /\ t.at \in Nat
    BY <1>d, <1>t, <2>0
  <2>3. tNow + SharedAccess \in Nat /\ SharedAccess \in Nat
    BY Periods
  <2>4. /\ put(r) \in [Database -> [Shared!Token -> Nat]]
        /\ \A q \in Database, x \in Shared!Token :
             put(r)[q][x] = IF q = r /\ x = t THEN tNow + SharedAccess ELSE revoked[q][x]
    <3>1. [revoked[r] EXCEPT ![t] = tNow + SharedAccess] \in [Shared!Token -> Nat]
      BY <2>2, <2>3
    <3> QED BY <2>2, <2>3, <3>1
  <2>5. /\ loggedOut' \in [Database -> SUBSET Shared!Token]
        /\ \A x \in Database : /\ loggedOut[x] \subseteq loggedOut'[x]
                              /\ loggedOut'[x] \subseteq loggedOut[x] \cup (IF x = r THEN {t} ELSE {})
    <3>1. CASE loggedOut' = loggedOut
      BY <3>1
    <3>2. CASE loggedOut' = [loggedOut EXCEPT ![r] = @ \cup {t}]
      <4>1. loggedOut[r] \cup {t} \in SUBSET Shared!Token
        BY <2>2
      <4> QED BY <2>2, <3>2, <4>1
    <3> QED BY <2>1, <3>1, <3>2
  <2>6. revoked' = put(r) \/ (revoked' = revoked /\ loggedOut' = loggedOut)
    BY <2>1
  <2>7. revoked' \in [Database -> [Shared!Token -> Nat]]
    BY <2>4, <2>6
  <2>8. \A q \in Database : \A x \in loggedOut'[q] : revoked'[q][x] >= x.at + SharedAccess
    <3> SUFFICES ASSUME NEW q \in Database, NEW x \in loggedOut'[q]
                 PROVE  revoked'[q][x] >= x.at + SharedAccess
      OBVIOUS
    <3>1. x \in Shared!Token /\ (x \in loggedOut[q] \/ (q = r /\ x = t))
      BY <2>5
    <3>2. x \in loggedOut[q] => revoked[q][x] >= x.at + SharedAccess
      OBVIOUS
    <3>3. tNow + SharedAccess >= t.at + SharedAccess
      BY <2>2, <2>3
    <3>4. CASE revoked' = put(r)
      <4>1. revoked'[q][x] = IF q = r /\ x = t THEN tNow + SharedAccess ELSE revoked[q][x]
        BY <2>4, <3>1, <3>4
      <4> HIDE DEF put, t
      <4> QED BY <3>1, <3>2, <3>3, <4>1
    <3>5. CASE revoked' = revoked /\ loggedOut' = loggedOut
      BY <3>5
    <3> QED BY <2>6, <3>4, <3>5
  <2>9. \A d \in Client : tOp'[d] = IF d = c THEN Shared!Idle ELSE tOp[d]
    BY <2>0
  <2>10. tOp' \in [Client -> {Shared!Idle} \cup TokenCall(Shared!Token, Database)]
    BY <2>0
  <2>11. \A d \in Client : tOp'[d] # Shared!Idle =>
           /\ tOp'[d].token.at <= tNow
           /\ \A x \in tOp'[d].late : tOp'[d].token \in loggedOut'[x]
           /\ tOp'[d].asked \cap tOp'[d].late # {} => tNow >= tOp'[d].token.at + SharedAccess
    <3> SUFFICES ASSUME NEW d \in Client, d # c, tOp[d] # Shared!Idle
                 PROVE  \A x \in tOp[d].late : tOp[d].token \in loggedOut'[x]
      BY <2>9
    <3>1. tOp[d].late \subseteq Database
      BY DEF TokenCall
    <3> QED BY <2>5, <3>1
  <2> HIDE DEF put, t
  <2> QED BY <1>c, <2>0, <2>5, <2>7, <2>8, <2>10, <2>11
<1>9. ASSUME NEW c \in Client, NEW r \in Replica, NEW t \in Shared!Token, NEW kind \in {"use", "logout"},
             Shared!Verify(c, r, t, kind)
      PROVE  SharedInv'
  <2> DEFINE call == [pc |-> "lookup", replica |-> r, token |-> t, kind |-> kind,
                      late |-> {s \in Database : t \in loggedOut[s]}, asked |-> {}]
  <2>1. tOp' = [tOp EXCEPT ![c] = call] /\ UNCHANGED <<tNow, issued, revoked, loggedOut>> /\ issued[t] > 0
    BY <1>9 DEF Shared!Verify, Shared!Fresh, Shared!Store
  <2>2. call \in TokenCall(Shared!Token, Database)
    BY DEF TokenCall
  <2> QED BY <2>1, <2>2, SharedRequest
<1>10. ASSUME NEW r \in Replica, Shared!Restart(r) PROVE SharedInv'
  <2>1. tOp' = [c \in Client |-> IF tOp[c] # Shared!Idle /\ tOp[c].replica = r THEN Shared!Idle ELSE tOp[c]]
        /\ UNCHANGED <<tNow, issued, revoked, loggedOut>>
    BY <1>10 DEF Shared!Restart
  <2>2. \A c \in Client : tOp'[c] \in {Shared!Idle, tOp[c]}
    BY <2>1
  <2>3. tOp' \in [Client -> {Shared!Idle} \cup TokenCall(Shared!Token, Database)]
    BY <2>1
  <2> QED BY <1>c, <2>1, <2>2, <2>3
<1> QED BY <1>1, <1>3, <1>4, <1>5, <1>6, <1>7, <1>8, <1>9, <1>10 DEF Shared!Next

LEMMA SharedStarts == ASSUME Shared!Init PROVE SharedInv
<1>1. Shared!Idle.pc = "idle"
  BY DEF Shared!Idle
<1> QED BY <1>1 DEF Shared!Init, SharedInv, Shared!Store

LEMMA SharedSame == ASSUME SharedInv, UNCHANGED tokenVars PROVE SharedInv'
<1>1. UNCHANGED <<Shared!Token, Shared!Idle, TokenCall(Shared!Token, Database)>>
  BY DEF Shared!Token, Shared!Idle, TokenCall
<1> QED BY <1>1 DEF SharedInv, tokenVars

LEMMA SharedFinal == ASSUME SharedInv PROVE Shared!LogoutFinal
<1> SUFFICES ASSUME NEW c \in Client, tOp[c].pc \in {"serve", "revoke"},
                    tOp[c].asked \cap tOp[c].late # {}
             PROVE  ~Shared!Fresh(tOp[c].token, SharedAccess)
  BY DEF Shared!LogoutFinal
<1>1. tOp[c] # Shared!Idle
  BY DEF Shared!Idle
<1>2. tOp[c] \in TokenCall(Shared!Token, Database)
  BY <1>1 DEF SharedInv
<1>3. tOp[c].token.at \in Nat /\ SharedAccess \in Nat
  BY <1>2, Periods DEF TokenCall, Shared!Token
<1>4. tNow >= tOp[c].token.at + SharedAccess /\ tNow \in Nat
  BY <1>1 DEF SharedInv
<1> QED BY <1>3, <1>4 DEF Shared!Fresh

\* A request that goes on, ends or begins, and nothing else.
LEMMA LocalRequest ==
  ASSUME LocalInv, NEW c \in Client, NEW call \in {Local!Idle} \cup TokenCall(Local!Token, Replica),
         tOp' = [tOp EXCEPT ![c] = call], UNCHANGED <<tNow, issued, revoked, loggedOut>>,
         call # Local!Idle =>
           /\ call.token.at <= tNow
           /\ call.replica \in call.late => call.token \in loggedOut[call.replica]
           /\ call.asked \subseteq {call.replica}
           /\ call.asked \cap call.late # {} => tNow >= call.token.at + LocalAccess
  PROVE  LocalInv'
<1>1. tOp' \in [Client -> {Local!Idle} \cup TokenCall(Local!Token, Replica)]
  BY DEF LocalInv
<1>2. \A d \in Client : tOp'[d] = IF d = c THEN call ELSE tOp[d]
  BY DEF LocalInv
<1>3. UNCHANGED <<Local!Token, Local!Idle, TokenCall(Local!Token, Replica)>>
  BY DEF Local!Token, Local!Idle, TokenCall
<1> QED BY <1>1, <1>2, <1>3 DEF LocalInv

LEMMA LocalSteps == ASSUME LocalInv, Local!Next PROVE LocalInv'
<1> USE DEF LocalInv
<1>c. UNCHANGED <<Local!Token, Local!Idle, TokenCall(Local!Token, Replica)>>
  BY DEF Local!Token, Local!Idle, TokenCall
<1>t. \A t \in Local!Token : t.at \in Nat
  BY Periods DEF Local!Token
<1>d. \A c \in Client : tOp[c].pc # "idle" =>
        /\ tOp[c] # Local!Idle /\ tOp[c] \in TokenCall(Local!Token, Replica)
        /\ tOp[c].token \in Local!Token /\ tOp[c].late \subseteq Replica
        /\ tOp[c].replica \in Replica /\ tOp[c].kind \in {"use", "logout"}
  BY DEF TokenCall, Local!Idle
<1>1. CASE Local!Tick
  <2>1. tNow' = tNow + 1 /\ UNCHANGED <<issued, revoked, tOp, loggedOut>>
    BY <1>1 DEF Local!Tick
  <2>2. \A t \in Local!Token : issued[t] > 0 => t.at <= tNow'
    BY <1>t, <2>1
  <2>3. \A c \in Client : tOp[c] # Local!Idle =>
          /\ tOp[c].token.at <= tNow'
          /\ tOp[c].asked \cap tOp[c].late # {} => tNow' >= tOp[c].token.at + LocalAccess
    <3> SUFFICES ASSUME NEW c \in Client, tOp[c] # Local!Idle
                 PROVE  /\ tOp[c].token.at <= tNow'
                        /\ tOp[c].asked \cap tOp[c].late # {} => tNow' >= tOp[c].token.at + LocalAccess
      OBVIOUS
    <3>1. tOp[c].token \in Local!Token
      BY DEF TokenCall
    <3>2. tOp[c].token.at \in Nat /\ LocalAccess \in Nat /\ tNow \in Nat
      BY <1>t, <3>1, Periods
    <3>3. tOp[c].token.at <= tNow
      OBVIOUS
    <3>4. tOp[c].asked \cap tOp[c].late # {} => tNow >= tOp[c].token.at + LocalAccess
      OBVIOUS
    <3> QED BY <2>1, <3>2, <3>3, <3>4
  <2> QED BY <1>c, <2>1, <2>2, <2>3
<1>2. ASSUME NEW u \in Holder, Local!Issue(u), UNCHANGED <<tNow, revoked, tOp, loggedOut>> PROVE LocalInv'
  <2> DEFINE t == [user |-> u, at |-> tNow]
  <2>1. issued' = [issued EXCEPT ![t] = IF @ = 0 THEN 1 ELSE 2] /\ t.at = tNow
    BY <1>2 DEF Local!Issue
  <2> HIDE DEF t
  <2>2. issued' \in [Local!Token -> Nat]
    BY <2>1
  <2>3. \A x \in Local!Token : issued'[x] > 0 => x.at <= tNow
    <3> SUFFICES ASSUME NEW x \in Local!Token, issued'[x] > 0 PROVE x.at <= tNow
      OBVIOUS
    <3>1. CASE x = t
      BY <2>1, <3>1, <1>t
    <3>2. CASE x # t
      BY <2>1, <3>2
    <3> QED BY <3>1, <3>2
  <2> QED BY <1>c, <1>2, <2>2, <2>3
<1>3. ASSUME NEW u \in Holder, Local!DeleteUser(u) PROVE LocalInv'
  BY <1>c, <1>3 DEF Local!DeleteUser
<1>4. ASSUME NEW u \in Holder, Local!Login(u) PROVE LocalInv'
  BY <1>2, <1>4 DEF Local!Login
<1>5. ASSUME NEW t \in Local!Token, Local!Refresh(t) PROVE LocalInv'
  BY <1>2, <1>5 DEF Local!Refresh, Local!Token
<1>6. ASSUME NEW c \in Client, Local!Reject(c) \/ Local!Serve(c) PROVE LocalInv'
  BY <1>6, LocalRequest DEF Local!Reject, Local!Serve, Local!Respond
<1>7. ASSUME NEW c \in Client, Local!Accept(c) PROVE LocalInv'
  <2> DEFINE o == tOp[c]
             call == [o EXCEPT !.pc = IF o.kind = "logout" THEN "revoke" ELSE "serve",
                               !.asked = {o.replica}]
  <2>1. /\ o.pc = "lookup" /\ tOp' = [tOp EXCEPT ![c] = call]
        /\ UNCHANGED <<tNow, issued, revoked, loggedOut>> /\ ~(tNow < revoked[o.replica][o.token])
    BY <1>7 DEF Local!Accept, Local!IsRevoked, Local!Reached
  <2>2. o # Local!Idle /\ o \in TokenCall(Local!Token, Replica) /\ o.token \in Local!Token /\ o.replica \in Replica
    BY <1>d, <2>1
  <2>3. /\ call \in TokenCall(Local!Token, Replica) /\ call.token = o.token /\ call.late = o.late
        /\ call.replica = o.replica /\ call.asked = {o.replica}
    BY <2>2 DEF TokenCall
  <2>4. o.replica \in o.late => tNow >= o.token.at + LocalAccess
    <3> SUFFICES ASSUME o.replica \in o.late PROVE tNow >= o.token.at + LocalAccess
      OBVIOUS
    <3>1. o.token \in loggedOut[o.replica]
      BY <2>2
    <3>2. revoked[o.replica][o.token] >= o.token.at + LocalAccess
      BY <2>2, <3>1
    <3>3. revoked[o.replica][o.token] \in Nat /\ o.token.at \in Nat /\ LocalAccess \in Nat
      BY <1>t, <2>2, Periods DEF Local!Store
    <3> QED BY <2>1, <3>2, <3>3
  <2>5. o.token.at <= tNow /\ (o.replica \in o.late => o.token \in loggedOut[o.replica])
    BY <2>2
  <2> HIDE DEF call, o
  <2>6. call.asked \subseteq {call.replica}
        /\ (call.asked \cap call.late # {} => tNow >= call.token.at + LocalAccess)
    BY <2>3, <2>4
  <2> QED BY <2>1, <2>3, <2>5, <2>6, LocalRequest
<1>8. ASSUME NEW c \in Client, Local!Revoke(c) PROVE LocalInv'
  <2> DEFINE r == tOp[c].replica  t == tOp[c].token
  <2>1. /\ tOp[c].pc = "revoke" /\ tOp' = [tOp EXCEPT ![c] = Local!Idle]
        /\ UNCHANGED <<tNow, issued>>
        /\ revoked' = [revoked EXCEPT ![r][t] = tNow + LocalAccess]
        /\ loggedOut' = [loggedOut EXCEPT ![r] = @ \cup {t}]
    BY <1>8 DEF Local!Revoke, Local!Respond, Local!Reached
  <2>2. r \in Replica /\ t \in Local!Token /\ t.at <= tNow /\ t.at \in Nat
    BY <1>d, <1>t, <2>1
  <2>3. tNow + LocalAccess \in Nat /\ LocalAccess \in Nat
    BY <2>2, Periods
  <2>4. /\ revoked' \in [Replica -> [Local!Token -> Nat]]
        /\ \A q \in Replica, x \in Local!Token :
             revoked'[q][x] = IF q = r /\ x = t THEN tNow + LocalAccess ELSE revoked[q][x]
    <3>1. [revoked[r] EXCEPT ![t] = tNow + LocalAccess] \in [Local!Token -> Nat]
      BY <2>2, <2>3
    <3> QED BY <2>1, <2>2, <2>3, <3>1
  <2>5. /\ loggedOut' \in [Replica -> SUBSET Local!Token]
        /\ \A q \in Replica : loggedOut'[q] = IF q = r THEN loggedOut[q] \cup {t} ELSE loggedOut[q]
    <3>1. loggedOut[r] \cup {t} \in SUBSET Local!Token
      BY <2>2
    <3> QED BY <2>1, <2>2, <3>1
  <2>6. \A q \in Replica : \A x \in loggedOut'[q] : revoked'[q][x] >= x.at + LocalAccess
    <3> SUFFICES ASSUME NEW q \in Replica, NEW x \in loggedOut'[q]
                 PROVE  revoked'[q][x] >= x.at + LocalAccess
      OBVIOUS
    <3>1. x \in Local!Token
      BY <2>5
    <3>2. x \in loggedOut[q] => revoked[q][x] >= x.at + LocalAccess
      OBVIOUS
    <3>3. tNow + LocalAccess >= t.at + LocalAccess
      BY <2>2, <2>3
    <3> HIDE DEF t, r
    <3> QED BY <2>4, <2>5, <3>1, <3>2, <3>3
  <2>7. \A d \in Client : tOp'[d] = IF d = c THEN Local!Idle ELSE tOp[d]
    BY <2>1
  <2>8. tOp' \in [Client -> {Local!Idle} \cup TokenCall(Local!Token, Replica)]
    BY <2>1
  <2>9. \A d \in Client : tOp'[d] # Local!Idle =>
           /\ tOp'[d].token.at <= tNow
           /\ tOp'[d].replica \in tOp'[d].late => tOp'[d].token \in loggedOut'[tOp'[d].replica]
           /\ tOp'[d].asked \subseteq {tOp'[d].replica}
           /\ tOp'[d].asked \cap tOp'[d].late # {} =>
                tNow >= tOp'[d].token.at + LocalAccess
    <3> SUFFICES ASSUME NEW d \in Client, d # c, tOp[d] # Local!Idle, tOp[d].replica \in tOp[d].late
                 PROVE  tOp[d].token \in loggedOut'[tOp[d].replica]
      BY <2>7
    <3>1. tOp[d].replica \in Replica
      BY DEF TokenCall
    <3> QED BY <2>5, <3>1
  <2> HIDE DEF t, r
  <2> QED BY <1>c, <2>1, <2>4, <2>5, <2>6, <2>8, <2>9
<1>9. ASSUME NEW c \in Client, NEW r \in Replica, NEW t \in Local!Token, NEW kind \in {"use", "logout"},
             Local!Verify(c, r, t, kind)
      PROVE  LocalInv'
  <2> DEFINE call == [pc |-> "lookup", replica |-> r, token |-> t, kind |-> kind,
                      late |-> {s \in Replica : t \in loggedOut[s]}, asked |-> {}]
  <2>1. tOp' = [tOp EXCEPT ![c] = call] /\ UNCHANGED <<tNow, issued, revoked, loggedOut>> /\ issued[t] > 0
    BY <1>9 DEF Local!Verify, Local!Fresh, Local!Store
  <2>2. call \in TokenCall(Local!Token, Replica)
    BY DEF TokenCall
  <2> QED BY <2>1, <2>2, LocalRequest
<1>10. ASSUME NEW r \in Replica, Local!Restart(r) PROVE LocalInv'
  <2>1. /\ tOp' = [c \in Client |-> IF tOp[c] # Local!Idle /\ tOp[c].replica = r THEN Local!Idle ELSE tOp[c]]
        /\ UNCHANGED <<tNow, issued>>
        /\ revoked' = [revoked EXCEPT ![r] = [t \in Local!Token |-> 0]]
        /\ loggedOut' = [loggedOut EXCEPT ![r] = {}]
    BY <1>10 DEF Local!Restart
  <2>2. \A c \in Client : tOp'[c] = Local!Idle \/ (tOp'[c] = tOp[c] /\ tOp[c].replica # r)
    BY <2>1
  <2>3. tOp' \in [Client -> {Local!Idle} \cup TokenCall(Local!Token, Replica)]
    BY <2>1
  <2>4. /\ revoked' \in [Replica -> [Local!Token -> Nat]]
        /\ loggedOut' \in [Replica -> SUBSET Local!Token]
        /\ \A q \in Replica : /\ q = r => loggedOut'[q] = {}
                              /\ q # r => loggedOut'[q] = loggedOut[q] /\ revoked'[q] = revoked[q]
    BY <2>1
  <2>5. \A q \in Replica : \A x \in loggedOut'[q] : revoked'[q][x] >= x.at + LocalAccess
    BY <2>4
  <2>6. \A d \in Client : tOp'[d] # Local!Idle =>
           /\ tOp'[d].token.at <= tNow
           /\ tOp'[d].replica \in tOp'[d].late => tOp'[d].token \in loggedOut'[tOp'[d].replica]
           /\ tOp'[d].asked \subseteq {tOp'[d].replica}
           /\ tOp'[d].asked \cap tOp'[d].late # {} =>
                tNow >= tOp'[d].token.at + LocalAccess
    <3> SUFFICES ASSUME NEW d \in Client, tOp'[d] = tOp[d], tOp[d].replica # r, tOp[d] # Local!Idle,
                        tOp[d].replica \in tOp[d].late
                 PROVE  tOp[d].token \in loggedOut'[tOp[d].replica]
      BY <2>2
    <3>1. tOp[d].replica \in Replica
      BY DEF TokenCall
    <3> QED BY <2>4, <3>1
  <2> QED BY <1>c, <2>1, <2>3, <2>4, <2>5, <2>6
<1> QED BY <1>1, <1>3, <1>4, <1>5, <1>6, <1>7, <1>8, <1>9, <1>10 DEF Local!Next

LEMMA LocalStarts == ASSUME Local!Init PROVE LocalInv
<1>1. Local!Idle.pc = "idle"
  BY DEF Local!Idle
<1> QED BY <1>1 DEF Local!Init, LocalInv, Local!Store

LEMMA LocalSame == ASSUME LocalInv, UNCHANGED tokenVars PROVE LocalInv'
<1>1. UNCHANGED <<Local!Token, Local!Idle, TokenCall(Local!Token, Replica)>>
  BY DEF Local!Token, Local!Idle, TokenCall
<1> QED BY <1>1 DEF LocalInv, tokenVars

LEMMA LocalFinal == ASSUME LocalInv PROVE Local!LogoutFinal
<1> SUFFICES ASSUME NEW c \in Client, tOp[c].pc \in {"serve", "revoke"},
                    tOp[c].asked \cap tOp[c].late # {}
             PROVE  ~Local!Fresh(tOp[c].token, LocalAccess)
  BY DEF Local!LogoutFinal
<1>1. tOp[c] # Local!Idle
  BY DEF Local!Idle
<1>2. tOp[c] \in TokenCall(Local!Token, Replica)
  BY <1>1 DEF LocalInv
<1>3. tOp[c].token.at \in Nat /\ LocalAccess \in Nat
  BY <1>2, Periods DEF TokenCall, Local!Token
<1>4. tNow >= tOp[c].token.at + LocalAccess /\ tNow \in Nat
  BY <1>1 DEF LocalInv
<1> QED BY <1>3, <1>4 DEF Local!Fresh

-----------------------------------------------------------------------------
\* The two repositories take the same steps but for what a store writes: the
\* call begins, looks again, ends, or writes its user.

UserRecord == Postgres!Record
Exists(u) == Memory!Exists(u)
Taken(e, u) == Memory!Taken(e, u)

LEMMA Backends ==
  /\ Postgres!Idle = Memory!Idle /\ Postgres!Absent = Memory!Absent /\ Postgres!Gone = Memory!Gone
  /\ \A u : Postgres!Exists(u) <=> Memory!Exists(u)
  /\ \A e, u : Postgres!Taken(e, u) <=> Memory!Taken(e, u)
  /\ MemoryPassword \subseteq Password /\ "active" \in UserStatus
  /\ "absent" \notin UserStatus /\ "deleted" \notin UserStatus
BY AccessAssumption DEF NamesAssumption, Postgres!Idle, Memory!Idle, Postgres!Absent, Memory!Absent,
   Postgres!Gone, Memory!Gone, Postgres!Exists, Memory!Exists, Postgres!Taken, Memory!Taken

UserBegins(c, call) ==
  /\ uOp[c] = Memory!Idle /\ uOp' = [uOp EXCEPT ![c] = call] /\ UNCHANGED <<users, crossed>>
  /\ IF call.pc = "create"
     THEN /\ users[call.user] = Memory!Absent
          /\ \A d \in Client : uOp[d] # Memory!Idle => uOp[d].user # call.user
     ELSE Exists(call.user) /\ Changes(call, users[call.user], call.new)
UserLooks(c) ==
  /\ uOp[c].pc = "check" /\ uOp' = [uOp EXCEPT ![c].pc = "store"] /\ UNCHANGED <<users, crossed>>
UserEnds(c) ==
  /\ uOp[c].pc \in {"create", "check", "store"} /\ uOp' = [uOp EXCEPT ![c] = Memory!Idle]
  /\ UNCHANGED <<users, crossed>>
UserMade(c) ==
  /\ uOp[c].pc = "create" /\ ~Taken(uOp[c].new.email, uOp[c].user)
  /\ users' = [users EXCEPT ![uOp[c].user] = uOp[c].new]
  /\ uOp' = [uOp EXCEPT ![c] = Memory!Idle] /\ UNCHANGED crossed
UserStored(c, w) ==
  /\ uOp[c].pc = "store" /\ Exists(uOp[c].user)
  /\ users' = [users EXCEPT ![uOp[c].user] = w]
  /\ w.email = uOp[c].new.email /\ w.status = uOp[c].new.status
  /\ w.password \in {uOp[c].new.password, users[uOp[c].user].password}
  /\ w.oauth \in {uOp[c].new.oauth, users[uOp[c].user].oauth}
  /\ crossed' = (crossed \/ Taken(uOp[c].new.email, uOp[c].user))
  /\ uOp' = [d \in Client |->
               IF d = c THEN Memory!Idle
               ELSE IF uOp[d] # Memory!Idle /\ uOp[d].user = uOp[c].user
               THEN [uOp[d] EXCEPT !.stale = TRUE] ELSE uOp[d]]
UserDeleted(u) ==
  Exists(u) /\ users' = [users EXCEPT ![u] = Memory!Gone] /\ UNCHANGED <<uOp, crossed>>

LEMMA UserUnderWay ==
  ASSUME UserData, NEW c \in Client, uOp[c].pc # "idle"
  PROVE  /\ uOp[c] # Memory!Idle /\ uOp[c] \in UserCall /\ uOp[c].user \in User
         /\ uOp[c].new \in UserRecord
BY DEF UserData, UserCall, UserRecord, Memory!Idle

LEMMA UserThere ==
  ASSUME UserData, NEW u \in User
  PROVE  /\ Exists(u) => users[u] \in UserRecord
         /\ ~Exists(u) => users[u] \in {Memory!Absent, Memory!Gone}
BY Backends DEF UserData, Exists, Memory!Exists, Memory!Absent, Memory!Gone, UserRecord, Postgres!Record

LEMMA MemorySteps ==
  ASSUME UserInv, Memory!Next
  PROVE  \/ \E u \in User : UserDeleted(u)
         \/ \E c \in Client :
              \/ \E call \in UserCall : UserBegins(c, call)
              \/ UserLooks(c) \/ UserEnds(c) \/ UserMade(c)
              \/ \E w \in UserRecord : UserStored(c, w)
<1> USE DEF UserInv
<1>1. ASSUME NEW u \in User, Memory!Delete(u) PROVE UserDeleted(u)
  BY <1>1 DEF Memory!Delete, UserDeleted, Exists
<1>2. ASSUME NEW c \in Client, Memory!Insert(c) PROVE UserEnds(c) \/ UserMade(c)
  BY <1>2 DEF Memory!Insert, UserEnds, UserMade, Taken
<1>3. ASSUME NEW c \in Client, Memory!CheckEmail(c) PROVE UserEnds(c) \/ UserLooks(c)
  BY <1>3 DEF Memory!CheckEmail, Memory!Same, UserEnds, UserLooks
<1>4. ASSUME NEW c \in Client, Memory!Store(c) PROVE UserEnds(c) \/ \E w \in UserRecord : UserStored(c, w)
  <2>1. uOp[c].pc = "store"
    BY <1>4 DEF Memory!Store
  <2>2. CASE Memory!Exists(uOp[c].user) /\ ~Memory!Refused(uOp[c].user, uOp[c].new)
    <3>1. uOp[c].new \in UserRecord
      BY <2>1, UserUnderWay
    <3>2. UserStored(c, uOp[c].new)
      BY <1>4, <2>2 DEF Memory!Store, Memory!Written, Memory!Stored, UserStored, Exists, Taken
    <3> QED BY <3>1, <3>2
  <2>3. CASE ~(Memory!Exists(uOp[c].user) /\ ~Memory!Refused(uOp[c].user, uOp[c].new))
    BY <1>4, <2>1, <2>3 DEF Memory!Store, Memory!Same, UserEnds
  <2> QED BY <2>2, <2>3
<1>5. ASSUME NEW c \in Client, NEW kind \in {"update", "password", "oauth", "status"}, NEW u \in User,
             NEW pc \in {"check", "store"}, NEW new \in UserRecord, Memory!Call(c, kind, u, pc, new),
             Changes([kind |-> kind], users[u], new)
      PROVE  \E call \in UserCall : UserBegins(c, call)
  <2> DEFINE call == [pc |-> pc, kind |-> kind, user |-> u, stale |-> FALSE, new |-> new]
  <2>1. call \in UserCall
    BY DEF UserCall, UserRecord
  <2>2. UserBegins(c, call)
    BY <1>5 DEF Memory!Call, Memory!Begin, Memory!Same, UserBegins, Exists, Changes
  <2> QED BY <2>1, <2>2
<1>6. ASSUME NEW c \in Client, NEW u \in User, Memory!UpdateOther(c, u) PROVE \E call \in UserCall : UserBegins(c, call)
  <2>1. users[u] \in UserRecord
    BY <1>6, UserThere DEF Memory!UpdateOther, Memory!Call, Exists
  <2> QED BY <1>5, <1>6, <2>1 DEF Memory!UpdateOther, Changes
<1>7. ASSUME NEW c \in Client, NEW u \in User, Memory!LinkOAuth(c, u) PROVE \E call \in UserCall : UserBegins(c, call)
  <2>1. users[u] \in UserRecord
    BY <1>7, UserThere DEF Memory!LinkOAuth, Memory!Call, Exists
  <2>2. [users[u] EXCEPT !.oauth = TRUE] \in UserRecord
        /\ Changes([kind |-> "oauth"], users[u], [users[u] EXCEPT !.oauth = TRUE])
    BY <2>1 DEF Changes, UserRecord, Postgres!Record
  <2> QED BY <1>5, <1>7, <2>2 DEF Memory!LinkOAuth
<1>8. ASSUME NEW c \in Client, NEW u \in User, NEW e \in Email, Memory!Update(c, u, e)
      PROVE  \E call \in UserCall : UserBegins(c, call)
  <2>1. users[u] \in UserRecord
    BY <1>8, UserThere DEF Memory!Update, Memory!Call, Exists
  <2>2. [users[u] EXCEPT !.email = e] \in UserRecord
        /\ Changes([kind |-> "update"], users[u], [users[u] EXCEPT !.email = e])
    BY <2>1 DEF Changes, UserRecord, Postgres!Record
  <2> QED BY <1>5, <1>8, <2>2 DEF Memory!Update
<1>9. ASSUME NEW c \in Client, NEW u \in User, NEW e \in Email, NEW p \in MemoryPassword, Memory!Create(c, u, e, p)
      PROVE  \E call \in UserCall : UserBegins(c, call)
  <2> DEFINE call == [pc |-> "create", kind |-> "create", user |-> u, stale |-> FALSE,
                      new |-> [email |-> e, password |-> p, oauth |-> FALSE, status |-> "active"]]
  <2>1. call \in UserCall
    BY Backends DEF UserCall, Postgres!Record
  <2>2. UserBegins(c, call)
    BY <1>9 DEF Memory!Create, Memory!Begin, Memory!Same, UserBegins
  <2> QED BY <2>1, <2>2
<1>10. ASSUME NEW c \in Client, NEW u \in User, NEW p \in MemoryPassword, NEW q \in MemoryPassword,
              Memory!UpdatePassword(c, u, p, q)
       PROVE  \E call \in UserCall : UserBegins(c, call)
  <2>1. users[u] \in UserRecord
    BY <1>10, UserThere DEF Memory!UpdatePassword, Exists
  <2>2. [users[u] EXCEPT !.password = q] \in UserRecord
        /\ Changes([kind |-> "password"], users[u], [users[u] EXCEPT !.password = q])
    BY <2>1, Backends DEF Changes, UserRecord, Postgres!Record
  <2> QED BY <1>5, <1>10, <2>2 DEF Memory!UpdatePassword
<1>11. ASSUME NEW c \in Client, NEW u \in User, NEW s \in UserStatus, Memory!SetStatus(c, u, s)
       PROVE  \E call \in UserCall : UserBegins(c, call)
  <2>1. users[u] \in UserRecord
    BY <1>11, UserThere DEF Memory!SetStatus, Exists
  <2>2. [users[u] EXCEPT !.status = s] \in UserRecord
        /\ Changes([kind |-> "status"], users[u], [users[u] EXCEPT !.status = s])
    BY <2>1 DEF Changes, UserRecord, Postgres!Record
  <2> QED BY <1>5, <1>11, <2>2 DEF Memory!SetStatus
<1> QED BY <1>1, <1>2, <1>3, <1>4, <1>6, <1>7, <1>8, <1>9, <1>10, <1>11 DEF Memory!Next

LEMMA PostgresSteps ==
  ASSUME UserInv, Postgres!Next
  PROVE  \/ \E u \in User : UserDeleted(u)
         \/ \E c \in Client :
              \/ \E call \in UserCall : UserBegins(c, call)
              \/ UserLooks(c) \/ UserEnds(c) \/ UserMade(c)
              \/ \E w \in UserRecord : UserStored(c, w) /\ ~Taken(uOp[c].new.email, uOp[c].user)
<1> USE Backends DEF UserInv
<1>1. ASSUME NEW u \in User, Postgres!Delete(u) PROVE UserDeleted(u)
  BY <1>1 DEF Postgres!Delete, UserDeleted, Exists
<1>2. ASSUME NEW c \in Client, Postgres!Insert(c) PROVE UserEnds(c) \/ UserMade(c)
  BY <1>2 DEF Postgres!Insert, UserEnds, UserMade, Taken
<1>3. ASSUME NEW c \in Client, Postgres!CheckEmail(c) PROVE UserEnds(c) \/ UserLooks(c)
  BY <1>3 DEF Postgres!CheckEmail, Postgres!Same, UserEnds, UserLooks
<1>4. ASSUME NEW c \in Client, Postgres!Store(c)
      PROVE  UserEnds(c) \/ \E w \in UserRecord : UserStored(c, w) /\ ~Taken(uOp[c].new.email, uOp[c].user)
  <2>1. uOp[c].pc = "store"
    BY <1>4 DEF Postgres!Store
  <2>2. CASE Postgres!Exists(uOp[c].user) /\ ~Postgres!Refused(uOp[c].user, uOp[c].new)
    <3> DEFINE u == uOp[c].user  new == uOp[c].new
               w == [new EXCEPT !.password = users[u].password, !.oauth = users[u].oauth]
    <3>1. u \in User /\ new \in UserRecord /\ users[u] \in UserRecord
      BY <2>1, <2>2, UserUnderWay, UserThere DEF Exists
    <3>2. /\ w \in UserRecord /\ w.email = new.email /\ w.status = new.status
          /\ w.password = users[u].password /\ w.oauth = users[u].oauth
      BY <3>1 DEF UserRecord, Postgres!Record
    <3>3. /\ users' = [users EXCEPT ![u] = w] /\ crossed' = (crossed \/ Taken(new.email, u))
          /\ Exists(u) /\ ~Taken(new.email, u)
      BY <1>4, <2>2 DEF Postgres!Store, Postgres!Written, Postgres!Refused, Exists, Taken
    <3>4. UserStored(c, w)
      <4> HIDE DEF w
      <4> QED BY <1>4, <2>1, <2>2, <3>2, <3>3 DEF Postgres!Store, Postgres!Stored, UserStored
    <3> QED BY <3>2, <3>3, <3>4
  <2>3. CASE ~(Postgres!Exists(uOp[c].user) /\ ~Postgres!Refused(uOp[c].user, uOp[c].new))
    BY <1>4, <2>1, <2>3 DEF Postgres!Store, Postgres!Same, UserEnds
  <2> QED BY <2>2, <2>3
<1>5. ASSUME NEW c \in Client, NEW kind \in {"update", "password", "oauth", "status"}, NEW u \in User,
             NEW pc \in {"check", "store"}, NEW new \in UserRecord, Postgres!Call(c, kind, u, pc, new),
             Changes([kind |-> kind], users[u], new)
      PROVE  \E call \in UserCall : UserBegins(c, call)
  <2> DEFINE call == [pc |-> pc, kind |-> kind, user |-> u, stale |-> FALSE, new |-> new]
  <2>1. call \in UserCall
    BY DEF UserCall, UserRecord
  <2>2. UserBegins(c, call)
    BY <1>5 DEF Postgres!Call, Postgres!Begin, Postgres!Same, UserBegins, Exists, Changes
  <2> QED BY <2>1, <2>2
<1>6. ASSUME NEW c \in Client, NEW u \in User, Postgres!UpdateOther(c, u) PROVE \E call \in UserCall : UserBegins(c, call)
  <2>1. users[u] \in UserRecord
    BY <1>6, UserThere DEF Postgres!UpdateOther, Postgres!Call, Exists
  <2> QED BY <1>5, <1>6, <2>1 DEF Postgres!UpdateOther, Changes
<1>7. ASSUME NEW c \in Client, NEW u \in User, Postgres!LinkOAuth(c, u) PROVE \E call \in UserCall : UserBegins(c, call)
  <2>1. users[u] \in UserRecord
    BY <1>7, UserThere DEF Postgres!LinkOAuth, Postgres!Call, Exists
  <2>2. [users[u] EXCEPT !.oauth = TRUE] \in UserRecord
        /\ Changes([kind |-> "oauth"], users[u], [users[u] EXCEPT !.oauth = TRUE])
    BY <2>1 DEF Changes, UserRecord, Postgres!Record
  <2> QED BY <1>5, <1>7, <2>2 DEF Postgres!LinkOAuth
<1>8. ASSUME NEW c \in Client, NEW u \in User, NEW e \in Email, Postgres!Update(c, u, e)
      PROVE  \E call \in UserCall : UserBegins(c, call)
  <2>1. users[u] \in UserRecord
    BY <1>8, UserThere DEF Postgres!Update, Postgres!Call, Exists
  <2>2. [users[u] EXCEPT !.email = e] \in UserRecord
        /\ Changes([kind |-> "update"], users[u], [users[u] EXCEPT !.email = e])
    BY <2>1 DEF Changes, UserRecord, Postgres!Record
  <2> QED BY <1>5, <1>8, <2>2 DEF Postgres!Update
<1>9. ASSUME NEW c \in Client, NEW u \in User, NEW e \in Email, NEW p \in Password, Postgres!Create(c, u, e, p)
      PROVE  \E call \in UserCall : UserBegins(c, call)
  <2> DEFINE call == [pc |-> "create", kind |-> "create", user |-> u, stale |-> FALSE,
                      new |-> [email |-> e, password |-> p, oauth |-> FALSE, status |-> "active"]]
  <2>1. call \in UserCall
    BY Backends DEF UserCall, Postgres!Record
  <2>2. UserBegins(c, call)
    BY <1>9 DEF Postgres!Create, Postgres!Begin, Postgres!Same, UserBegins
  <2> QED BY <2>1, <2>2
<1>10. ASSUME NEW c \in Client, NEW u \in User, NEW p \in Password, NEW q \in Password,
              Postgres!UpdatePassword(c, u, p, q)
       PROVE  \E call \in UserCall : UserBegins(c, call)
  <2>1. users[u] \in UserRecord
    BY <1>10, UserThere DEF Postgres!UpdatePassword, Exists
  <2>2. [users[u] EXCEPT !.password = q] \in UserRecord
        /\ Changes([kind |-> "password"], users[u], [users[u] EXCEPT !.password = q])
    BY <2>1, Backends DEF Changes, UserRecord, Postgres!Record
  <2> QED BY <1>5, <1>10, <2>2 DEF Postgres!UpdatePassword
<1>11. ASSUME NEW c \in Client, NEW u \in User, NEW s \in UserStatus, Postgres!SetStatus(c, u, s)
       PROVE  \E call \in UserCall : UserBegins(c, call)
  <2>1. users[u] \in UserRecord
    BY <1>11, UserThere DEF Postgres!SetStatus, Exists
  <2>2. [users[u] EXCEPT !.status = s] \in UserRecord
        /\ Changes([kind |-> "status"], users[u], [users[u] EXCEPT !.status = s])
    BY <2>1 DEF Changes, UserRecord, Postgres!Record
  <2> QED BY <1>5, <1>11, <2>2 DEF Postgres!SetStatus
<1> QED BY <1>1, <1>2, <1>3, <1>4, <1>6, <1>7, <1>8, <1>9, <1>10, <1>11 DEF Postgres!Next

\* The parts of the invariant by what a step does.
UserKept == UserData' /\ CreatedOnce' /\ OneField'

LEMMA UserBeginKept ==
  ASSUME UserInv, NEW c \in Client, NEW call \in UserCall, UserBegins(c, call)
  PROVE  UserKept /\ (Unique => Unique')
<1> USE DEF UserInv
<1>1. UNCHANGED <<users, crossed>> /\ uOp[c] = Memory!Idle
  BY DEF UserBegins
<1>2. \A d \in Client : uOp'[d] = IF d = c THEN call ELSE uOp[d]
  BY DEF UserBegins, UserData
<1>3. UserData'
  <2>1. uOp' \in [Client -> {Memory!Idle} \cup UserCall]
    BY DEF UserBegins, UserData
  <2> QED BY <1>1, <2>1 DEF UserData, Memory!Idle, Memory!Absent, Memory!Gone, Postgres!Record, UserCall
<1>4. \A u : Memory!Exists(u)' <=> Memory!Exists(u)
  BY <1>1 DEF Memory!Exists
<1>5. CreatedOnce'
  <2>1. SUFFICES ASSUME NEW d \in Client, uOp'[d] # Memory!Idle
        PROVE  IF uOp'[d].pc = "create"
               THEN /\ users[uOp'[d].user] = Memory!Absent
                    /\ \A e \in Client : uOp'[e] # Memory!Idle /\ uOp'[e].user = uOp'[d].user => d = e
               ELSE users[uOp'[d].user] # Memory!Absent
    BY <1>1 DEF CreatedOnce, Memory!Idle, Memory!Absent
  <2>2. CASE d = c
    <3>1. CASE call.pc = "create"
      BY <1>2, <2>2, <3>1 DEF UserBegins
    <3>2. CASE call.pc # "create"
      BY <1>2, <2>2, <3>2, Backends DEF UserBegins, Exists, Memory!Exists, Memory!Absent
    <3> QED BY <3>1, <3>2
  <2>3. CASE d # c
    <3>1. uOp'[d] = uOp[d] /\ uOp[d] # Memory!Idle
      BY <1>2, <2>1, <2>3
    <3>2. CASE uOp[d].pc = "create"
      <4>1. users[uOp[d].user] = Memory!Absent
        BY <3>1, <3>2 DEF CreatedOnce
      <4>2. call.user # uOp[d].user
        BY <3>1, <4>1, Backends DEF UserBegins, Exists, Memory!Exists, Memory!Absent
      <4>3. \A e \in Client : uOp[e] # Memory!Idle /\ uOp[e].user = uOp[d].user => d = e
        BY <3>1, <3>2 DEF CreatedOnce
      <4> QED BY <1>2, <3>1, <3>2, <4>1, <4>2, <4>3
    <3>3. CASE uOp[d].pc # "create"
      BY <3>1, <3>3 DEF CreatedOnce
    <3> QED BY <3>2, <3>3
  <2> QED BY <2>2, <2>3
<1>6. OneField'
  <2>1. \A d \in Client : uOp'[d] # Memory!Idle /\ uOp'[d].pc # "create" /\ ~uOp'[d].stale
          /\ Memory!Exists(uOp'[d].user) => Changes(uOp'[d], users[uOp'[d].user], uOp'[d].new)
    BY <1>2 DEF OneField, UserBegins
  <2> QED BY <1>1, <1>4, <2>1 DEF OneField, Memory!Idle, Changes, Memory!Exists
<1>7. Unique => Unique'
  BY <1>1 DEF Unique, Memory!Exists
<1> QED BY <1>3, <1>5, <1>6, <1>7 DEF UserKept

\* The call looks again, or ends: c's is idle then or as before but for its place.
LEMMA UserMoveKept ==
  ASSUME UserInv, NEW c \in Client, UserLooks(c) \/ UserEnds(c)
  PROVE  UserKept /\ (Unique => Unique')
<1> USE DEF UserInv
<1>1. UNCHANGED <<users, crossed>> /\ uOp[c].pc \in {"create", "check", "store"}
  BY DEF UserLooks, UserEnds
<1>2. uOp[c] # Memory!Idle /\ uOp[c] \in UserCall
  BY <1>1, UserUnderWay
<1>3. PICK call \in {Memory!Idle} \cup UserCall :
        /\ uOp' = [uOp EXCEPT ![c] = call]
        /\ call # Memory!Idle =>
             /\ call.pc # "create" /\ uOp[c].pc # "create" /\ call.kind = uOp[c].kind
             /\ call.user = uOp[c].user /\ call.new = uOp[c].new /\ call.stale = uOp[c].stale
  <2>1. CASE UserLooks(c)
    <3>1. [uOp[c] EXCEPT !.pc = "store"] \in UserCall
      BY <1>2 DEF UserCall
    <3>2. LET call == [uOp[c] EXCEPT !.pc = "store"] IN
             /\ call.pc # "create" /\ call.kind = uOp[c].kind
             /\ call.user = uOp[c].user /\ call.new = uOp[c].new /\ call.stale = uOp[c].stale
      BY <1>2 DEF UserCall
    <3> QED BY <2>1, <3>1, <3>2 DEF UserLooks
  <2>2. CASE UserEnds(c)
    BY <2>2 DEF UserEnds
  <2> QED BY <2>1, <2>2
<1>4. \A d \in Client : uOp'[d] = IF d = c THEN call ELSE uOp[d]
  BY <1>3 DEF UserData
<1>5. UserData'
  <2>1. uOp' \in [Client -> {Memory!Idle} \cup UserCall]
    BY <1>3 DEF UserData
  <2> QED BY <1>1, <2>1 DEF UserData, Memory!Idle, Memory!Absent, Memory!Gone, Postgres!Record, UserCall
<1>6. CreatedOnce'
  <2>1. \A d \in Client : uOp'[d] # Memory!Idle =>
          IF uOp'[d].pc = "create"
          THEN /\ users[uOp'[d].user] = Memory!Absent
               /\ \A e \in Client : uOp'[e] # Memory!Idle /\ uOp'[e].user = uOp'[d].user => d = e
          ELSE users[uOp'[d].user] # Memory!Absent
    BY <1>2, <1>3, <1>4 DEF CreatedOnce
  <2> QED BY <1>1, <2>1 DEF CreatedOnce, Memory!Idle, Memory!Absent
<1>7. OneField'
  <2>1. \A d \in Client : uOp'[d] # Memory!Idle /\ uOp'[d].pc # "create" /\ ~uOp'[d].stale
          /\ Memory!Exists(uOp'[d].user) => Changes(uOp'[d], users[uOp'[d].user], uOp'[d].new)
    BY <1>2, <1>3, <1>4 DEF OneField, Changes
  <2> QED BY <1>1, <2>1 DEF OneField, Memory!Idle, Changes, Memory!Exists
<1>8. Unique => Unique'
  BY <1>1 DEF Unique, Memory!Exists
<1> QED BY <1>5, <1>6, <1>7, <1>8 DEF UserKept

LEMMA UserMadeKept ==
  ASSUME UserInv, NEW c \in Client, UserMade(c)
  PROVE  UserKept /\ (Unique => Unique')
<1> USE DEF UserInv
<1> DEFINE u == uOp[c].user  new == uOp[c].new
<1>1. /\ uOp[c].pc = "create" /\ users' = [users EXCEPT ![u] = new] /\ UNCHANGED crossed
      /\ uOp' = [uOp EXCEPT ![c] = Memory!Idle] /\ ~Taken(new.email, u)
  BY DEF UserMade
<1>2. uOp[c] # Memory!Idle /\ u \in User /\ new \in UserRecord
  BY <1>1, UserUnderWay
<1>3. /\ users[u] = Memory!Absent
      /\ \A d \in Client : uOp[d] # Memory!Idle /\ uOp[d].user = u => c = d
  BY <1>1, <1>2 DEF CreatedOnce
<1> HIDE DEF u, new
<1>4. \A d \in Client : uOp'[d] = IF d = c THEN Memory!Idle ELSE uOp[d]
  BY <1>1 DEF UserData
<1>5. \A v \in User : users'[v] = IF v = u THEN new ELSE users[v]
  BY <1>1 DEF UserData
<1>6. UserData'
  <2>1. uOp' \in [Client -> {Memory!Idle} \cup UserCall]
    BY <1>1 DEF UserData
  <2>2. users' \in [User -> Postgres!Record \cup {Memory!Absent, Memory!Gone}]
    BY <1>1, <1>2 DEF UserData, UserRecord
  <2> QED BY <1>1, <2>1, <2>2 DEF UserData, Memory!Idle, Memory!Absent, Memory!Gone, Postgres!Record, UserCall
<1>7. \A d \in Client : uOp'[d] # Memory!Idle =>
        /\ d # c /\ uOp'[d] = uOp[d] /\ uOp[d].user \in User
        /\ users'[uOp[d].user] = users[uOp[d].user]
  <2> SUFFICES ASSUME NEW d \in Client, uOp'[d] # Memory!Idle
               PROVE  /\ d # c /\ uOp'[d] = uOp[d] /\ uOp[d].user \in User
                      /\ users'[uOp[d].user] = users[uOp[d].user]
    OBVIOUS
  <2>1. d # c /\ uOp'[d] = uOp[d] /\ uOp[d] # Memory!Idle
    BY <1>4
  <2>2. uOp[d].user \in User /\ uOp[d].user # u
    BY <1>3, <2>1 DEF UserData, UserCall
  <2> QED BY <1>5, <2>1, <2>2
<1>8. CreatedOnce'
  <2>1. \A d \in Client : uOp'[d] # Memory!Idle =>
          IF uOp'[d].pc = "create"
          THEN /\ users'[uOp'[d].user] = Memory!Absent
               /\ \A e \in Client : uOp'[e] # Memory!Idle /\ uOp'[e].user = uOp'[d].user => d = e
          ELSE users'[uOp'[d].user] # Memory!Absent
    BY <1>4, <1>7 DEF CreatedOnce
  <2> QED BY <2>1 DEF CreatedOnce, Memory!Idle, Memory!Absent
<1>9. OneField'
  <2>1. \A d \in Client : uOp'[d] # Memory!Idle /\ uOp'[d].pc # "create" /\ ~uOp'[d].stale
          /\ users'[uOp'[d].user].status \in UserStatus => Changes(uOp'[d], users'[uOp'[d].user], uOp'[d].new)
    BY <1>7 DEF OneField, Memory!Exists
  <2> QED BY <2>1 DEF OneField, Memory!Idle, Changes, Memory!Exists
<1>10. Unique => Unique'
  <2>1. \A v \in User \ {u} : users[v].status \in UserStatus => users[v].email # new.email
    BY <1>1 DEF Taken, Memory!Taken, Memory!Exists
  <2> QED BY <1>2, <1>5, <2>1 DEF Unique, Memory!Exists
<1> QED BY <1>6, <1>8, <1>9, <1>10 DEF UserKept

LEMMA UserStoredKept ==
  ASSUME UserInv, NEW c \in Client, NEW w \in UserRecord, UserStored(c, w)
  PROVE  UserKept /\ (Unique /\ ~Taken(uOp[c].new.email, uOp[c].user) => Unique')
<1> USE DEF UserInv
<1> DEFINE u == uOp[c].user  new == uOp[c].new
<1>1. /\ uOp[c].pc = "store" /\ users' = [users EXCEPT ![u] = w] /\ w.email = new.email
      /\ crossed' \in BOOLEAN
  BY DEF UserStored, UserData
<1>2. uOp[c] # Memory!Idle /\ u \in User /\ new \in UserRecord
  BY <1>1, UserUnderWay
<1>3. users[u] # Memory!Absent /\ w # Memory!Absent
  BY <1>1, <1>2, Backends DEF CreatedOnce, UserRecord, Postgres!Record, Memory!Absent
<1>4. \A v \in User : users'[v] = IF v = u THEN w ELSE users[v]
  BY <1>1 DEF UserData
<1>5. \A d \in Client :
        /\ d = c => uOp'[d] = Memory!Idle
        /\ d # c => \/ uOp'[d] = uOp[d] /\ (uOp[d] # Memory!Idle => uOp[d].user # u)
                    \/ uOp[d] # Memory!Idle /\ uOp[d].user = u /\ uOp'[d] = [uOp[d] EXCEPT !.stale = TRUE]
  BY DEF UserStored, UserData
<1>6. \A d \in Client : uOp'[d] # Memory!Idle =>
        /\ d # c /\ uOp[d] # Memory!Idle /\ uOp'[d] \in UserCall /\ uOp'[d].pc = uOp[d].pc
        /\ uOp'[d].user = uOp[d].user /\ uOp[d].user \in User
        /\ ~uOp'[d].stale => uOp'[d] = uOp[d] /\ uOp[d].user # u
  <2> SUFFICES ASSUME NEW d \in Client, uOp'[d] # Memory!Idle
               PROVE  /\ d # c /\ uOp[d] # Memory!Idle /\ uOp'[d] \in UserCall /\ uOp'[d].pc = uOp[d].pc
                      /\ uOp'[d].user = uOp[d].user /\ uOp[d].user \in User
                      /\ ~uOp'[d].stale => uOp'[d] = uOp[d] /\ uOp[d].user # u
    OBVIOUS
  <2>1. d # c /\ uOp[d] # Memory!Idle
    BY <1>5
  <2>2. uOp[d] \in UserCall
    BY <2>1 DEF UserData
  <2>3. /\ [uOp[d] EXCEPT !.stale = TRUE] \in UserCall
        /\ LET n == [uOp[d] EXCEPT !.stale = TRUE] IN n.pc = uOp[d].pc /\ n.user = uOp[d].user /\ n.stale
    BY <2>2 DEF UserCall
  <2>4. uOp[d].user \in User
    BY <2>2 DEF UserCall
  <2> QED BY <1>5, <2>1, <2>2, <2>3, <2>4
<1> HIDE DEF u, new
<1>7. UserData'
  <2>1. uOp' \in [Client -> {Memory!Idle} \cup UserCall]
    <3>1. uOp' = [d \in Client |-> uOp'[d]]
      BY DEF UserStored
    <3> QED BY <1>6, <3>1
  <2>2. users' \in [User -> Postgres!Record \cup {Memory!Absent, Memory!Gone}]
    BY <1>1 DEF UserData, UserRecord
  <2> QED BY <1>1, <2>1, <2>2 DEF UserData, Memory!Idle, Memory!Absent, Memory!Gone, Postgres!Record, UserCall
<1>8. CreatedOnce'
  <2>1. \A d \in Client : uOp'[d] # Memory!Idle =>
          IF uOp'[d].pc = "create"
          THEN /\ users'[uOp'[d].user] = Memory!Absent
               /\ \A e \in Client : uOp'[e] # Memory!Idle /\ uOp'[e].user = uOp'[d].user => d = e
          ELSE users'[uOp'[d].user] # Memory!Absent
    <3> SUFFICES ASSUME NEW d \in Client, uOp'[d] # Memory!Idle
        PROVE  IF uOp[d].pc = "create"
               THEN /\ users'[uOp[d].user] = Memory!Absent
                    /\ \A e \in Client : uOp'[e] # Memory!Idle /\ uOp'[e].user = uOp[d].user => d = e
               ELSE users'[uOp[d].user] # Memory!Absent
      BY <1>6
    <3>1. CASE uOp[d].pc = "create"
      <4>1. users[uOp[d].user] = Memory!Absent
        BY <1>6, <3>1 DEF CreatedOnce
      <4>2. users'[uOp[d].user] = Memory!Absent
        BY <1>3, <1>4, <1>6, <4>1
      <4> QED BY <1>6, <3>1, <4>2 DEF CreatedOnce
    <3>2. CASE uOp[d].pc # "create"
      <4>1. users[uOp[d].user] # Memory!Absent
        BY <1>6, <3>2 DEF CreatedOnce
      <4> QED BY <1>3, <1>4, <1>6, <3>2, <4>1
    <3> QED BY <3>1, <3>2
  <2> QED BY <2>1 DEF CreatedOnce, Memory!Idle, Memory!Absent
<1>9. OneField'
  <2>1. \A d \in Client : uOp'[d] # Memory!Idle /\ uOp'[d].pc # "create" /\ ~uOp'[d].stale
          /\ users'[uOp'[d].user].status \in UserStatus => Changes(uOp'[d], users'[uOp'[d].user], uOp'[d].new)
    BY <1>4, <1>6 DEF OneField, Memory!Exists
  <2> QED BY <2>1 DEF OneField, Memory!Idle, Changes, Memory!Exists
<1>10. Unique /\ ~Taken(uOp[c].new.email, uOp[c].user) => Unique'
  <2>1. ~Taken(uOp[c].new.email, uOp[c].user) =>
          \A v \in User \ {u} : users[v].status \in UserStatus => users[v].email # w.email
    BY <1>1 DEF Taken, Memory!Taken, Memory!Exists, u, new
  <2> QED BY <1>2, <1>4, <2>1 DEF Unique, Memory!Exists
<1> QED BY <1>7, <1>8, <1>9, <1>10 DEF UserKept

LEMMA UserDeletedKept ==
  ASSUME UserInv, NEW u \in User, UserDeleted(u)
  PROVE  UserKept /\ (Unique => Unique')
<1> USE DEF UserInv
<1>1. UNCHANGED <<uOp, crossed>> /\ \A v \in User : users'[v] = IF v = u THEN Memory!Gone ELSE users[v]
  BY DEF UserDeleted, UserData
<1>2. Memory!Gone.status \notin UserStatus /\ Memory!Gone # Memory!Absent /\ users[u] # Memory!Absent
  BY Backends DEF UserDeleted, Exists, Memory!Exists, Memory!Gone, Memory!Absent
<1>3. UserData'
  BY <1>1 DEF UserDeleted, UserData, Memory!Idle, Memory!Absent, Memory!Gone, Postgres!Record, UserCall
<1>4. \A d \in Client : uOp[d] # Memory!Idle => uOp[d].user \in User
  BY DEF UserData, UserCall
<1>5. CreatedOnce'
  <2>1. \A d \in Client : uOp[d] # Memory!Idle =>
          IF uOp[d].pc = "create"
          THEN /\ users'[uOp[d].user] = Memory!Absent
               /\ \A e \in Client : uOp[e] # Memory!Idle /\ uOp[e].user = uOp[d].user => d = e
          ELSE users'[uOp[d].user] # Memory!Absent
    <3> SUFFICES ASSUME NEW d \in Client, uOp[d] # Memory!Idle
        PROVE  IF uOp[d].pc = "create"
               THEN /\ users'[uOp[d].user] = Memory!Absent
                    /\ \A e \in Client : uOp[e] # Memory!Idle /\ uOp[e].user = uOp[d].user => d = e
               ELSE users'[uOp[d].user] # Memory!Absent
      OBVIOUS
    <3>1. CASE uOp[d].pc = "create"
      BY <1>1, <1>2, <1>4, <3>1 DEF CreatedOnce
    <3>2. CASE uOp[d].pc # "create"
      BY <1>1, <1>2, <1>4, <3>2 DEF CreatedOnce
    <3> QED BY <3>1, <3>2
  <2> QED BY <1>1, <2>1 DEF CreatedOnce, Memory!Idle, Memory!Absent
<1>6. OneField'
  <2>1. \A d \in Client : uOp[d] # Memory!Idle /\ uOp[d].pc # "create" /\ ~uOp[d].stale
          /\ users'[uOp[d].user].status \in UserStatus => Changes(uOp[d], users'[uOp[d].user], uOp[d].new)
    BY <1>1, <1>2, <1>4 DEF OneField, Memory!Exists
  <2> QED BY <1>1, <2>1 DEF OneField, Memory!Idle, Changes, Memory!Exists
<1>7. Unique => Unique'
  BY <1>1, <1>2 DEF Unique, Memory!Exists
<1> QED BY <1>3, <1>5, <1>6, <1>7 DEF UserKept

\* E-mails stay unique where no store crosses another one, and with the
\* database in any case.
LEMMA UserSteps ==
  /\ UserInv /\ Memory!Next => UserInv'
  /\ UserInv /\ Unique /\ Postgres!Next => UserInv' /\ Unique'
<1>1. ASSUME UserInv, Memory!Next PROVE UserInv'
  <2>1. UserKept /\ (~crossed' => Unique')
    <3>1. ~crossed => Unique
      BY <1>1 DEF UserInv
    <3>2. ASSUME NEW u \in User, UserDeleted(u) PROVE UserKept /\ (~crossed' => Unique')
      BY <1>1, <3>1, <3>2, UserDeletedKept DEF UserDeleted
    <3>3. ASSUME NEW c \in Client, NEW call \in UserCall, UserBegins(c, call) PROVE UserKept /\ (~crossed' => Unique')
      BY <1>1, <3>1, <3>3, UserBeginKept DEF UserBegins
    <3>4. ASSUME NEW c \in Client, UserLooks(c) \/ UserEnds(c) PROVE UserKept /\ (~crossed' => Unique')
      BY <1>1, <3>1, <3>4, UserMoveKept DEF UserLooks, UserEnds
    <3>5. ASSUME NEW c \in Client, UserMade(c) PROVE UserKept /\ (~crossed' => Unique')
      BY <1>1, <3>1, <3>5, UserMadeKept DEF UserMade
    <3>6. ASSUME NEW c \in Client, NEW w \in UserRecord, UserStored(c, w) PROVE UserKept /\ (~crossed' => Unique')
      BY <1>1, <3>1, <3>6, UserStoredKept DEF UserStored
    <3> QED BY <1>1, MemorySteps, <3>2, <3>3, <3>4, <3>5, <3>6
  <2> QED BY <2>1 DEF UserKept, UserInv
<1>2. ASSUME UserInv, Unique, Postgres!Next PROVE UserInv' /\ Unique'
  <2>1. UserKept /\ Unique'
    <3>2. ASSUME NEW u \in User, UserDeleted(u) PROVE UserKept /\ Unique'
      BY <1>2, <3>2, UserDeletedKept
    <3>3. ASSUME NEW c \in Client, NEW call \in UserCall, UserBegins(c, call) PROVE UserKept /\ Unique'
      BY <1>2, <3>3, UserBeginKept
    <3>4. ASSUME NEW c \in Client, UserLooks(c) \/ UserEnds(c) PROVE UserKept /\ Unique'
      BY <1>2, <3>4, UserMoveKept
    <3>5. ASSUME NEW c \in Client, UserMade(c) PROVE UserKept /\ Unique'
      BY <1>2, <3>5, UserMadeKept
    <3>6. ASSUME NEW c \in Client, NEW w \in UserRecord, UserStored(c, w),
                 ~Taken(uOp[c].new.email, uOp[c].user)
          PROVE  UserKept /\ Unique'
      BY <1>2, <3>6, UserStoredKept
    <3> QED BY <1>2, PostgresSteps, <3>2, <3>3, <3>4, <3>5, <3>6
  <2> QED BY <2>1 DEF UserKept, UserInv
<1> QED BY <1>1, <1>2

LEMMA UserStarts == ASSUME Memory!Init PROVE UserInv /\ Unique
<1>1. \A u \in User : ~Memory!Exists(u)
  BY Backends DEF Memory!Init, Memory!Exists, Memory!Absent
<1>2. UserData
  <2>1. crossed \in BOOLEAN
    BY DEF Memory!Init
  <2> QED BY <2>1 DEF Memory!Init, UserData
<1>3. CreatedOnce /\ OneField
  BY DEF Memory!Init, CreatedOnce, OneField
<1>4. Unique
  BY <1>1 DEF Unique
<1> QED BY <1>2, <1>3, <1>4 DEF UserInv

LEMMA UserSame == ASSUME UserInv, UNCHANGED userVars PROVE UserInv' /\ (Unique => Unique')
<1>1. UNCHANGED <<users, uOp, crossed>>
  BY DEF userVars
<1>2. Unique' <=> Unique
  BY <1>1 DEF Unique, Memory!Exists
<1>3. UserData'
  BY <1>1 DEF UserInv, UserData, Memory!Idle, Memory!Absent, Memory!Gone, Postgres!Record, UserCall
<1>4. CreatedOnce'
  BY <1>1 DEF UserInv, CreatedOnce, Memory!Idle, Memory!Absent
<1>5. OneField'
  BY <1>1 DEF UserInv, OneField, Memory!Idle, Memory!Exists, Changes
<1> QED BY <1>1, <1>2, <1>3, <1>4, <1>5 DEF UserInv

\* What FieldsKept says of a step.
Follows(u) ==
  /\ users[u] = Memory!Gone => users'[u] = Memory!Gone
  /\ Exists(u) /\ users'[u] # users[u] /\ users'[u] # Memory!Gone =>
       \E c \in Client :
         /\ uOp[c] # Memory!Idle /\ uOp[c].user = u /\ uOp'[c] = Memory!Idle
         /\ ~uOp[c].stale => Changes(uOp[c], users[u], users'[u])

LEMMA UserFollows ==
  ASSUME UserInv, Memory!Next \/ Postgres!Next, NEW u \in User
  PROVE  Follows(u)
<1> USE DEF UserInv
<1>1. CASE users'[u] = users[u]
  BY <1>1 DEF Follows
<1>2. ASSUME NEW v \in User, UserDeleted(v) PROVE Follows(u)
  BY <1>2 DEF UserDeleted, UserData, Follows
<1>3. ASSUME NEW c \in Client, UserMade(c), users'[u] # users[u] PROVE Follows(u)
  <2>1. uOp[c].pc = "create" /\ uOp[c] # Memory!Idle /\ uOp[c].user \in User
    BY <1>3, UserUnderWay DEF UserMade
  <2>2. users[uOp[c].user] = Memory!Absent
    BY <2>1 DEF CreatedOnce
  <2>3. u = uOp[c].user
    BY <1>3 DEF UserMade, UserData
  <2> QED BY <2>2, <2>3, Backends DEF Follows, Exists, Memory!Exists, Memory!Absent, Memory!Gone
<1>4. ASSUME NEW c \in Client, NEW w \in UserRecord, UserStored(c, w), users'[u] # users[u] PROVE Follows(u)
  <2>1. uOp[c].pc = "store" /\ uOp[c] # Memory!Idle /\ uOp[c].user \in User
    BY <1>4, UserUnderWay DEF UserStored
  <2>2. u = uOp[c].user /\ users'[u] = w /\ Exists(u) /\ uOp'[c] = Memory!Idle
    BY <1>4, <2>1 DEF UserStored, UserData
  <2>3. ~uOp[c].stale => Changes(uOp[c], users[u], uOp[c].new)
    BY <2>1, <2>2 DEF OneField, Exists
  <2>4. ~uOp[c].stale => Changes(uOp[c], users[u], w)
    BY <1>4, <2>2, <2>3 DEF UserStored, Changes
  <2>5. users[u] # Memory!Gone
    BY <2>2, Backends DEF Exists, Memory!Exists, Memory!Gone
  <2> QED BY <2>1, <2>2, <2>4, <2>5 DEF Follows
<1> QED BY <1>1, <1>2, <1>3, <1>4, MemorySteps, PostgresSteps DEF UserBegins, UserLooks, UserEnds

-----------------------------------------------------------------------------
TenantLimits == MaxMembers \in Nat \ {0} /\ IsFiniteSet(Client) /\ Cardinality(Client) \in Nat
  /\ "none" \notin Tenant /\ "removed" \notin Tenant

LEMMA SameMembers == ASSUME NEW S PROVE Tenants!Cardinality(S) = Cardinality(S)
BY DEF Tenants!Cardinality, Cardinality

LEMMA TenantBounds == TenantLimits
BY AccessAssumption, Clients DEF LimitsAssumption, NamesAssumption, TenantLimits, Tenants!NoOwner, Tenants!Removed

LEMMA TenantUnderWay ==
  ASSUME TenantData, NEW c \in Client, nOp[c].pc # "idle"
  PROVE  /\ nOp[c] \in TenantCall /\ nOp[c].tenant \in Tenant
         /\ nOp[c].pc = "create" => nOp[c].slug \in Slug /\ nOp[c].user \in User
         /\ nOp[c].pc \in {"add", "member"} => nOp[c].user \in User
         /\ nOp[c].pc = "status" => nOp[c].record \in TenantRecord
         /\ nOp[c].pc = "remove" => nOp[c].resource \in Resource
BY DEF TenantData, TenantCall, Tenants!Idle

LEMMA TenantThere ==
  ASSUME TenantData, NEW t \in Tenant
  PROVE  /\ Tenants!Exists(t) => tenants[t] \in TenantRecord
         /\ \A r \in TenantRecord : r # Tenants!NoTenant /\ r.slug \in Slug
BY DEF TenantData, Tenants!Exists, TenantRecord, Tenants!NoTenant, Tenants!Status

\* A call that begins or goes on, when the stores stay as they are.
LEMMA TenantCallKept ==
  ASSUME TenantInv, NEW c \in Client, NEW call \in {Tenants!Idle} \cup TenantCall,
         nOp' = [nOp EXCEPT ![c] = call], UNCHANGED <<tenants, members, owners, overlapped>>,
         call.pc # "create",
         call.pc = "add" => Tenants!Exists(call.tenant) /\ ~Tenants!Full(call.tenant),
         call.pc = "status" => Tenants!Exists(call.tenant) /\ tenants[call.tenant].slug = call.record.slug,
         call.pc = "remove" => owners[call.resource] \in {call.tenant, Tenants!Removed}
  PROVE  TenantInv'
<1> USE DEF TenantInv
<1>1. \A d \in Client : nOp'[d] = IF d = c THEN call ELSE nOp[d]
  BY DEF TenantData
<1>2. \A t : Tenants!Exists(t)' <=> Tenants!Exists(t)
  BY DEF Tenants!Exists, Tenants!NoTenant
<1>3. TenantData'
  <2>1. nOp' \in [Client -> {Tenants!Idle} \cup TenantCall]
    BY DEF TenantData
  <2> QED BY <2>1 DEF TenantData, Tenants!Idle, Tenants!NoTenant, Tenants!NoOwner, Tenants!Removed,
             TenantRecord, Tenants!Status, TenantCall
<1>4. \A d \in Client : Creating(d)' => Creating(d) /\ nOp'[d] = nOp[d]
  BY <1>1 DEF Creating
<1>5. MadeOnce'
  <2>1. \A d, e \in Client : Creating(d)' /\ Creating(e)' /\ nOp'[d].tenant = nOp'[e].tenant => d = e
    BY <1>4 DEF MadeOnce
  <2>2. \A d \in Client :
          /\ Creating(d)' => ~Tenants!Exists(nOp'[d].tenant)
          /\ nOp'[d].pc = "add" => Tenants!Exists(nOp'[d].tenant)
          /\ nOp'[d].pc = "status" =>
               Tenants!Exists(nOp'[d].tenant) /\ tenants[nOp'[d].tenant].slug = nOp'[d].record.slug
          /\ nOp'[d].pc = "remove" => owners[nOp'[d].resource] \in {nOp'[d].tenant, Tenants!Removed}
    BY <1>1, <1>4 DEF MadeOnce
  <2> QED BY <1>2, <2>1, <2>2 DEF MadeOnce, Tenants!Exists, Tenants!NoTenant, Tenants!Removed
<1>6. Quota'
  <2> SUFFICES ASSUME NEW t \in Tenant
               PROVE  Cardinality(members[t]) + Cardinality(Adding(t)') < MaxMembers + Cardinality(Client)
    BY DEF Quota
  <2>1. Cardinality(members[t]) \in Nat
    BY FS_CardinalityType DEF TenantData
  <2>2. Adding(t) \in SUBSET Client /\ Adding(t)' \in SUBSET Client
    BY DEF Adding
  <2>3. /\ Cardinality(Adding(t)) \in Nat /\ Cardinality(Adding(t)') \in Nat
        /\ Cardinality(Adding(t)') <= Cardinality(Client)
    BY <2>2, PartOfClients
  <2>4. CASE call.pc = "add" /\ call.tenant = t
    <3>1. Cardinality(members[t]) < MaxMembers
      BY <2>1, <2>4, TenantBounds, SameMembers DEF Tenants!Full, TenantLimits
    <3> QED BY <2>1, <2>3, <3>1, TenantBounds DEF TenantLimits
  <2>5. CASE ~(call.pc = "add" /\ call.tenant = t)
    <3>1. Adding(t)' \subseteq Adding(t)
      BY <1>1, <2>5 DEF Adding
    <3>2. Cardinality(Adding(t)') <= Cardinality(Adding(t))
      BY <2>2, <3>1, PartOfClients, FS_Subset
    <3>3. Cardinality(members[t]) + Cardinality(Adding(t)) < MaxMembers + Cardinality(Client)
      BY DEF Quota
    <3> QED BY <2>1, <2>3, <3>2, <3>3, TenantBounds DEF TenantLimits
  <2> QED BY <2>4, <2>5
<1>7. Slugs'
  <2>1. ~overlapped =>
          /\ \A d, e \in Client : Creating(d)' /\ Creating(e)' => d = e
          /\ \A d \in Client : Creating(d)' => Tenants!SlugFree(nOp'[d].slug)
          /\ Tenants!SlugsUnique
    BY <1>4 DEF Slugs
  <2> QED BY <1>2, <2>1 DEF Slugs, Tenants!SlugFree, Tenants!SlugsUnique
<1> QED BY <1>3, <1>5, <1>6, <1>7

LEMMA TenantCreates ==
  ASSUME TenantInv, NEW c \in Client, NEW t \in Tenant, NEW slug \in Slug, NEW u \in User,
         Tenants!Create(c, t, slug, u)
  PROVE  TenantInv'
<1> USE DEF TenantInv
<1> DEFINE call == [pc |-> "create", tenant |-> t, slug |-> slug, user |-> u]
<1>1. /\ nOp[c] = Tenants!Idle /\ nOp' = [nOp EXCEPT ![c] = call] /\ UNCHANGED <<tenants, members, owners>>
      /\ ~Tenants!Exists(t) /\ (\A d \in Client : nOp[d].pc = "create" => nOp[d].tenant # t)
      /\ Tenants!SlugFree(slug)
      /\ overlapped' = (overlapped \/ \E d \in Client : nOp[d].pc = "create")
  BY DEF Tenants!Create, Tenants!Begin, Tenants!Store
<1>2. \A d \in Client : nOp'[d] = IF d = c THEN call ELSE nOp[d]
  BY <1>1 DEF TenantData
<1>3. \A x : Tenants!Exists(x)' <=> Tenants!Exists(x)
  BY <1>1 DEF Tenants!Exists, Tenants!NoTenant
<1>4. TenantData'
  <2>1. nOp' \in [Client -> {Tenants!Idle} \cup TenantCall]
    BY <1>1 DEF TenantData, TenantCall
  <2>2. overlapped' \in BOOLEAN
    BY <1>1 DEF TenantData
  <2> QED BY <1>1, <2>1, <2>2 DEF TenantData, Tenants!Idle, Tenants!NoTenant, Tenants!NoOwner, Tenants!Removed,
             TenantRecord, Tenants!Status, TenantCall
<1>5. MadeOnce'
  <2>1. \A d, e \in Client : Creating(d)' /\ Creating(e)' /\ nOp'[d].tenant = nOp'[e].tenant => d = e
    BY <1>1, <1>2 DEF MadeOnce, Creating
  <2>2. \A d \in Client :
          /\ Creating(d)' => ~Tenants!Exists(nOp'[d].tenant)
          /\ nOp'[d].pc = "add" => Tenants!Exists(nOp'[d].tenant)
          /\ nOp'[d].pc = "status" =>
               Tenants!Exists(nOp'[d].tenant) /\ tenants[nOp'[d].tenant].slug = nOp'[d].record.slug
          /\ nOp'[d].pc = "remove" => owners[nOp'[d].resource] \in {nOp'[d].tenant, Tenants!Removed}
    BY <1>1, <1>2 DEF MadeOnce, Creating
  <2> QED BY <1>1, <1>3, <2>1, <2>2 DEF MadeOnce, Tenants!Exists, Tenants!NoTenant, Tenants!Removed
<1>6. Quota'
  <2>1. \A x : Adding(x)' \subseteq Adding(x) /\ Adding(x) \subseteq Client
    BY <1>2 DEF Adding
  <2>2. \A x \in Tenant : Adding(x)' = Adding(x)
    BY <1>1, <1>2 DEF Adding, Tenants!Idle
  <2> QED BY <1>1, <2>2 DEF Quota
<1>7. Slugs'
  <2> SUFFICES ASSUME ~overlapped'
               PROVE  /\ \A d, e \in Client : Creating(d)' /\ Creating(e)' => d = e
                      /\ \A d \in Client : Creating(d)' => Tenants!SlugFree(nOp[d].slug)'
                      /\ Tenants!SlugsUnique'
    BY DEF Slugs
  <2>1. ~overlapped /\ \A d \in Client : nOp[d].pc # "create"
    BY <1>1
  <2>2. \A d \in Client : Creating(d)' => d = c
    BY <1>2, <2>1 DEF Creating
  <2>3. Tenants!SlugFree(slug)'
    BY <1>1, <1>3 DEF Tenants!SlugFree
  <2>4. \A d \in Client : Creating(d)' => nOp'[d].slug = slug
    BY <1>2, <2>2
  <2>5. Tenants!SlugsUnique'
    BY <1>1, <1>3, <2>1 DEF Slugs, Tenants!SlugsUnique
  <2>6. \A d \in Client : Creating(d)' => Tenants!SlugFree(nOp[d].slug)'
    BY <2>3, <2>4 DEF Tenants!SlugFree
  <2> QED BY <2>2, <2>5, <2>6
<1> QED BY <1>4, <1>5, <1>6, <1>7

\* A tenant is written: the new one of Create, or one with another status.
LEMMA TenantWrites ==
  ASSUME TenantInv, NEW c \in Client, Tenants!Insert(c) \/ Tenants!WriteStatus(c)
  PROVE  TenantInv'
<1> USE DEF TenantInv
<1> DEFINE o == nOp[c]  t == nOp[c].tenant
<1>1. PICK record \in TenantRecord, call \in {Tenants!Idle} \cup TenantCall :
        /\ tenants' = [tenants EXCEPT ![t] = record] /\ nOp' = [nOp EXCEPT ![c] = call]
        /\ UNCHANGED <<members, owners, overlapped>> /\ o.pc \in {"create", "status"} /\ t \in Tenant
        /\ \/ /\ o.pc = "create" /\ ~Tenants!Exists(t) /\ record.slug = o.slug
              /\ call.pc = "add" /\ call.tenant = t
           \/ o.pc = "status" /\ Tenants!Exists(t) /\ record.slug = tenants[t].slug /\ call = Tenants!Idle
  <2>1. CASE Tenants!Insert(c)
    <3> DEFINE record == [status |-> "active", slug |-> o.slug]
               call == [pc |-> "add", tenant |-> t, user |-> o.user]
    <3>1. o.pc = "create" /\ t \in Tenant /\ o.slug \in Slug /\ o.user \in User
      BY <2>1, TenantUnderWay DEF Tenants!Insert
    <3>2. record \in TenantRecord /\ call \in TenantCall
      BY <3>1 DEF TenantRecord, TenantCall, Tenants!Status
    <3>3. ~Tenants!Exists(t)
      BY <3>1 DEF MadeOnce, Creating
    <3>4. /\ tenants' = [tenants EXCEPT ![t] = record] /\ nOp' = [nOp EXCEPT ![c] = call]
          /\ UNCHANGED <<members, owners, overlapped>>
          /\ record.slug = o.slug /\ call.pc = "add" /\ call.tenant = t
      BY <2>1 DEF Tenants!Insert, Tenants!Go
    <3> HIDE DEF record, call
    <3> QED BY <3>1, <3>2, <3>3, <3>4
  <2>2. CASE Tenants!WriteStatus(c)
    <3>1. o.pc = "status" /\ t \in Tenant /\ o.record \in TenantRecord
      BY <2>2, TenantUnderWay DEF Tenants!WriteStatus
    <3>2. Tenants!Exists(t) /\ o.record.slug = tenants[t].slug
      BY <3>1 DEF MadeOnce
    <3> QED BY <2>2, <3>1, <3>2 DEF Tenants!WriteStatus, Tenants!Go
  <2> QED BY <2>1, <2>2
<1> HIDE DEF o
<1>2. \A d \in Client : nOp'[d] = IF d = c THEN call ELSE nOp[d]
  BY <1>1 DEF TenantData
<1>3. \A x \in Tenant : tenants'[x] = IF x = t THEN record ELSE tenants[x]
  BY <1>1 DEF TenantData
<1> HIDE DEF t
<1>4. record # Tenants!NoTenant
  BY <1>1, TenantThere
<1>5. \A x \in Tenant : Tenants!Exists(x)' <=> (x = t \/ Tenants!Exists(x))
  BY <1>3, <1>4 DEF Tenants!Exists, Tenants!NoTenant
<1>6. TenantData'
  <2>1. nOp' \in [Client -> {Tenants!Idle} \cup TenantCall]
    BY <1>1 DEF TenantData
  <2>2. tenants' \in [Tenant -> {Tenants!NoTenant} \cup TenantRecord]
    BY <1>1 DEF TenantData
  <2> QED BY <1>1, <2>1, <2>2 DEF TenantData, Tenants!Idle, Tenants!NoTenant, Tenants!NoOwner, Tenants!Removed,
             TenantRecord, Tenants!Status, TenantCall
<1>7. \A d \in Client : Creating(d)' => d # c /\ nOp'[d] = nOp[d] /\ Creating(d) /\ nOp[d].tenant # t
  <2>1. \A d \in Client : Creating(d)' => d # c /\ nOp'[d] = nOp[d] /\ Creating(d)
    BY <1>1, <1>2 DEF Creating, Tenants!Idle
  <2>2. o.pc = "create" => Creating(c)
    BY DEF Creating, o
  <2>3. \A d \in Client : Creating(d) /\ d # c => nOp[d].tenant # t
    BY <1>1, <2>2 DEF MadeOnce, o, t
  <2> QED BY <2>1, <2>3
<1>8. \A d \in Client : nOp[d].pc \in {"create", "add", "status"} => nOp[d].tenant \in Tenant
  BY TenantUnderWay
<1>9. MadeOnce'
  <2>1. \A d, e \in Client : Creating(d)' /\ Creating(e)' /\ nOp'[d].tenant = nOp'[e].tenant => d = e
    BY <1>7 DEF MadeOnce
  <2>2. \A d \in Client : Creating(d)' => ~Tenants!Exists(nOp[d].tenant)'
    BY <1>5, <1>7, <1>8 DEF MadeOnce, Creating
  <2>3. \A d \in Client : nOp'[d].pc = "add" => Tenants!Exists(nOp[d].tenant)'
    <3> SUFFICES ASSUME NEW d \in Client, nOp'[d].pc = "add" PROVE Tenants!Exists(nOp[d].tenant)'
      OBVIOUS
    <3>1. CASE d = c
      <4>1. nOp'[d].tenant = t /\ t \in Tenant
        BY <1>1, <1>2, <3>1 DEF Tenants!Idle
      <4> QED BY <1>3, <1>4, <4>1 DEF Tenants!Exists, Tenants!NoTenant
    <3>2. CASE d # c
      <4>1. nOp'[d] = nOp[d] /\ nOp[d].tenant \in Tenant /\ Tenants!Exists(nOp[d].tenant)
        BY <1>2, <1>8, <3>2 DEF MadeOnce
      <4> QED BY <1>3, <1>4, <4>1 DEF Tenants!Exists, Tenants!NoTenant
    <3> QED BY <3>1, <3>2
  <2>4. \A d \in Client : nOp'[d].pc = "status" =>
          Tenants!Exists(nOp[d].tenant)' /\ tenants'[nOp'[d].tenant].slug = nOp'[d].record.slug
    <3> SUFFICES ASSUME NEW d \in Client, nOp'[d].pc = "status"
                 PROVE  Tenants!Exists(nOp[d].tenant)' /\ tenants'[nOp[d].tenant].slug = nOp[d].record.slug
                        /\ nOp'[d] = nOp[d]
      OBVIOUS
    <3>1. nOp'[d] = nOp[d] /\ nOp[d].pc = "status"
      BY <1>1, <1>2 DEF Tenants!Idle
    <3>2. nOp[d].tenant \in Tenant /\ Tenants!Exists(nOp[d].tenant)
          /\ tenants[nOp[d].tenant].slug = nOp[d].record.slug
      BY <1>8, <3>1 DEF MadeOnce
    <3>3. nOp[d].tenant = t => record.slug = tenants[t].slug
      BY <1>1, <3>2
    <3> QED BY <1>3, <1>5, <3>1, <3>2, <3>3
  <2>5. \A d \in Client : nOp'[d].pc = "remove" =>
          owners'[nOp'[d].resource] \in {nOp'[d].tenant, Tenants!Removed}
    BY <1>1, <1>2 DEF MadeOnce, Tenants!Idle
  <2>6. \A x \in Tenant : ~Tenants!Exists(x)' => members'[x] = {}
    BY <1>1, <1>5 DEF MadeOnce
  <2> QED BY <2>1, <2>2, <2>3, <2>4, <2>5, <2>6 DEF MadeOnce, Creating, Tenants!Exists, Tenants!NoTenant, Tenants!Removed
<1>10. Quota'
  <2> SUFFICES ASSUME NEW x \in Tenant
               PROVE  Cardinality(members[x]) + Cardinality(Adding(x)') < MaxMembers + Cardinality(Client)
    BY <1>1 DEF Quota
  <2>1. Cardinality(members[x]) \in Nat
    BY FS_CardinalityType DEF TenantData
  <2>2. Adding(x) \in SUBSET Client /\ Adding(x)' \in SUBSET Client
    BY DEF Adding
  <2>3. Cardinality(Adding(x)) \in Nat /\ Cardinality(Adding(x)') \in Nat
    BY <2>2, PartOfClients
  <2>4. CASE x # t \/ call.pc # "add"
    <3>1. Adding(x)' \subseteq Adding(x)
      BY <1>1, <1>2, <2>4 DEF Adding, Tenants!Idle
    <3>2. Cardinality(Adding(x)') <= Cardinality(Adding(x))
      BY <2>2, <3>1, PartOfClients, FS_Subset
    <3>3. Cardinality(members[x]) + Cardinality(Adding(x)) < MaxMembers + Cardinality(Client)
      BY DEF Quota
    <3> QED BY <2>1, <2>3, <3>2, <3>3, TenantBounds DEF TenantLimits
  <2>5. CASE x = t /\ call.pc = "add"
    <3>1. ~Tenants!Exists(t)
      BY <1>1, <2>5 DEF Tenants!Idle
    <3>2. members[t] = {} /\ Adding(t) = {}
      BY <1>1, <3>1 DEF MadeOnce, Adding
    <3>3. Adding(x)' \subseteq {c}
      BY <1>2, <2>5, <3>2 DEF Adding
    <3>4. Cardinality(members[x]) = 0 /\ Cardinality({c}) = 1 /\ IsFiniteSet({c})
      BY <2>5, <3>2, FS_EmptySet, FS_Singleton
    <3>5. Cardinality(Adding(x)') <= 1
      BY <2>5, <3>3, <3>4, FS_Subset
    <3>6. Cardinality({c}) <= Cardinality(Client)
      BY PartOfClients
    <3> QED BY <2>3, <3>4, <3>5, <3>6, TenantBounds DEF TenantLimits
  <2> QED BY <2>4, <2>5
<1>11. Slugs'
  <2> SUFFICES ASSUME ~overlapped
               PROVE  /\ \A d, e \in Client : Creating(d)' /\ Creating(e)' => d = e
                      /\ \A d \in Client : Creating(d)' => Tenants!SlugFree(nOp[d].slug)'
                      /\ Tenants!SlugsUnique'
    BY <1>1 DEF Slugs
  <2>1. /\ \A d, e \in Client : Creating(d) /\ Creating(e) => d = e
        /\ \A d \in Client : Creating(d) => Tenants!SlugFree(nOp[d].slug)
        /\ \A x, y \in Tenant : x # y /\ Tenants!Exists(x) /\ Tenants!Exists(y) => tenants[x].slug # tenants[y].slug
    BY DEF Slugs, Tenants!SlugsUnique
  <2>2. CASE o.pc = "create"
    <3>1. Creating(c) /\ record.slug = nOp[c].slug
      BY <1>1, <2>2 DEF Creating, o, Tenants!Idle
    <3>2. \A d \in Client : ~Creating(d)'
      BY <1>7, <2>1, <3>1
    <3>3. \A x \in Tenant : Tenants!Exists(x) => tenants[x].slug # record.slug
      BY <2>1, <3>1 DEF Tenants!SlugFree
    <3>4. \A x, y \in Tenant : x # y /\ Tenants!Exists(x)' /\ Tenants!Exists(y)' => tenants'[x].slug # tenants'[y].slug
      BY <1>3, <1>5, <2>1, <3>3
    <3> QED BY <3>2, <3>4 DEF Tenants!SlugsUnique
  <2>3. CASE o.pc = "status"
    <3>1. \A x \in Tenant : /\ Tenants!Exists(x)' <=> Tenants!Exists(x)
                            /\ tenants'[x].slug = tenants[x].slug
      BY <1>1, <1>3, <1>5, <2>3
    <3>2. \A s : Tenants!SlugFree(s) => Tenants!SlugFree(s)'
      BY <3>1 DEF Tenants!SlugFree
    <3>3. \A d \in Client : Creating(d)' => Tenants!SlugFree(nOp[d].slug)'
      BY <1>7, <2>1, <3>1 DEF Tenants!SlugFree
    <3> QED BY <1>7, <2>1, <3>1, <3>3 DEF Tenants!SlugsUnique
  <2> QED BY <1>1, <2>2, <2>3
<1> QED BY <1>6, <1>9, <1>10, <1>11

\* A member is added at the end of its call, or one is removed.
LEMMA TenantMembers ==
  ASSUME TenantInv,
         \/ \E c \in Client : Tenants!StoreMember(c)
         \/ \E t \in Tenant, u \in User : Tenants!RemoveMember(t, u)
  PROVE  TenantInv'
<1> USE DEF TenantInv
<1>1. /\ UNCHANGED <<tenants, owners, overlapped>>
      /\ \A x : Tenants!Exists(x)' <=> Tenants!Exists(x)
  BY DEF Tenants!StoreMember, Tenants!RemoveMember, Tenants!Exists, Tenants!NoTenant
<1>2. \A d \in Client : nOp'[d] \in {Tenants!Idle, nOp[d]}
  BY DEF Tenants!StoreMember, Tenants!RemoveMember, Tenants!Go, TenantData
<1>3. nOp' \in [Client -> {Tenants!Idle} \cup TenantCall]
  BY DEF Tenants!StoreMember, Tenants!RemoveMember, Tenants!Go, TenantData
<1>4. \A t \in Tenant :
        /\ members'[t] \in SUBSET User /\ IsFiniteSet(members'[t])
        /\ ~Tenants!Exists(t) => members'[t] = {}
        /\ Cardinality(members'[t]) + Cardinality(Adding(t)') < MaxMembers + Cardinality(Client)
  <2> SUFFICES ASSUME NEW t \in Tenant
               PROVE  /\ members'[t] \in SUBSET User /\ IsFiniteSet(members'[t])
                      /\ ~Tenants!Exists(t) => members'[t] = {}
                      /\ Cardinality(members'[t]) + Cardinality(Adding(t)') < MaxMembers + Cardinality(Client)
    OBVIOUS
  <2> DEFINE n == Cardinality(members[t])  a == Cardinality(Adding(t))  b == Cardinality(Adding(t)')
  <2>1. /\ members[t] \in SUBSET User /\ IsFiniteSet(members[t]) /\ n \in Nat
        /\ ~Tenants!Exists(t) => members[t] = {}
    BY FS_CardinalityType DEF TenantData, MadeOnce
  <2>2. Adding(t) \in SUBSET Client /\ Adding(t)' \in SUBSET Client
    BY DEF Adding
  <2>3. a \in Nat /\ b \in Nat
    BY <2>2, PartOfClients
  <2>4. Adding(t)' \subseteq Adding(t) /\ b <= a
    <3>1. Adding(t)' \subseteq Adding(t)
      BY <1>2 DEF Adding, Tenants!Idle
    <3> QED BY <2>2, <3>1, PartOfClients, FS_Subset
  <2>5. n + a < MaxMembers + Cardinality(Client) /\ MaxMembers \in Nat /\ Cardinality(Client) \in Nat
    BY TenantBounds DEF Quota, TenantLimits
  <2>6. ASSUME members'[t] \subseteq members[t]
        PROVE  /\ IsFiniteSet(members'[t]) /\ Cardinality(members'[t]) \in Nat /\ Cardinality(members'[t]) <= n
    BY <2>1, <2>6, FS_Subset, FS_CardinalityType
  <2>7. CASE members'[t] \subseteq members[t]
    <3>1. Cardinality(members'[t]) \in Nat /\ Cardinality(members'[t]) <= n /\ IsFiniteSet(members'[t])
      BY <2>6, <2>7
    <3>2. Cardinality(members'[t]) + b < MaxMembers + Cardinality(Client)
      <4> HIDE DEF n, a, b
      <4> QED BY <2>1, <2>3, <2>4, <2>5, <3>1
    <3>3. ~Tenants!Exists(t) => members'[t] = {}
      BY <2>1, <2>7
    <3> QED BY <2>1, <2>7, <3>1, <3>2, <3>3
  <2>8. ASSUME NEW c \in Client, Tenants!StoreMember(c), nOp[c].tenant = t
        PROVE  /\ members'[t] = members[t] \cup {nOp[c].user}
               /\ c \in Adding(t) /\ c \notin Adding(t)' /\ nOp[c].user \in User /\ Tenants!Exists(t)
    <3>1. nOp[c].pc = "add" /\ nOp[c].user \in User
      BY <2>8, TenantUnderWay DEF Tenants!StoreMember
    <3>2. Tenants!Exists(t)
      BY <2>8, <3>1 DEF MadeOnce
    <3>3. members'[t] = members[t] \cup {nOp[c].user} /\ nOp'[c] = Tenants!Idle
      BY <2>8 DEF Tenants!StoreMember, Tenants!Go, TenantData
    <3> QED BY <2>8, <3>1, <3>2, <3>3 DEF Adding, Tenants!Idle
  <2>9. ASSUME NEW c \in Client, NEW u \in User, u \notin members[t], members'[t] = members[t] \cup {u},
               c \in Adding(t), c \notin Adding(t)', Tenants!Exists(t)
        PROVE  /\ members'[t] \in SUBSET User /\ IsFiniteSet(members'[t])
               /\ Cardinality(members'[t]) + b < MaxMembers + Cardinality(Client)
    <3>1. Cardinality(members'[t]) = n + 1 /\ IsFiniteSet(members'[t])
      BY <2>1, <2>9, FS_AddElement
    <3>2. b + 1 <= a
      BY <2>2, <2>4, <2>9, LessOne
    <3>3. Cardinality(members'[t]) + b < MaxMembers + Cardinality(Client)
      <4> HIDE DEF n, a, b
      <4> QED BY <2>1, <2>3, <2>5, <3>1, <3>2
    <3> QED BY <2>1, <2>9, <3>1, <3>3
  <2>10. CASE ~(members'[t] \subseteq members[t])
    <3>1. PICK c \in Client : Tenants!StoreMember(c) /\ nOp[c].tenant = t
      BY <2>10 DEF Tenants!StoreMember, Tenants!RemoveMember, TenantData
    <3>2. nOp[c].user \notin members[t]
      BY <2>8, <2>10, <3>1
    <3> QED BY <2>8, <2>9, <3>1, <3>2
  <2> QED BY <2>7, <2>10
<1>5. members' \in [Tenant -> SUBSET User]
  <2>1. members' = [t \in Tenant |-> members'[t]]
    BY DEF Tenants!StoreMember, Tenants!RemoveMember, TenantData
  <2> QED BY <1>4, <2>1
<1>6. TenantData'
  BY <1>1, <1>3, <1>4, <1>5 DEF TenantData, Tenants!Idle, Tenants!NoTenant, Tenants!NoOwner, Tenants!Removed,
             TenantRecord, Tenants!Status, TenantCall
<1>7. \A d \in Client : Creating(d)' => Creating(d) /\ nOp'[d] = nOp[d]
  BY <1>2 DEF Creating, Tenants!Idle
<1>8. MadeOnce'
  <2>1. \A d, e \in Client : Creating(d)' /\ Creating(e)' /\ nOp'[d].tenant = nOp'[e].tenant => d = e
    BY <1>7 DEF MadeOnce
  <2>2. \A d \in Client :
          /\ Creating(d)' => ~Tenants!Exists(nOp'[d].tenant)
          /\ nOp'[d].pc = "add" => Tenants!Exists(nOp'[d].tenant)
          /\ nOp'[d].pc = "status" =>
               Tenants!Exists(nOp'[d].tenant) /\ tenants[nOp'[d].tenant].slug = nOp'[d].record.slug
          /\ nOp'[d].pc = "remove" => owners[nOp'[d].resource] \in {nOp'[d].tenant, Tenants!Removed}
    BY <1>2, <1>7 DEF MadeOnce, Tenants!Idle
  <2> QED BY <1>1, <1>4, <2>1, <2>2 DEF MadeOnce, Tenants!Exists, Tenants!NoTenant, Tenants!Removed
<1>9. Quota'
  BY <1>4 DEF Quota
<1>10. Slugs'
  <2>1. ~overlapped =>
          /\ \A d, e \in Client : Creating(d)' /\ Creating(e)' => d = e
          /\ \A d \in Client : Creating(d)' => Tenants!SlugFree(nOp'[d].slug)
          /\ Tenants!SlugsUnique
    BY <1>7 DEF Slugs
  <2> QED BY <1>1, <2>1 DEF Slugs, Tenants!SlugFree, Tenants!SlugsUnique
<1> QED BY <1>6, <1>8, <1>9, <1>10

\* A resource is registered with the tenant of its scope, or removed by the
\* call that has found it there.
LEMMA TenantOwners ==
  ASSUME TenantInv, NEW c \in Client,
         Tenants!Remove(c) \/ \E x \in Resource : Tenants!Register(c, x)
  PROVE  TenantInv'
<1> USE DEF TenantInv
<1>1. /\ UNCHANGED <<tenants, members, overlapped>> /\ nOp' = [nOp EXCEPT ![c] = Tenants!Idle]
      /\ \A x : Tenants!Exists(x)' <=> Tenants!Exists(x)
  BY DEF Tenants!Remove, Tenants!Register, Tenants!Go, Tenants!Exists, Tenants!NoTenant
<1>2. \A d \in Client : nOp'[d] = IF d = c THEN Tenants!Idle ELSE nOp[d]
  BY <1>1 DEF TenantData
<1>3. PICK x \in Resource, v \in Tenant \cup {Tenants!Removed} :
        /\ owners' = [owners EXCEPT ![x] = v]
        /\ v = Tenants!Removed \/ owners[x] = Tenants!NoOwner
  <2>1. CASE Tenants!Remove(c)
    BY <2>1, TenantUnderWay DEF Tenants!Remove
  <2>2. ASSUME NEW x \in Resource, Tenants!Register(c, x)
        PROVE  \E v \in Tenant : owners' = [owners EXCEPT ![x] = v] /\ owners[x] = Tenants!NoOwner
    BY <2>2, TenantUnderWay DEF Tenants!Register
  <2> QED BY <2>1, <2>2
<1>4. \A y \in Resource : owners'[y] = IF y = x THEN v ELSE owners[y]
  BY <1>3 DEF TenantData
<1>5. TenantData'
  <2>1. nOp' \in [Client -> {Tenants!Idle} \cup TenantCall]
    BY <1>1 DEF TenantData
  <2>2. owners' \in [Resource -> Tenant \cup {Tenants!NoOwner, Tenants!Removed}]
    BY <1>3 DEF TenantData
  <2> QED BY <1>1, <2>1, <2>2 DEF TenantData, Tenants!Idle, Tenants!NoTenant, Tenants!NoOwner, Tenants!Removed,
             TenantRecord, Tenants!Status, TenantCall
<1>6. \A d \in Client : Creating(d)' => Creating(d) /\ nOp'[d] = nOp[d]
  BY <1>2 DEF Creating, Tenants!Idle
<1>7. MadeOnce'
  <2>1. \A d, e \in Client : Creating(d)' /\ Creating(e)' /\ nOp'[d].tenant = nOp'[e].tenant => d = e
    BY <1>6 DEF MadeOnce
  <2>2. \A d \in Client :
          /\ Creating(d)' => ~Tenants!Exists(nOp'[d].tenant)
          /\ nOp'[d].pc = "add" => Tenants!Exists(nOp'[d].tenant)
          /\ nOp'[d].pc = "status" =>
               Tenants!Exists(nOp'[d].tenant) /\ tenants[nOp'[d].tenant].slug = nOp'[d].record.slug
    BY <1>2, <1>6 DEF MadeOnce, Tenants!Idle
  <2>3. \A d \in Client : nOp'[d].pc = "remove" => owners'[nOp'[d].resource] \in {nOp'[d].tenant, Tenants!Removed}
    <3> SUFFICES ASSUME NEW d \in Client, nOp[d].pc = "remove"
                 PROVE  owners'[nOp[d].resource] \in {nOp[d].tenant, Tenants!Removed}
      BY <1>2 DEF Tenants!Idle
    <3>1. nOp[d].resource \in Resource /\ nOp[d].tenant \in Tenant
      BY TenantUnderWay
    <3>2. owners[nOp[d].resource] \in {nOp[d].tenant, Tenants!Removed}
      BY DEF MadeOnce
    <3>3. owners[nOp[d].resource] # Tenants!NoOwner
      BY <3>1, <3>2, TenantBounds DEF TenantLimits, Tenants!NoOwner, Tenants!Removed
    <3> QED BY <1>3, <1>4, <3>1, <3>2, <3>3
  <2> QED BY <1>1, <2>1, <2>2, <2>3 DEF MadeOnce, Tenants!Exists, Tenants!NoTenant, Tenants!Removed
<1>8. Quota'
  <2>1. \A t \in Tenant : Adding(t)' = Adding(t)
    BY <1>2 DEF Adding, Tenants!Idle, Tenants!Remove, Tenants!Register
  <2> QED BY <1>1, <2>1 DEF Quota
<1>9. Slugs'
  <2>1. ~overlapped =>
          /\ \A d, e \in Client : Creating(d)' /\ Creating(e)' => d = e
          /\ \A d \in Client : Creating(d)' => Tenants!SlugFree(nOp'[d].slug)
          /\ Tenants!SlugsUnique
    BY <1>6 DEF Slugs
  <2> QED BY <1>1, <2>1 DEF Slugs, Tenants!SlugFree, Tenants!SlugsUnique
<1> QED BY <1>5, <1>7, <1>8, <1>9

LEMMA TenantSteps == ASSUME TenantInv, Tenants!Next PROVE TenantInv'
<1> USE DEF TenantInv
<1>0. Tenants!Idle.pc = "idle" /\ Tenants!Idle \in {Tenants!Idle} \cup TenantCall
  BY DEF Tenants!Idle
<1>1. ASSUME NEW c \in Client, NEW t \in Tenant, NEW s \in Tenants!Status, Tenants!ReadStatus(c, t, s) PROVE TenantInv'
  <2> DEFINE record == [tenants[t] EXCEPT !.status = s]
             call == [pc |-> "status", tenant |-> t, record |-> record]
  <2>1. /\ Tenants!Exists(t) /\ nOp' = [nOp EXCEPT ![c] = call]
        /\ UNCHANGED <<tenants, members, owners, overlapped>>
    BY <1>1 DEF Tenants!ReadStatus, Tenants!Begin, Tenants!Store
  <2>2. record \in TenantRecord /\ record.slug = tenants[t].slug
    BY <2>1, TenantThere DEF TenantRecord
  <2>3. call \in TenantCall /\ call.pc = "status" /\ call.tenant = t /\ call.record = record
    BY <2>2 DEF TenantCall
  <2> HIDE DEF call
  <2> QED BY <2>1, <2>2, <2>3, TenantCallKept
<1>2. ASSUME NEW c \in Client, NEW t \in Tenant, NEW u \in User,
             Tenants!AddMember(c, t, u) \/ Tenants!Resolve(c, t, u)
      PROVE  TenantInv'
  <2>1. PICK pc \in {"add", "member"} :
          /\ nOp' = [nOp EXCEPT ![c] = [pc |-> pc, tenant |-> t, user |-> u]]
          /\ UNCHANGED <<tenants, members, owners, overlapped>>
          /\ pc = "add" => Tenants!Exists(t) /\ ~Tenants!Full(t)
    BY <1>2 DEF Tenants!AddMember, Tenants!Resolve, Tenants!Begin, Tenants!Store
  <2> DEFINE call == [pc |-> pc, tenant |-> t, user |-> u]
  <2>2. call \in TenantCall /\ call.pc = pc /\ call.tenant = t /\ nOp' = [nOp EXCEPT ![c] = call]
    BY <2>1 DEF TenantCall
  <2> HIDE DEF call
  <2> QED BY <2>1, <2>2, TenantCallKept
<1>3. ASSUME NEW c \in Client, Tenants!Grant(c) PROVE TenantInv'
  <2> DEFINE scope == [pc |-> "scope", tenant |-> nOp[c].tenant]
  <2>1. scope \in TenantCall /\ scope.pc = "scope"
    BY <1>3, TenantUnderWay DEF Tenants!Grant, TenantCall
  <2>2. /\ UNCHANGED <<tenants, members, owners, overlapped>>
        /\ \E call \in {scope, Tenants!Idle} : nOp' = [nOp EXCEPT ![c] = call]
    BY <1>3 DEF Tenants!Grant, Tenants!Go, Tenants!Store
  <2> HIDE DEF scope
  <2> QED BY <1>0, <2>1, <2>2, TenantCallKept
<1>4. ASSUME NEW c \in Client, NEW x \in Resource, Tenants!Unregister(c, x) PROVE TenantInv'
  <2> DEFINE t == nOp[c].tenant
             remove == [pc |-> "remove", tenant |-> t, resource |-> x]
  <2>1. remove \in TenantCall /\ remove.pc = "remove" /\ remove.tenant = t /\ remove.resource = x
    BY <1>4, TenantUnderWay DEF Tenants!Unregister, TenantCall
  <2>2. /\ UNCHANGED <<tenants, members, owners, overlapped>>
        /\ \/ owners[x] = t /\ nOp' = [nOp EXCEPT ![c] = remove]
           \/ nOp' = [nOp EXCEPT ![c] = Tenants!Idle]
    BY <1>4 DEF Tenants!Unregister, Tenants!Owns, Tenants!Go, Tenants!Store
  <2> HIDE DEF remove, t
  <2> QED BY <1>0, <2>1, <2>2, TenantCallKept
<1> QED BY <1>1, <1>2, <1>3, <1>4, TenantCreates, TenantWrites, TenantMembers, TenantOwners
    DEF Tenants!Next

LEMMA TenantStarts == ASSUME Tenants!Init PROVE TenantInv
<1> USE DEF Tenants!Init
<1>1. \A t \in Tenant : ~Tenants!Exists(t) /\ members[t] = {} /\ Adding(t) = {}
  BY DEF Tenants!Exists, Adding, Tenants!Idle
<1>2. TenantData
  <2>1. \A t \in Tenant : IsFiniteSet(members[t])
    BY <1>1, FS_EmptySet
  <2>2. overlapped \in BOOLEAN
    OBVIOUS
  <2> QED BY <2>1, <2>2 DEF TenantData
<1>3. MadeOnce /\ Slugs
  BY <1>1 DEF MadeOnce, Slugs, Creating, Tenants!Idle, Tenants!SlugsUnique
<1>4. Quota
  <2> SUFFICES ASSUME NEW t \in Tenant
               PROVE  Cardinality(members[t]) + Cardinality(Adding(t)) < MaxMembers + Cardinality(Client)
    BY DEF Quota
  <2>1. Cardinality(members[t]) = 0 /\ Cardinality(Adding(t)) = 0
    BY <1>1, FS_EmptySet
  <2> QED BY <2>1, TenantBounds DEF TenantLimits
<1> QED BY <1>2, <1>3, <1>4 DEF TenantInv

LEMMA TenantSame == ASSUME TenantInv, UNCHANGED tenantVars PROVE TenantInv'
<1> USE DEF TenantInv
<1>1. UNCHANGED <<tenants, members, owners, nOp, overlapped>>
  BY DEF tenantVars
<1>2. TenantData'
  BY <1>1 DEF TenantData, Tenants!Idle, Tenants!NoTenant, Tenants!NoOwner, Tenants!Removed,
       TenantRecord, Tenants!Status, TenantCall
<1>3. MadeOnce'
  BY <1>1 DEF MadeOnce, Creating, Tenants!Exists, Tenants!NoTenant, Tenants!Removed
<1>4. Quota'
  <2>1. \A t : Adding(t)' = Adding(t)
    BY <1>1 DEF Adding
  <2> QED BY <1>1, <2>1 DEF Quota
<1>5. Slugs'
  BY <1>1 DEF Slugs, Creating, Tenants!SlugFree, Tenants!SlugsUnique, Tenants!Exists, Tenants!NoTenant
<1> QED BY <1>2, <1>3, <1>4, <1>5

LEMMA TenantFacts == ASSUME TenantInv PROVE Tenants!MembersBounded /\ Tenants!SlugsUnique
<1>1. Tenants!SlugsUnique
  BY DEF TenantInv, Slugs, Tenants!SlugsUnique
<1>2. Tenants!MembersBounded
  <2> SUFFICES ASSUME NEW t \in Tenant PROVE Cardinality(members[t]) < MaxMembers + Cardinality(Client)
    BY SameMembers DEF Tenants!MembersBounded
  <2>1. Cardinality(members[t]) \in Nat
    BY FS_CardinalityType DEF TenantInv, TenantData
  <2>2. Adding(t) \in SUBSET Client
    BY DEF Adding
  <2>3. Cardinality(Adding(t)) \in Nat
    BY <2>2, PartOfClients
  <2> QED BY <2>1, <2>3, TenantBounds DEF TenantLimits, TenantInv, Quota
<1> QED BY <1>1, <1>2

\* What OwnersKept says of a step.
LEMMA TenantKeeps ==
  ASSUME TenantInv, Tenants!Next, NEW x \in Resource, owners[x] # owners'[x], owners[x] # Tenants!NoOwner
  PROVE  \E c \in Client : nOp[c].pc = "remove" /\ nOp[c].tenant = owners[x] /\ nOp'[c] = Tenants!Idle
<1> USE DEF TenantInv
<1>1. PICK c \in Client : Tenants!Remove(c) \/ \E y \in Resource : Tenants!Register(c, y)
  <2>1. owners' # owners
    OBVIOUS
  <2> QED BY <2>1 DEF Tenants!Next, Tenants!RemoveMember, Tenants!Insert, Tenants!WriteStatus, Tenants!StoreMember,
       Tenants!Grant, Tenants!Unregister, Tenants!ReadStatus, Tenants!AddMember, Tenants!Resolve, Tenants!Create,
       Tenants!Store
<1>2. ~(\E y \in Resource : Tenants!Register(c, y))
  BY DEF Tenants!Register, TenantData
<1>3. Tenants!Remove(c)
  BY <1>1, <1>2
<1>4. nOp[c].resource = x /\ nOp[c].pc = "remove" /\ nOp'[c] = Tenants!Idle /\ owners'[x] = Tenants!Removed
  BY <1>3, TenantUnderWay DEF Tenants!Remove, Tenants!Go, TenantData
<1>5. owners[x] = nOp[c].tenant
  BY <1>4 DEF MadeOnce
<1> QED BY <1>4, <1>5

-----------------------------------------------------------------------------
LEMMA SsoLimits ==
  /\ {SsoTime, Timeout, SessionTTL, KeyTTL, MaxSession, MaxKey} \subseteq Nat /\ SsoTime >= 1
  /\ Sso!Never = SsoTime + 1 /\ Sso!Never \in Nat /\ Sso!NoSession = 0
  /\ Sso!Session = 1..MaxSession
BY AccessAssumption DEF LimitsAssumption, Sso!Never, Sso!NoSession, Sso!Session

\* What a call may hold, by its place.
LEMMA SsoUnderWay ==
  ASSUME SsoInv, NEW c \in Client
  PROVE  /\ sNow \in Nat /\ sNow <= SsoTime /\ Len(retired) \in Nat
         /\ sOp[c].pc # "idle" => sOp[c] \in SsoCall
         /\ sOp[c].pc \in {"exchange", "keys", "fetch", "answered"} => sOp[c].email \in Account
         /\ sOp[c].pc \in {"keys", "fetch", "answered", "refused"} => sOp[c].key \in Nat
         /\ sOp[c].pc \in {"fetch", "answered"} => sOp[c].force \in BOOLEAN /\ sOp[c].since \in Nat
         /\ sOp[c].pc = "answered" => sOp[c].keys \subseteq Nat
<1>1. sNow \in Nat /\ sNow <= SsoTime /\ Len(retired) \in Nat
  BY SsoLimits DEF SsoInv, SsoData
<1>2. sOp[c].pc # "idle" => sOp[c] \in SsoCall
  BY DEF SsoInv, SsoData, Sso!Idle
<1> QED BY <1>1, <1>2 DEF SsoCall

\* One call moves; the sessions and the keys stay as they are.
LEMMA SsoCallKept ==
  ASSUME SsoInv, NEW c \in Client, NEW call \in {Sso!Idle} \cup SsoCall,
         sOp' = [sOp EXCEPT ![c] = call], UNCHANGED <<sNow, sessions, begun, retired, cache, uses>>,
         KeysOf(call)
  PROVE  SsoInv'
<1> USE DEF SsoInv
<1>1. sOp' \in [Client -> {Sso!Idle} \cup SsoCall] /\ \A d \in Client : sOp'[d] = IF d = c THEN call ELSE sOp[d]
  BY DEF SsoData
<1>2. SsoData'
  BY <1>1 DEF SsoData, Sso!Idle, Sso!Session, SsoCall
<1>3. \A d \in Client : KeysOf(sOp[d])'
  BY <1>1 DEF KeysOf, Sso!Never
<1>4. StatesOnce'
  BY DEF StatesOnce, Sso!Session, Sso!NoSession
<1> QED BY <1>2, <1>3, <1>4

LEMMA SsoTicks == ASSUME SsoInv, Sso!Tick PROVE SsoInv'
<1> USE DEF SsoInv
<1>1. /\ sNow < SsoTime /\ sNow' = sNow + 1 /\ UNCHANGED <<sessions, begun, retired, cache, sOp, uses>>
      /\ \A c \in Client : sOp[c].pc \in {"fetch", "answered"} => sNow < sOp[c].since + Timeout
  BY DEF Sso!Tick
<1>2. sNow \in Nat /\ sNow >= 1 /\ {SsoTime, Timeout} \subseteq Nat /\ cache.at \in Nat
  BY SsoLimits DEF SsoData
<1>3. SsoData'
  <2>1. sNow' \in 1..SsoTime /\ cache.at <= sNow'
    BY <1>1, <1>2, SsoLimits DEF SsoData
  <2> QED BY <1>1, <2>1 DEF SsoData, Sso!Idle, Sso!Session, SsoCall
<1>4. \A c \in Client : KeysOf(sOp[c])'
  <2> SUFFICES ASSUME NEW c \in Client PROVE KeysOf(sOp[c])'
    OBVIOUS
  <2>1. KeysOf(sOp[c])
    OBVIOUS
  <2>2. sOp[c].pc \in {"fetch", "answered"} => sOp[c].since <= sNow' /\ sNow' <= sOp[c].since + Timeout
    <3> SUFFICES ASSUME sOp[c].pc \in {"fetch", "answered"}
                 PROVE  sOp[c].since <= sNow' /\ sNow' <= sOp[c].since + Timeout
      OBVIOUS
    <3>1. sOp[c].since \in Nat /\ sNow < sOp[c].since + Timeout /\ sOp[c].since <= sNow
      BY <1>1, <2>1, SsoUnderWay DEF KeysOf
    <3> QED BY <1>1, <1>2, <3>1
  <2> QED BY <1>1, <2>1, <2>2 DEF KeysOf, Sso!Never
<1>5. StatesOnce'
  BY <1>1 DEF StatesOnce, Sso!Session, Sso!NoSession
<1> QED BY <1>1, <1>3, <1>4, <1>5

\* The provider publishes a key or withdraws one: it was there until now.
LEMMA SsoKeys ==
  ASSUME SsoInv, Sso!Rotate \/ \E k \in 1..MaxKey : Sso!Retire(k)
  PROVE  SsoInv'
<1> USE DEF SsoInv
<1>1. UNCHANGED <<sNow, sessions, begun, cache, sOp, uses>>
  BY DEF Sso!Rotate, Sso!Retire
<1>2. retired \in Seq(Nat) /\ Len(retired) \in Nat /\ Len(retired) >= 1 /\ sNow \in Nat /\ sNow <= SsoTime
      /\ Sso!Never = SsoTime + 1 /\ Sso!Never \in Nat /\ cache.at \in Nat /\ {SsoTime, Timeout} \subseteq Nat
      /\ cache.at <= sNow
  BY SsoLimits DEF SsoData
<1>3. /\ retired' \in Seq(Nat) /\ Len(retired') \in Nat /\ Len(retired') >= Len(retired)
      /\ \A j \in 1..Len(retired) :
           /\ retired'[j] = retired[j] \/ (retired[j] = Sso!Never /\ retired'[j] = sNow)
           /\ retired[j] \in Nat
  <2>1. CASE Sso!Rotate
    BY <1>2, <2>1 DEF Sso!Rotate
  <2>2. ASSUME NEW k \in 1..MaxKey, Sso!Retire(k)
        PROVE  /\ retired' \in Seq(Nat) /\ Len(retired') \in Nat /\ Len(retired') >= Len(retired)
               /\ \A j \in 1..Len(retired) :
                    /\ retired'[j] = retired[j] \/ (retired[j] = Sso!Never /\ retired'[j] = sNow)
                    /\ retired[j] \in Nat
    <3>1. k \in 1..Len(retired) /\ retired[k] = Sso!Never /\ retired' = [retired EXCEPT ![k] = sNow]
      BY <2>2 DEF Sso!Retire, Sso!Published
    <3> QED BY <1>2, <3>1
  <2> QED BY <2>1, <2>2
<1>4. \A j \in 1..Len(retired) : /\ j \in 1..Len(retired')
                                 /\ retired[j] # Sso!Never => retired'[j] # Sso!Never
                                 /\ \A n \in Nat : n <= sNow /\ n <= retired[j] => n <= retired'[j]
                                 /\ \A n \in Nat : n <= sNow /\ n <= retired[j] + Timeout => n <= retired'[j] + Timeout
  <2> SUFFICES ASSUME NEW j \in 1..Len(retired)
               PROVE  /\ j \in 1..Len(retired')
                      /\ retired[j] # Sso!Never => retired'[j] # Sso!Never
                      /\ \A n \in Nat : n <= sNow /\ n <= retired[j] => n <= retired'[j]
                      /\ \A n \in Nat : n <= sNow /\ n <= retired[j] + Timeout => n <= retired'[j] + Timeout
    OBVIOUS
  <2>1. j \in 1..Len(retired')
    BY <1>2, <1>3
  <2>2. CASE retired'[j] = retired[j]
    BY <2>1, <2>2
  <2>3. CASE retired[j] = Sso!Never /\ retired'[j] = sNow
    BY <1>2, <2>1, <2>3
  <2> QED BY <1>3, <2>2, <2>3
<1>5. SsoData'
  <2>1. Len(retired') >= 1
    BY <1>2, <1>3
  <2> QED BY <1>1, <1>3, <2>1 DEF SsoData, Sso!Idle, Sso!Session, SsoCall
<1>6. \A c \in Client : KeysOf(sOp[c])'
  <2> SUFFICES ASSUME NEW c \in Client PROVE KeysOf(sOp[c])'
    OBVIOUS
  <2> DEFINE o == sOp[c]
  <2>1. KeysOf(o)
    OBVIOUS
  <2>2. o.pc \in {"keys", "fetch", "answered", "refused"} => o.key \in 1..Len(retired')
    BY <1>4, <2>1 DEF KeysOf
  <2>3. o.pc = "answered" =>
          /\ o.key \notin o.keys => retired'[o.key] # Sso!Never
          /\ \A k \in o.keys : k \in 1..Len(retired') /\ o.since <= retired'[k]
    <3> SUFFICES ASSUME o.pc = "answered"
                 PROVE  /\ o.key \notin o.keys => retired'[o.key] # Sso!Never
                        /\ \A k \in o.keys : k \in 1..Len(retired') /\ o.since <= retired'[k]
      OBVIOUS
    <3>1. o.since \in Nat /\ o.since <= sNow /\ o.key \in 1..Len(retired)
      BY <2>1, SsoUnderWay DEF KeysOf
    <3>2. /\ o.key \notin o.keys => retired[o.key] # Sso!Never
          /\ \A k \in o.keys : k \in 1..Len(retired) /\ o.since <= retired[k]
      BY <2>1 DEF KeysOf
    <3> HIDE DEF o
    <3> QED BY <1>4, <3>1, <3>2
  <2>4. o.pc = "refused" => retired'[o.key] # Sso!Never
    BY <1>4, <2>1 DEF KeysOf
  <2> QED BY <1>1, <2>1, <2>2, <2>3, <2>4 DEF KeysOf, Sso!Never
<1>7. \A k \in cache.keys : k \in 1..Len(retired') /\ cache.at <= retired'[k] + Timeout
  BY <1>2, <1>4
<1>8. StatesOnce'
  BY <1>1 DEF StatesOnce, Sso!Session, Sso!NoSession
<1> QED BY <1>1, <1>5, <1>6, <1>7, <1>8

LEMMA SsoBegins == ASSUME SsoInv, Sso!BeginAuth PROVE SsoInv'
<1> USE DEF SsoInv
<1>1. /\ begun < MaxSession /\ begun' = begun + 1 /\ UNCHANGED <<sNow, retired, cache, sOp, uses>>
      /\ sessions' = [s \in Sso!Session |->
           IF s = begun + 1 THEN sNow + SessionTTL
           ELSE IF sNow <= sessions[s] THEN sessions[s] ELSE Sso!NoSession]
  BY DEF Sso!BeginAuth
<1>2. begun \in Nat /\ MaxSession \in Nat /\ sNow \in Nat /\ sNow >= 1 /\ SessionTTL \in Nat
      /\ Sso!NoSession = 0 /\ Sso!Session \subseteq Nat
  BY SsoLimits DEF SsoData
<1>3. SsoData'
  <2>1. begun' \in 0..MaxSession
    BY <1>1, <1>2
  <2>2. sessions' \in [Sso!Session -> Nat]
    BY <1>1, <1>2 DEF SsoData
  <2> QED BY <1>1, <2>1, <2>2 DEF SsoData, Sso!Idle, Sso!Session, SsoCall
<1>4. StatesOnce'
  <2>1. \A s \in Sso!Session :
          /\ uses[s] <= 1 /\ (sessions'[s] # Sso!NoSession => uses[s] = 0)
          /\ s > begun' => sessions'[s] = Sso!NoSession /\ uses[s] = 0
    <3> SUFFICES ASSUME NEW s \in Sso!Session
                 PROVE  /\ uses[s] <= 1 /\ (sessions'[s] # Sso!NoSession => uses[s] = 0)
                        /\ s > begun' => sessions'[s] = Sso!NoSession /\ uses[s] = 0
      OBVIOUS
    <3>1. /\ uses[s] <= 1 /\ (sessions[s] # Sso!NoSession => uses[s] = 0)
          /\ s > begun => sessions[s] = Sso!NoSession /\ uses[s] = 0
      BY DEF StatesOnce
    <3>2. s \in Nat
      BY <1>2
    <3>3. CASE s = begun + 1
      BY <1>1, <1>2, <3>1, <3>2, <3>3
    <3>4. CASE s # begun + 1
      BY <1>1, <1>2, <3>1, <3>2, <3>4
    <3> QED BY <3>3, <3>4
  <2> QED BY <1>1, <2>1 DEF StatesOnce, Sso!Session, Sso!NoSession
<1>5. \A c \in Client : KeysOf(sOp[c])'
  BY <1>1 DEF KeysOf, Sso!Never
<1> QED BY <1>1, <1>3, <1>4, <1>5

LEMMA SsoTakes ==
  ASSUME SsoInv, NEW c \in Client, NEW s \in Sso!Session, NEW e \in Account, Sso!Take(c, s, e)
  PROVE  SsoInv'
<1> USE DEF SsoInv
<1> DEFINE call == [pc |-> "exchange", email |-> e]
<1>1. /\ sessions[s] # Sso!NoSession /\ sessions' = [sessions EXCEPT ![s] = Sso!NoSession]
      /\ UNCHANGED <<sNow, begun, retired, cache>>
      /\ \/ sOp' = [sOp EXCEPT ![c] = call] /\ uses' = [uses EXCEPT ![s] = @ + 1]
         \/ UNCHANGED <<sOp, uses>>
  BY DEF Sso!Take
<1>2. call \in SsoCall /\ KeysOf(call)
  BY DEF SsoCall, KeysOf
<1>3. uses[s] = 0 /\ Sso!NoSession = 0 /\ sessions \in [Sso!Session -> Nat] /\ uses \in [Sso!Session -> Nat]
  BY <1>1, SsoLimits DEF StatesOnce, SsoData
<1> HIDE DEF call
<1>4. sOp' \in [Client -> {Sso!Idle} \cup SsoCall] /\ \A d \in Client : sOp'[d] \in {call, sOp[d]}
  BY <1>1, <1>2 DEF SsoData
<1>5. SsoData'
  <2>1. sessions' \in [Sso!Session -> Nat] /\ uses' \in [Sso!Session -> Nat]
    BY <1>1, <1>3
  <2> QED BY <1>1, <1>4, <2>1 DEF SsoData, Sso!Idle, Sso!Session, SsoCall
<1>6. StatesOnce'
  <2>1. \A x \in Sso!Session :
          /\ uses'[x] <= 1 /\ (sessions'[x] # Sso!NoSession => uses'[x] = 0)
          /\ x > begun => sessions'[x] = Sso!NoSession /\ uses'[x] = 0
    <3> SUFFICES ASSUME NEW x \in Sso!Session
                 PROVE  /\ uses'[x] <= 1 /\ (sessions'[x] # Sso!NoSession => uses'[x] = 0)
                        /\ x > begun => sessions'[x] = Sso!NoSession /\ uses'[x] = 0
      OBVIOUS
    <3>1. /\ uses[x] <= 1 /\ (sessions[x] # Sso!NoSession => uses[x] = 0)
          /\ x > begun => sessions[x] = Sso!NoSession /\ uses[x] = 0
      BY DEF StatesOnce
    <3>2. uses'[x] \in {uses[x], IF x = s THEN 1 ELSE uses[x]}
      BY <1>1, <1>3
    <3>3. sessions'[x] = IF x = s THEN Sso!NoSession ELSE sessions[x]
      BY <1>1, <1>3
    <3> QED BY <1>1, <1>3, <3>1, <3>2, <3>3
  <2> QED BY <1>1, <2>1 DEF StatesOnce, Sso!Session, Sso!NoSession
<1>7. \A d \in Client : KeysOf(sOp[d])'
  BY <1>1, <1>2, <1>4 DEF KeysOf, Sso!Never
<1> QED BY <1>1, <1>5, <1>6, <1>7

LEMMA SsoFetches ==
  ASSUME SsoInv, NEW c \in Client, sOp[c].pc \in {"keys", "answered"}, NEW force \in BOOLEAN
  PROVE  Sso!Fetch(c, force) \in SsoCall /\ KeysOf(Sso!Fetch(c, force))
<1> DEFINE call == Sso!Fetch(c, force)
<1>1. sOp[c].email \in Account /\ sOp[c].key \in Nat /\ sNow \in Nat /\ Timeout \in Nat
  BY SsoUnderWay, SsoLimits
<1>2. /\ call.pc = "fetch" /\ call.key = sOp[c].key /\ call.since = sNow /\ call \in SsoCall
  BY <1>1 DEF Sso!Fetch, SsoCall
<1>3. sOp[c].key \in 1..Len(retired)
  BY DEF SsoInv, KeysOf
<1> HIDE DEF call
<1>4. KeysOf(call)
  BY <1>1, <1>2, <1>3 DEF KeysOf
<1> QED BY <1>2, <1>4 DEF call

\* The key of the token is looked for among those the call has.
LEMMA SsoVerifies ==
  ASSUME SsoInv, NEW c \in Client, sOp[c].pc \in {"keys", "answered"}, NEW keys, NEW force \in BOOLEAN,
         Sso!Verify(c, keys, force),
         force /\ sOp[c].key \notin keys => retired[sOp[c].key] # Sso!Never
  PROVE  \E call \in SsoCall : sOp' = [sOp EXCEPT ![c] = call] /\ KeysOf(call)
<1> DEFINE bind == [pc |-> "bind", email |-> sOp[c].email]  refused == [pc |-> "refused", key |-> sOp[c].key]
<1>1. sOp[c].email \in Account /\ sOp[c].key \in Nat /\ sOp[c].key \in 1..Len(retired)
  BY SsoUnderWay DEF SsoInv, KeysOf
<1>2. bind \in SsoCall /\ refused \in SsoCall
  BY <1>1 DEF SsoCall
<1>3. KeysOf(bind) /\ (retired[sOp[c].key] # Sso!Never => KeysOf(refused))
  BY <1>1 DEF KeysOf
<1>4. CASE sOp[c].key \in keys
  BY <1>2, <1>3, <1>4 DEF Sso!Verify
<1>5. CASE sOp[c].key \notin keys /\ force
  BY <1>2, <1>3, <1>5 DEF Sso!Verify
<1>6. CASE sOp[c].key \notin keys /\ ~force
  BY <1>6, SsoFetches DEF Sso!Verify
<1> QED BY <1>4, <1>5, <1>6

\* The steps of a callback once it has its session.
LEMMA SsoCallback ==
  ASSUME SsoInv, NEW c \in Client,
         \/ Sso!Exchange(c) \/ Sso!Fail(c) \/ Sso!UseCache(c) \/ Sso!Answer(c)
         \/ Sso!Bind(c) \/ Sso!Create(c) \/ Sso!Return(c)
  PROVE  SsoInv'
<1> USE DEF SsoInv
<1>0. UNCHANGED <<sNow, sessions, begun, retired, cache, uses>>
  BY DEF Sso!Exchange, Sso!Fail, Sso!UseCache, Sso!Answer, Sso!Bind, Sso!Create, Sso!Return
<1> SUFFICES \E call \in {Sso!Idle} \cup SsoCall : sOp' = [sOp EXCEPT ![c] = call] /\ KeysOf(call)
  BY <1>0, SsoCallKept
<1>1. KeysOf(Sso!Idle)
  BY DEF KeysOf, Sso!Idle
<1>2. CASE Sso!Fail(c) \/ Sso!Return(c)
  BY <1>1, <1>2 DEF Sso!Fail, Sso!Return
<1>3. CASE Sso!Exchange(c)
  <2> DEFINE call == [pc |-> "keys", email |-> sOp[c].email, key |-> Len(retired)]
  <2>1. sOp[c].email \in Account /\ Len(retired) \in Nat /\ Len(retired) >= 1
    BY <1>3, SsoUnderWay DEF Sso!Exchange, SsoData
  <2>2. call \in SsoCall /\ KeysOf(call)
    BY <2>1 DEF SsoCall, KeysOf
  <2> QED BY <1>3, <2>2 DEF Sso!Exchange, Sso!Latest
<1>4. CASE Sso!UseCache(c)
  <2>1. sOp[c].pc = "keys"
    BY <1>4 DEF Sso!UseCache
  <2>2. CASE Sso!Verify(c, cache.keys, FALSE)
    BY <2>1, <2>2, SsoVerifies
  <2>3. CASE sOp' = [sOp EXCEPT ![c] = Sso!Fetch(c, FALSE)]
    BY <2>1, <2>3, SsoFetches
  <2> QED BY <1>4, <2>2, <2>3 DEF Sso!UseCache
<1>5. CASE Sso!Answer(c)
  <2> DEFINE o == sOp[c]
             call == [pc |-> "answered", email |-> o.email, key |-> o.key, force |-> o.force,
                      since |-> o.since, keys |-> Sso!Published]
  <2>1. o.pc = "fetch" /\ sOp' = [sOp EXCEPT ![c] = call]
    BY <1>5 DEF Sso!Answer
  <2>2. o.email \in Account /\ o.key \in Nat /\ o.force \in BOOLEAN /\ o.since \in Nat /\ Len(retired) \in Nat
        /\ sNow \in Nat /\ sNow <= SsoTime
    BY <2>1, SsoUnderWay
  <2>3. Sso!Published \subseteq 1..Len(retired) /\ Sso!Published \subseteq Nat
    BY <2>2 DEF Sso!Published
  <2>4. call \in SsoCall
    BY <2>2, <2>3 DEF SsoCall
  <2>5. o.key \in 1..Len(retired) /\ o.since <= sNow /\ sNow <= o.since + Timeout
    BY <2>1 DEF KeysOf
  <2>6. o.key \notin Sso!Published => retired[o.key] # Sso!Never
    BY <2>5 DEF Sso!Published
  <2>7. \A k \in Sso!Published : k \in 1..Len(retired) /\ o.since <= retired[k]
    BY <2>2, <2>5, SsoLimits DEF Sso!Published
  <2>8. /\ call.pc = "answered" /\ call.key = o.key /\ call.since = o.since /\ call.keys = Sso!Published
    OBVIOUS
  <2> HIDE DEF call, o
  <2>9. KeysOf(call)
    BY <2>5, <2>6, <2>7, <2>8 DEF KeysOf
  <2> QED BY <2>1, <2>4, <2>9
<1>6. CASE Sso!Bind(c)
  <2>1. sOp[c].email \in Account
    <3>1. sOp[c].pc = "bind" /\ sOp[c] \in SsoCall
      BY <1>6, SsoUnderWay DEF Sso!Bind
    <3> QED BY <3>1 DEF SsoCall
  <2>2. /\ [pc |-> "done", account |-> TRUE] \in SsoCall /\ [pc |-> "done", account |-> FALSE] \in SsoCall
        /\ [pc |-> "create", email |-> sOp[c].email] \in SsoCall
    BY <2>1 DEF SsoCall
  <2>3. /\ KeysOf([pc |-> "done", account |-> TRUE]) /\ KeysOf([pc |-> "done", account |-> FALSE])
        /\ KeysOf([pc |-> "create", email |-> sOp[c].email])
    BY DEF KeysOf
  <2> QED BY <1>6, <2>2, <2>3 DEF Sso!Bind
<1>7. CASE Sso!Create(c)
  <2>1. PICK ok \in BOOLEAN : sOp' = [sOp EXCEPT ![c] = [pc |-> "done", account |-> ok]]
    BY <1>7 DEF Sso!Create
  <2>2. [pc |-> "done", account |-> ok] \in SsoCall /\ KeysOf([pc |-> "done", account |-> ok])
    BY DEF SsoCall, KeysOf
  <2> QED BY <2>1, <2>2
<1> QED BY <1>2, <1>3, <1>4, <1>5, <1>6, <1>7

\* An answer replaces the cache, however old it is: no older than its request.
LEMMA SsoStores == ASSUME SsoInv, NEW c \in Client, Sso!StoreKeys(c) PROVE SsoInv'
<1> USE DEF SsoInv
<1> DEFINE o == sOp[c]
<1>1. /\ o.pc = "answered" /\ cache' = [keys |-> o.keys, at |-> sNow, full |-> TRUE]
      /\ Sso!Verify(c, o.keys, o.force) /\ UNCHANGED <<sNow, sessions, begun, retired, uses>>
  BY DEF Sso!StoreKeys
<1>2. /\ sNow \in Nat /\ Len(retired) \in Nat /\ o.key \in Nat /\ o.force \in BOOLEAN /\ o.since \in Nat
      /\ o.keys \subseteq Nat /\ Timeout \in Nat
  BY <1>1, SsoUnderWay, SsoLimits
<1>3. /\ sNow <= o.since + Timeout
      /\ o.key \notin o.keys => retired[o.key] # Sso!Never
      /\ \A k \in o.keys : k \in 1..Len(retired) /\ o.since <= retired[k]
  BY <1>1 DEF KeysOf
<1>4. PICK call \in SsoCall : sOp' = [sOp EXCEPT ![c] = call] /\ KeysOf(call)
  BY <1>1, <1>2, <1>3, SsoVerifies
<1> HIDE DEF o
<1>5. sOp' \in [Client -> {Sso!Idle} \cup SsoCall] /\ \A d \in Client : sOp'[d] \in {call, sOp[d]}
  BY <1>4 DEF SsoData
<1>6. SsoData'
  <2>1. cache' \in [keys : SUBSET Nat, at : Nat, full : BOOLEAN] /\ cache'.at <= sNow
    BY <1>1, <1>2
  <2> QED BY <1>1, <1>5, <2>1 DEF SsoData, Sso!Idle, Sso!Session, SsoCall
<1>7. \A k \in cache'.keys : k \in 1..Len(retired) /\ cache'.at <= retired[k] + Timeout
  <2> SUFFICES ASSUME NEW k \in o.keys PROVE k \in 1..Len(retired) /\ sNow <= retired[k] + Timeout
    BY <1>1
  <2>1. k \in 1..Len(retired) /\ o.since <= retired[k] /\ retired[k] \in Nat
    BY <1>3 DEF SsoData
  <2> QED BY <1>2, <1>3, <2>1
<1>8. \A d \in Client : KeysOf(sOp[d])'
  BY <1>1, <1>4, <1>5 DEF KeysOf, Sso!Never
<1>9. StatesOnce'
  BY <1>1 DEF StatesOnce, Sso!Session, Sso!NoSession
<1> QED BY <1>1, <1>6, <1>7, <1>8, <1>9

LEMMA SsoSteps == ASSUME SsoInv, Sso!Next PROVE SsoInv'
<1>1. ASSUME NEW e \in Account, Sso!Register(e) PROVE SsoInv'
  BY <1>1 DEF Sso!Register, SsoInv, SsoData, StatesOnce, KeysOf, Sso!Idle, Sso!Session, Sso!NoSession, Sso!Never, SsoCall
<1> QED BY <1>1, SsoTicks, SsoKeys, SsoBegins, SsoTakes, SsoCallback, SsoStores DEF Sso!Next

LEMMA SsoSame == ASSUME SsoInv, UNCHANGED ssoVars PROVE SsoInv'
<1>1. UNCHANGED <<sNow, sessions, begun, retired, cache, sOp, uses>>
  BY DEF ssoVars
<1> QED BY <1>1 DEF SsoInv, SsoData, StatesOnce, KeysOf, Sso!Idle, Sso!Session, Sso!NoSession, Sso!Never, SsoCall

LEMMA SsoStarts == ASSUME Sso!Init PROVE SsoInv
<1> USE DEF Sso!Init
<1>1. retired \in Seq(Nat) /\ Len(retired) = 1
  BY SsoLimits
<1>2. sNow \in 1..SsoTime /\ begun \in 0..MaxSession
  BY SsoLimits
<1>3. SsoData
  BY <1>1, <1>2, SsoLimits DEF SsoData
<1>4. StatesOnce
  BY SsoLimits DEF StatesOnce
<1>5. \A c \in Client : KeysOf(sOp[c])
  BY DEF KeysOf, Sso!Idle
<1> QED BY <1>3, <1>4, <1>5 DEF SsoInv

LEMMA SsoFacts == ASSUME SsoInv PROVE Sso!SessionsOnce /\ Sso!KeysCurrent
<1> USE DEF SsoInv
<1>1. Sso!SessionsOnce
  BY DEF StatesOnce, Sso!SessionsOnce
<1>2. \A c \in Client : sOp[c].pc = "refused" => sOp[c].key \notin Sso!Published
  BY DEF KeysOf, Sso!Published
<1>3. ASSUME Sso!Fresh, NEW k \in cache.keys PROVE sNow < retired[k] + KeyTTL + Timeout
  <2>1. sNow < cache.at + KeyTTL /\ cache.at <= retired[k] + Timeout
    BY <1>3 DEF Sso!Fresh
  <2>2. sNow \in Nat /\ cache.at \in Nat /\ retired[k] \in Nat /\ {KeyTTL, Timeout} \subseteq Nat
    <3>1. k \in 1..Len(retired) /\ retired \in Seq(Nat)
      BY <1>3 DEF SsoData
    <3>2. sNow \in Nat /\ cache.at \in Nat
      BY SsoLimits DEF SsoData
    <3> QED BY <3>1, <3>2, SsoLimits
  <2> QED BY <2>1, <2>2
<1> QED BY <1>1, <1>2, <1>3 DEF Sso!KeysCurrent

-----------------------------------------------------------------------------
\* The two instances of RoleChecks differ in the set of roles and in the list
\* a check gets: what follows is for any set R and either list.
Begins(c, live) ==
  /\ rOp[c] = Roles!Idle
  /\ rOp' = [rOp EXCEPT ![c] = [pc |-> "check", live |-> live, list |-> SubSeq(slice.array, 1, slice.len),
                                len |-> slice.len, i |-> 1]]
  /\ UNCHANGED <<roles, slice>>

RoleStep(R, copies) ==
  \/ \E r \in R : Roles!Revoke(r) \/ Roles!Delete(r)
  \/ \E c \in Checker : Begins(c, ~copies) \/ Roles!ReadRole(c) \/ Roles!EndCheck(c) \/ Roles!Return(c)
  \/ \E c \in Writer : Roles!Append1(c) \/ Roles!EndUpdate(c)
  \/ \E c \in Writer, r \in R : Roles!Assign(c, r)
  \/ \E c \in Writer, r \in R, g \in BOOLEAN : Roles!Update(c, r, g)

Observed(R) ==
  seen' = [c \in Checker |->
    LET held == Roles!Held(slice)'
        solid == {r \in R : r \in held /\ Roles!Solid(r)'}
        loose == {r \in R : Roles!Loose(r)'}
    IN IF rOp[c].pc = "check"
       THEN [always |-> seen[c].always \cap solid, held |-> seen[c].held \cup held,
             granted |-> seen[c].granted \cup loose,
             shifted |-> seen[c].shifted \/ slice'.len < slice.len]
       ELSE IF rOp'[c].pc = "check"
       THEN [always |-> solid, held |-> held, granted |-> loose, shifted |-> FALSE]
       ELSE IF rOp'[c].pc = "decided" THEN seen[c] ELSE Roles!NoneSeen]

LEMMA RolesStep == ASSUME Roles!Next PROVE RoleStep(Role, FALSE) /\ Observed(Role)
<1>1. Observed(Role)
  BY DEF Roles!Next, Roles!Observe, Observed
<1>2. \A c : Roles!Check(c) => Begins(c, ~FALSE)
  BY DEF Roles!Check, Roles!Shared, Begins
<1>3. RoleStep(Role, FALSE)
  BY <1>2 DEF Roles!Next, Roles!Step, RoleStep
<1> QED BY <1>1, <1>3

LEMMA GrantsStep == ASSUME Grants!Next PROVE RoleStep(GrantRole, TRUE) /\ Observed(GrantRole)
<1>1. /\ \A s : Grants!Held(s) = Roles!Held(s)
      /\ Grants!Idle = Roles!Idle /\ Grants!NoneSeen = Roles!NoneSeen
  BY DEF Grants!Held, Roles!Held, Grants!Idle, Roles!Idle, Grants!NoneSeen, Roles!NoneSeen
<1>2. /\ \A r : Grants!MayGrant(r) <=> Roles!MayGrant(r)
      /\ \A r : Grants!Answers(r) = Roles!Answers(r)
      /\ \A r : Grants!Has(r) <=> Roles!Has(r)
  BY <1>1 DEF Grants!MayGrant, Roles!MayGrant, Grants!Answers, Roles!Answers, Grants!Has, Roles!Has
<1>3. Observed(GrantRole)
  BY <1>1 DEF Grants!Next, Grants!Observe, Observed, Grants!Solid, Roles!Solid, Grants!Loose, Roles!Loose,
     Grants!MayGrant, Roles!MayGrant, Grants!Held, Roles!Held
<1>4. \A r : /\ Grants!Revoke(r) => Roles!Revoke(r)
             /\ Grants!Delete(r) => Roles!Delete(r)
  BY <1>1 DEF Grants!Revoke, Roles!Revoke, Grants!Delete, Roles!Delete
<1>5. \A c : /\ Grants!Check(c) => Begins(c, ~TRUE)
             /\ Grants!EndCheck(c) => Roles!EndCheck(c)
             /\ Grants!Return(c) => Roles!Return(c)
  BY <1>1 DEF Grants!Check, Grants!Shared, Begins, Grants!EndCheck, Roles!EndCheck, Grants!Return, Roles!Return,
     Grants!Decide, Roles!Decide
<1>6. \A c : Grants!ReadRole(c) => Roles!ReadRole(c)
  BY <1>2 DEF Grants!ReadRole, Roles!ReadRole, Grants!Decide, Roles!Decide
<1>7. \A c : Grants!Append1(c) => Roles!Append1(c)
  BY <1>1, <1>2 DEF Grants!Append1, Roles!Append1, Grants!Detach, Roles!Detach
<1>8. \A c : Grants!EndUpdate(c) => Roles!EndUpdate(c)
  BY <1>1 DEF Grants!EndUpdate, Roles!EndUpdate
<1>9. \A c, r, g : /\ Grants!Assign(c, r) => Roles!Assign(c, r)
                   /\ Grants!Update(c, r, g) => Roles!Update(c, r, g)
  BY <1>1 DEF Grants!Assign, Roles!Assign, Grants!Update, Roles!Update
<1>10. RoleStep(GrantRole, TRUE)
  BY <1>4, <1>5, <1>6, <1>7, <1>8, <1>9 DEF Grants!Next, Grants!Step, RoleStep
<1> QED BY <1>3, <1>10

\* What a step may do to a check: it ends, goes on or begins; another's step
\* may change the entries of its list, but to one it has seen or will see now.
GoesOn(c, copies) ==
  /\ rOp[c].pc = "check" /\ rOp'[c].pc = "check" /\ rOp'[c].len = rOp[c].len
  /\ rOp'[c].i \in 1..(rOp[c].len + 1) /\ (copies => ~rOp'[c].live)
  /\ rOp[c].len <= Len(IF rOp'[c].live THEN slice'.array ELSE rOp'[c].list)
  /\ \A k \in 1..rOp[c].len : Entry(c, k)' \in seen[c].held \cup Roles!Held(slice')
  /\ copies \/ ~(seen[c].shifted \/ slice'.len < slice.len) =>
       /\ rOp'[c].live => rOp[c].len <= slice'.len
       /\ \A r \in seen[c].always : Roles!Has(r)' /\ Roles!Solid(r)' =>
            \E k \in rOp'[c].i..rOp[c].len : Entry(c, k)' = r
EndsWith(c, copies) ==
  /\ rOp[c].pc = "check" /\ rOp'[c].pc = "decided"
  /\ IF rOp'[c].allowed THEN seen[c].held \cap seen[c].granted # {}
     ELSE seen[c].always = {} \/ (~copies /\ seen[c].shifted)
StartsOut(c, copies) ==
  /\ rOp[c] = Roles!Idle /\ slice' = slice
  /\ rOp'[c].pc = "check" /\ rOp'[c].i = 1 /\ rOp'[c].len = slice.len /\ (copies => ~rOp'[c].live)
  /\ slice.len <= Len(IF rOp'[c].live THEN slice'.array ELSE rOp'[c].list)
  /\ \A k \in 1..slice.len : Entry(c, k)' = slice.array[k]
CheckMoves(c, copies) ==
  \/ rOp'[c] = Roles!Idle
  \/ rOp[c].pc = "decided" /\ rOp'[c] = rOp[c]
  \/ EndsWith(c, copies) \/ GoesOn(c, copies)
  \/ StartsOut(c, copies)

LEMMA HeldOf ==
  ASSUME NEW R, NEW s \in [array : Seq(R), len : Nat], s.len <= Len(s.array)
  PROVE  /\ Roles!Held(s) \subseteq R
         /\ \A k \in 1..s.len : s.array[k] \in Roles!Held(s) /\ s.array[k] \in R
         /\ SubSeq(s.array, 1, s.len) \in Seq(R) /\ Len(SubSeq(s.array, 1, s.len)) = s.len
         /\ \A k \in 1..s.len : SubSeq(s.array, 1, s.len)[k] = s.array[k]
BY DEF Roles!Held

LEMMA SeenOf ==
  ASSUME NEW R, NEW c \in Checker, Observed(R)
  PROVE  /\ rOp[c].pc = "check" =>
              /\ seen'[c].always = seen[c].always \cap {r \in R : Roles!Has(r)' /\ Roles!Solid(r)'}
              /\ seen'[c].held = seen[c].held \cup Roles!Held(slice')
              /\ seen'[c].granted = seen[c].granted \cup {r \in R : Roles!Loose(r)'}
              /\ (seen'[c].shifted <=> seen[c].shifted \/ slice'.len < slice.len)
         /\ rOp[c].pc # "check" /\ rOp'[c].pc = "check" =>
              /\ seen'[c].always = {r \in R : Roles!Has(r)' /\ Roles!Solid(r)'}
              /\ seen'[c].held = Roles!Held(slice') /\ seen'[c].granted = {r \in R : Roles!Loose(r)'}
              /\ ~seen'[c].shifted
         /\ rOp[c].pc # "check" /\ rOp'[c].pc = "decided" => seen'[c] = seen[c]
BY DEF Observed, Roles!Has, Roles!Held

LEMMA SeenTyped ==
  ASSUME NEW R, RoleData(R), Observed(R), RoleTyped(R)'
  PROVE  RoleData(R)'
<1> DEFINE T == [always : SUBSET R, held : SUBSET R, granted : SUBSET R, shifted : BOOLEAN]
<1>1. Roles!Held(slice') \subseteq R
  BY HeldOf DEF RoleTyped
<1>2. ASSUME NEW c \in Checker PROVE seen'[c] \in T
  <2>1. seen[c] \in T
    BY DEF RoleData
  <2> DEFINE held == Roles!Held(slice)'
             solid == {r \in R : r \in held /\ Roles!Solid(r)'}
             loose == {r \in R : Roles!Loose(r)'}
  <2>2. held \subseteq R /\ solid \subseteq R /\ loose \subseteq R
    BY <1>1 DEF Roles!Held
  <2>3. seen'[c] = IF rOp[c].pc = "check"
       THEN [always |-> seen[c].always \cap solid, held |-> seen[c].held \cup held,
             granted |-> seen[c].granted \cup loose,
             shifted |-> seen[c].shifted \/ slice'.len < slice.len]
       ELSE IF rOp'[c].pc = "check"
       THEN [always |-> solid, held |-> held, granted |-> loose, shifted |-> FALSE]
       ELSE IF rOp'[c].pc = "decided" THEN seen[c] ELSE Roles!NoneSeen
    BY DEF Observed
  <2> HIDE DEF held, solid, loose
  <2> QED BY <2>1, <2>2, <2>3 DEF Roles!NoneSeen
<1>3. seen' \in [Checker -> T]
  <2>1. seen' = [c \in Checker |-> seen'[c]]
    BY DEF Observed
  <2> QED BY <1>2, <2>1
<1> QED BY <1>3 DEF RoleData

LEMMA ChecksKept ==
  ASSUME NEW R, NEW copies \in BOOLEAN, RoleInv(R, copies), Observed(R), RoleTyped(R)',
         \A c \in Checker : CheckMoves(c, copies)
  PROVE  RoleInv(R, copies)'
<1>1. RoleData(R)'
  BY SeenTyped DEF RoleInv
<1>2. ASSUME NEW c \in Checker, rOp'[c].pc = "check" PROVE Witnessed(R, c)'
  <2>1. Roles!Held(slice') \subseteq seen'[c].held /\ {r \in R : Roles!Loose(r)'} \subseteq seen'[c].granted
        /\ seen'[c].always \subseteq {r \in R : Roles!Has(r)' /\ Roles!Solid(r)'}
    <3>1. CASE rOp[c].pc = "check"
      BY <3>1, SeenOf
    <3>2. CASE rOp[c].pc # "check"
      BY <1>2, <3>2, SeenOf
    <3> QED BY <3>1, <3>2
  <2> QED BY <2>1 DEF Witnessed, Roles!Held
<1>3. ASSUME NEW c \in Checker, GoesOn(c, copies)
      PROVE  Listed(R, c)' /\ Ahead(c, copies)' /\ (copies => ~rOp'[c].live)
  <2> USE <1>3 DEF GoesOn
  <2>1. /\ seen'[c].always = seen[c].always \cap {r \in R : Roles!Has(r)' /\ Roles!Solid(r)'}
        /\ seen'[c].held = seen[c].held \cup Roles!Held(slice')
        /\ (seen'[c].shifted <=> seen[c].shifted \/ slice'.len < slice.len)
    BY SeenOf
  <2>2. Listed(R, c)'
    BY <2>1 DEF Listed, Entry
  <2>3. Ahead(c, copies)'
    BY <2>1 DEF Ahead, Entry
  <2> QED BY <2>2, <2>3
<1>4. ASSUME NEW c \in Checker, StartsOut(c, copies)
      PROVE  Listed(R, c)' /\ Ahead(c, copies)' /\ (copies => ~rOp'[c].live)
  <2> USE <1>4 DEF StartsOut
  <2>1. /\ seen'[c].always = {r \in R : Roles!Has(r)' /\ Roles!Solid(r)'}
        /\ seen'[c].held = Roles!Held(slice)
    <3>1. rOp[c].pc # "check" /\ rOp'[c].pc = "check"
      BY DEF Roles!Idle
    <3> QED BY <3>1, SeenOf
  <2>2. slice \in [array : Seq(R), len : Nat] /\ slice.len <= Len(slice.array)
    BY DEF RoleInv, RoleData, RoleTyped
  <2>3. \A k \in 1..slice.len : Entry(c, k)' = slice.array[k] /\ slice.array[k] \in Roles!Held(slice)
    BY <2>2, HeldOf
  <2>4. Listed(R, c)'
    BY <2>1, <2>2, <2>3 DEF Listed
  <2>5. \A r \in seen'[c].always : \E k \in 1..slice.len : Entry(c, k)' = r
    BY <2>1, <2>3 DEF Roles!Has, Roles!Held
  <2>6. Ahead(c, copies)'
    BY <2>2, <2>5 DEF Ahead
  <2> QED BY <2>4, <2>6
<1>5. ASSUME NEW c \in Checker, rOp'[c].pc = "check"
      PROVE  Listed(R, c)' /\ Ahead(c, copies)' /\ (copies => ~rOp'[c].live)
  <2>1. CASE GoesOn(c, copies)
    BY <1>3, <2>1
  <2>2. rOp'[c] # Roles!Idle /\ ~(rOp[c].pc = "decided" /\ rOp'[c] = rOp[c]) /\ ~EndsWith(c, copies)
    BY <1>5 DEF EndsWith, Roles!Idle
  <2>3. CASE ~GoesOn(c, copies)
    <3>1. CheckMoves(c, copies)
      OBVIOUS
    <3> QED BY <1>4, <2>2, <2>3, <3>1 DEF CheckMoves
  <2> QED BY <2>1, <2>3
<1>6. ASSUME NEW c \in Checker, rOp'[c].pc = "decided" PROVE Decision(c, copies)'
  <2>1. CASE rOp[c].pc = "decided" /\ rOp'[c] = rOp[c]
    <3>1. seen'[c] = seen[c]
      BY <2>1, SeenOf
    <3> QED BY <2>1, <3>1 DEF RoleInv, Decision
  <2>2. CASE EndsWith(c, copies)
    <3>1. /\ seen'[c].always \subseteq seen[c].always /\ seen[c].held \subseteq seen'[c].held
          /\ seen[c].granted \subseteq seen'[c].granted /\ (seen[c].shifted => seen'[c].shifted)
      BY <2>2, SeenOf DEF EndsWith
    <3> QED BY <2>2, <3>1 DEF EndsWith, Decision
  <2> QED BY <1>6, <2>1, <2>2 DEF CheckMoves, GoesOn, StartsOut, Roles!Idle
<1> QED BY <1>1, <1>2, <1>5, <1>6 DEF RoleInv

LEMMA RoleNames == Checker \cap Writer = {}
BY AccessAssumption DEF AccessAssumption, NamesAssumption

\* A step of another client: it leaves the check where it is.
LEMMA Disturbed ==
  ASSUME NEW R, NEW copies \in BOOLEAN, RoleInv(R, copies), NEW c \in Checker,
         rOp[c].pc = "check", rOp'[c].pc = "check", rOp'[c].len = rOp[c].len, rOp'[c].i = rOp[c].i,
         copies => ~rOp'[c].live,
         rOp[c].len <= Len(IF rOp'[c].live THEN slice'.array ELSE rOp'[c].list),
         \A k \in 1..rOp[c].len : Entry(c, k)' = Entry(c, k) \/ Entry(c, k)' \in Roles!Held(slice'),
         copies \/ ~(seen[c].shifted \/ slice'.len < slice.len) =>
           /\ rOp'[c].live => rOp[c].len <= slice'.len
           /\ \A k \in 1..rOp[c].len : Entry(c, k)' = Entry(c, k)
  PROVE  GoesOn(c, copies)
<1>1. Listed(R, c) /\ Ahead(c, copies)
  BY DEF RoleInv
<1>2. rOp[c] \in CheckCall
  BY DEF RoleInv, RoleData, RoleTyped, Roles!Idle
<1>3. rOp[c].i \in Nat /\ rOp[c].len \in Nat /\ rOp[c].i >= 1
  BY <1>1, <1>2 DEF CheckCall, Listed
<1>4. \A k \in 1..rOp[c].len : Entry(c, k)' \in seen[c].held \cup Roles!Held(slice')
  BY <1>1 DEF Listed
<1>5. ASSUME copies \/ ~(seen[c].shifted \/ slice'.len < slice.len), NEW r \in seen[c].always
      PROVE  \E k \in rOp'[c].i..rOp[c].len : Entry(c, k)' = r
  <2>1. PICK k \in rOp[c].i..rOp[c].len : Entry(c, k) = r
    BY <1>1, <1>5 DEF Ahead
  <2>2. k \in 1..rOp[c].len
    BY <1>3, <2>1
  <2> QED BY <1>5, <2>1, <2>2
<1>6. rOp'[c].i \in 1..(rOp[c].len + 1)
  BY <1>1 DEF Listed
<1> QED BY <1>4, <1>5, <1>6 DEF GoesOn

LEMMA Undisturbed ==
  ASSUME NEW R, NEW copies \in BOOLEAN, RoleInv(R, copies), slice' = slice,
         NEW c \in Checker, rOp'[c] = rOp[c]
  PROVE  CheckMoves(c, copies)
<1>1. rOp[c] = Roles!Idle \/ rOp[c].pc = "decided" \/ rOp[c].pc = "check"
  BY DEF RoleInv, RoleData, RoleTyped, CheckCall
<1>2. ASSUME rOp[c].pc = "check" PROVE GoesOn(c, copies)
  <2>1. Listed(R, c) /\ Ahead(c, copies) /\ (copies => ~rOp[c].live)
    BY <1>2 DEF RoleInv
  <2>2. \A k : Entry(c, k)' = Entry(c, k)
    BY DEF Entry
  <2>3. slice.len \in Nat
    BY DEF RoleInv, RoleData, RoleTyped
  <2>4. rOp[c].len <= Len(IF rOp'[c].live THEN slice'.array ELSE rOp'[c].list)
    BY <2>1 DEF Listed
  <2>5. copies \/ ~(seen[c].shifted \/ slice'.len < slice.len) => (rOp'[c].live => rOp[c].len <= slice'.len)
    BY <2>1 DEF Ahead
  <2> QED BY <1>2, <2>1, <2>2, <2>4, <2>5, Disturbed
<1> QED BY <1>1, <1>2 DEF CheckMoves

\* Steps that change neither the slice nor what a check is doing.
LEMMA QuietSteps ==
  ASSUME NEW R, NEW copies \in BOOLEAN, RoleInv(R, copies),
         \/ \E r \in R : Roles!Delete(r)
         \/ \E c \in Writer : Roles!EndUpdate(c)
         \/ \E c \in Writer, r \in R : Roles!Assign(c, r)
         \/ \E c \in Writer, r \in R, g \in BOOLEAN : Roles!Update(c, r, g)
  PROVE  RoleTyped(R)' /\ \A c \in Checker : CheckMoves(c, copies)
<1> DEFINE RR == [exists : BOOLEAN, grants : BOOLEAN, writers : SUBSET Writer]
           WW == {Roles!Idle} \cup [pc : {"assign"}, role : R] \cup [pc : {"update"}, role : R, grants : BOOLEAN]
<1> HIDE DEF RR, WW
<1>0. /\ roles \in [R -> RR] /\ slice \in [array : Seq(R), len : Nat] /\ slice.len <= Len(slice.array)
      /\ DOMAIN rOp = Checker \cup Writer
      /\ \A c \in Checker : rOp[c] \in {Roles!Idle} \cup CheckCall
      /\ \A c \in Writer : rOp[c] \in WW
  BY DEF RoleInv, RoleData, RoleTyped, RR, WW
<1> DEFINE Kept == /\ slice' = slice /\ roles' \in [R -> RR] /\ DOMAIN rOp' = DOMAIN rOp
                   /\ \A c \in Checker : rOp'[c] = rOp[c]
                   /\ \A c \in Writer : rOp'[c] \in WW
<1>1. Kept
  <2>1. ASSUME NEW r \in R, Roles!Delete(r) PROVE Kept
    <3>1. [roles[r] EXCEPT !.exists = FALSE] \in RR
      BY <1>0 DEF RR
    <3>2. roles' \in [R -> RR]
      BY <1>0, <2>1, <3>1 DEF Roles!Delete
    <3> QED BY <1>0, <2>1, <3>2 DEF Roles!Delete
  <2>2. ASSUME NEW w \in Writer, Roles!EndUpdate(w) PROVE Kept
    <3>1. rOp[w] \in [pc : {"update"}, role : R, grants : BOOLEAN]
      <4>1. rOp[w] \in WW /\ rOp[w].pc = "update"
        BY <1>0, <2>2 DEF Roles!EndUpdate
      <4> QED BY <4>1 DEF WW, Roles!Idle
    <3> DEFINE r == rOp[w].role
               new == [roles[r] EXCEPT !.writers = roles[r].writers \ {w}, !.grants = rOp[w].grants]
    <3>2. r \in R /\ new \in RR
      <4>1. r \in R /\ rOp[w].grants \in BOOLEAN
        BY <3>1
      <4>2. roles[r] \in RR
        BY <1>0, <4>1
      <4> QED BY <4>1, <4>2 DEF RR
    <3>3. roles' = [roles EXCEPT ![r] = new]
      BY <1>0, <2>2, <3>2 DEF Roles!EndUpdate
    <3>4. roles' \in [R -> RR]
      <4> HIDE DEF new, r
      <4> QED BY <1>0, <3>2, <3>3
    <3> QED BY <1>0, <2>2, <3>4, RoleNames DEF Roles!EndUpdate, WW
  <2>3. ASSUME NEW w \in Writer, NEW r \in R, Roles!Assign(w, r) PROVE Kept
    <3>1. [pc |-> "assign", role |-> r] \in WW
      BY DEF WW
    <3> QED BY <1>0, <2>3, <3>1, RoleNames DEF Roles!Assign
  <2>4. ASSUME NEW w \in Writer, NEW r \in R, NEW g \in BOOLEAN, Roles!Update(w, r, g) PROVE Kept
    <3>1. [pc |-> "update", role |-> r, grants |-> g] \in WW
      BY DEF WW
    <3> DEFINE new == [roles[r] EXCEPT !.writers = roles[r].writers \cup {w}]
    <3>2. new \in RR
      BY <1>0 DEF RR
    <3>3. roles' = [roles EXCEPT ![r] = new]
      BY <1>0, <2>4 DEF Roles!Update
    <3>4. roles' \in [R -> RR]
      <4> HIDE DEF new
      <4> QED BY <1>0, <3>2, <3>3
    <3> QED BY <1>0, <2>4, <3>1, <3>4, RoleNames DEF Roles!Update
  <2> QED BY <2>1, <2>2, <2>3, <2>4
<1>2. RoleTyped(R)'
  BY <1>0, <1>1 DEF RoleTyped, RR, WW
<1>3. \A c \in Checker : CheckMoves(c, copies)
  BY <1>1, Undisturbed
<1> QED BY <1>2, <1>3

\* RevokeRole: the entries after the role move down.
LEMMA RevokeMoves ==
  ASSUME NEW R, NEW copies \in BOOLEAN, RoleInv(R, copies), NEW r \in R, Roles!Revoke(r)
  PROVE  RoleTyped(R)' /\ \A c \in Checker : CheckMoves(c, copies)
<1> DEFINE a == slice.array
           n == slice.len
<1>1. slice \in [array : Seq(R), len : Nat] /\ n \in Nat /\ a \in Seq(R) /\ n <= Len(a)
  BY DEF RoleInv, RoleData, RoleTyped
<1>2. PICK i \in 1..n :
        slice' = [array |-> [j \in DOMAIN a |-> IF j \in i..(n - 1) THEN a[j + 1] ELSE a[j]], len |-> n - 1]
  BY DEF Roles!Revoke, Roles!Held
<1>3. roles' = roles /\ rOp' = rOp
  BY DEF Roles!Revoke
<1> HIDE DEF a, n
<1> DEFINE b == [j \in 1..Len(a) |-> IF j \in i..(n - 1) THEN a[j + 1] ELSE a[j]]
<1>4. \A j \in 1..Len(a) : b[j] = (IF j \in i..(n - 1) THEN a[j + 1] ELSE a[j]) /\ b[j] \in R
  BY <1>1
<1>5. b \in Seq(R) /\ Len(b) = Len(a)
  BY <1>1, <1>4
<1>6. slice' = [array |-> b, len |-> n - 1]
  <2>1. DOMAIN a = 1..Len(a)
    BY <1>1
  <2>2. [j \in DOMAIN a |-> IF j \in i..(n - 1) THEN a[j + 1] ELSE a[j]] = b
    BY ONLY <2>1
  <2> QED BY <1>2, <2>2
<1> HIDE DEF b
<1>7. slice'.array = b /\ slice'.len = n - 1 /\ n - 1 \in Nat /\ slice'.len <= Len(b)
  BY <1>1, <1>5, <1>6
<1>8. RoleTyped(R)'
  <2>1. slice' \in [array : Seq(R), len : Nat] /\ slice'.len <= Len(slice'.array)
    BY <1>5, <1>6, <1>7
  <2>2. RoleTyped(R)
    BY DEF RoleInv, RoleData
  <2> QED BY <1>3, <2>1, <2>2 DEF RoleTyped
<1>9. ASSUME NEW c \in Checker, rOp[c].pc = "check" PROVE GoesOn(c, copies)
  <2>1. Listed(R, c) /\ Witnessed(R, c) /\ Ahead(c, copies) /\ (copies => ~rOp[c].live)
    BY <1>9 DEF RoleInv
  <2>2. rOp[c] \in CheckCall
    BY <1>9 DEF RoleInv, RoleData, RoleTyped, Roles!Idle
  <2>3. rOp[c].len \in Nat /\ rOp[c].i \in 1..(rOp[c].len + 1)
    BY <1>9, <2>1, <2>2 DEF CheckCall, Listed
  <2>4. rOp[c].len <= Len(IF rOp'[c].live THEN slice'.array ELSE rOp'[c].list)
    BY <1>3, <1>5, <1>7, <2>1 DEF Listed, a
  <2>5. slice'.len < slice.len
    BY <1>1, <1>7 DEF n
  <2>6. ASSUME NEW k \in 1..rOp[c].len PROVE Entry(c, k)' \in seen[c].held
    <3>1. CASE rOp[c].live
      <4>1. Entry(c, k)' = b[k] /\ Entry(c, k) = a[k] /\ k \in 1..Len(a)
        BY <1>3, <1>7, <2>1, <2>3, <3>1 DEF Entry, Listed, a
      <4>2. CASE k \in i..(n - 1)
        <5>1. b[k] = a[k + 1] /\ k + 1 \in 1..n
          BY <1>1, <1>4, <4>1, <4>2
        <5>2. a[k + 1] \in Roles!Held(slice)
          BY <5>1 DEF Roles!Held, a, n
        <5> QED BY <2>1, <4>1, <5>1, <5>2 DEF Witnessed
      <4>3. CASE k \notin i..(n - 1)
        <5>1. b[k] = a[k]
          BY <1>4, <4>1, <4>3
        <5> QED BY <2>1, <4>1, <5>1 DEF Listed
      <4> QED BY <4>2, <4>3
    <3>2. CASE ~rOp[c].live
      BY <1>3, <2>1, <3>2 DEF Entry, Listed
    <3> QED BY <3>1, <3>2
  <2>7. ASSUME copies PROVE \A k \in 1..rOp[c].len : Entry(c, k)' = Entry(c, k)
    BY <1>3, <2>1, <2>7 DEF Entry
  <2>8. ASSUME copies, NEW q \in seen[c].always PROVE \E k \in rOp'[c].i..rOp[c].len : Entry(c, k)' = q
    <3>1. PICK k \in rOp[c].i..rOp[c].len : Entry(c, k) = q
      BY <2>1, <2>8 DEF Ahead
    <3>2. k \in 1..rOp[c].len
      BY <2>3, <3>1
    <3> QED BY <1>3, <2>7, <2>8, <3>1, <3>2
  <2> QED BY <1>3, <1>9, <2>1, <2>3, <2>4, <2>5, <2>6, <2>8 DEF GoesOn
<1>10. ASSUME NEW c \in Checker PROVE CheckMoves(c, copies)
  <2>1. rOp[c] = Roles!Idle \/ rOp[c].pc = "decided" \/ rOp[c].pc = "check"
    BY DEF RoleInv, RoleData, RoleTyped, CheckCall
  <2> QED BY <1>3, <1>9, <2>1 DEF CheckMoves
<1> QED BY <1>8, <1>10

\* AssignRole: in place, after the entries of the slice, or in another array.
LEMMA AppendMoves ==
  ASSUME NEW R \in SUBSET (Role \cup GrantRole), NEW copies \in BOOLEAN, RoleInv(R, copies),
         NEW w \in Writer, Roles!Append1(w)
  PROVE  RoleTyped(R)' /\ \A c \in Checker : CheckMoves(c, copies)
<1> DEFINE a == slice.array
           n == slice.len
           r == rOp[w].role
           free == [rOp EXCEPT ![w] = Roles!Idle]
           WW == {Roles!Idle} \cup [pc : {"assign"}, role : R] \cup [pc : {"update"}, role : R, grants : BOOLEAN]
<1>1. /\ slice \in [array : Seq(R), len : Nat] /\ n \in Nat /\ a \in Seq(R) /\ n <= Len(a)
      /\ slice = [array |-> a, len |-> n]
  BY DEF RoleInv, RoleData, RoleTyped
<1>2. /\ DOMAIN rOp = Checker \cup Writer /\ DOMAIN free = DOMAIN rOp
      /\ \A c \in Checker : rOp[c] \in {Roles!Idle} \cup CheckCall /\ free[c] = rOp[c]
      /\ \A c \in Writer : rOp[c] \in WW /\ free[c] \in WW
      /\ \A c \in Writer : free[c].pc # "check"
  BY RoleNames DEF RoleInv, RoleData, RoleTyped, Roles!Idle
<1>3. r \in R /\ roles' = roles
  BY <1>2 DEF Roles!Append1, Roles!Idle
<1>4. CASE Roles!Has(r)
  <2>1. rOp' = free /\ slice' = slice
    BY <1>4 DEF Roles!Append1
  <2> HIDE DEF free, WW
  <2>2. RoleTyped(R)'
    <3>1. RoleTyped(R)
      BY DEF RoleInv, RoleData
    <3> QED BY <1>2, <1>3, <2>1, <3>1 DEF RoleTyped, WW
  <2>3. \A c \in Checker : rOp'[c] = rOp[c]
    BY <1>2, <2>1
  <2> QED BY <2>1, <2>2, <2>3, Undisturbed
<1>5. CASE ~Roles!Has(r) /\ n < Len(a)
  <2>1. rOp' = free /\ slice' = [array |-> [a EXCEPT ![n + 1] = r], len |-> n + 1]
    BY <1>5 DEF Roles!Append1
  <2> DEFINE b == [a EXCEPT ![n + 1] = r]
  <2>2. b \in Seq(R) /\ Len(b) = Len(a) /\ b[n + 1] = r /\ \A k \in 1..Len(a) : k # n + 1 => b[k] = a[k]
    BY <1>1, <1>3, <1>5
  <2>3. slice'.array = b /\ slice'.len = n + 1 /\ n + 1 \in Nat /\ n + 1 <= Len(b)
    BY <1>1, <1>5, <2>1, <2>2
  <2>4. slice' \in [array : Seq(R), len : Nat] /\ slice'.len <= Len(slice'.array)
    BY <2>1, <2>2, <2>3
  <2> HIDE DEF free, WW, b, a, n, r
  <2>5. RoleTyped(R)'
    <3>1. RoleTyped(R)
      BY DEF RoleInv, RoleData
    <3> QED BY <1>2, <1>3, <2>1, <2>4, <3>1 DEF RoleTyped, WW
  <2>6. \A c \in Checker : rOp'[c] = rOp[c]
    BY <1>2, <2>1
  <2>7. r \in Roles!Held(slice')
    <3>1. n + 1 \in 1..slice'.len /\ slice'.array[n + 1] = r
      BY <1>1, <2>2, <2>3
    <3> QED BY <3>1 DEF Roles!Held
  <2>8. ASSUME NEW c \in Checker, rOp[c].pc = "check" PROVE GoesOn(c, copies)
    <3>1. Listed(R, c) /\ Ahead(c, copies) /\ (copies => ~rOp[c].live)
      BY <2>8 DEF RoleInv
    <3>2. rOp[c] \in CheckCall
      BY <2>8, <1>2 DEF Roles!Idle
    <3>3. rOp[c].len \in Nat
      BY <2>8, <3>2 DEF CheckCall
    <3>4. rOp[c].len <= Len(IF rOp'[c].live THEN slice'.array ELSE rOp'[c].list)
      BY <2>2, <2>3, <2>6, <3>1 DEF Listed, a
    <3>5. ASSUME NEW k \in 1..rOp[c].len
          PROVE  /\ Entry(c, k)' = Entry(c, k) \/ Entry(c, k)' \in Roles!Held(slice')
                 /\ ~rOp[c].live \/ k <= n => Entry(c, k)' = Entry(c, k)
      <4>1. CASE ~rOp[c].live
        BY <2>6, <4>1 DEF Entry
      <4>2. CASE rOp[c].live
        <5>1. Entry(c, k)' = b[k] /\ Entry(c, k) = a[k] /\ k \in 1..Len(a)
          BY <2>3, <2>6, <3>1, <3>3, <4>2 DEF Entry, Listed, a
        <5> QED BY <1>1, <2>2, <2>7, <4>2, <5>1
      <4> QED BY <4>1, <4>2
    <3>6. copies \/ ~(seen[c].shifted \/ slice'.len < slice.len) =>
            (rOp[c].live => rOp[c].len <= n)
      BY <3>1 DEF Ahead, n
    <3>7. copies \/ ~(seen[c].shifted \/ slice'.len < slice.len) =>
           /\ rOp'[c].live => rOp[c].len <= slice'.len
           /\ \A k \in 1..rOp[c].len : Entry(c, k)' = Entry(c, k)
      BY <1>1, <2>3, <2>6, <3>3, <3>5, <3>6
    <3> QED BY <2>6, <2>8, <3>1, <3>4, <3>5, <3>7, Disturbed
  <2>9. ASSUME NEW c \in Checker PROVE CheckMoves(c, copies)
    <3>1. rOp[c] = Roles!Idle \/ rOp[c].pc = "decided" \/ rOp[c].pc = "check"
      BY <1>2 DEF CheckCall
    <3> QED BY <2>6, <2>8, <3>1 DEF CheckMoves
  <2> QED BY <2>5, <2>9
<1>6. CASE ~Roles!Has(r) /\ ~(n < Len(a))
  <2> DEFINE tail == [i \in 1..(IF n = 0 THEN 1 ELSE n) |-> r]
             b == SubSeq(a, 1, n) \o tail
  <2>1. rOp' = Roles!Detach(free) /\ slice' = [array |-> b, len |-> n + 1]
    BY <1>6 DEF Roles!Append1
  <2>2. Len(a) = n
    BY <1>1, <1>6
  <2>3. tail \in Seq(R) /\ Len(tail) >= 1 /\ Len(tail) \in Nat
    <3>1. (IF n = 0 THEN 1 ELSE n) \in Nat /\ (IF n = 0 THEN 1 ELSE n) >= 1
      BY <1>1
    <3> QED BY <1>3, <3>1
  <2>4. SubSeq(a, 1, n) \in Seq(R) /\ Len(SubSeq(a, 1, n)) = n
    BY <1>1
  <2>5. b \in Seq(R) /\ Len(b) >= n + 1 /\ Len(b) \in Nat
    <3> DEFINE front == SubSeq(a, 1, n)
    <3> HIDE DEF tail, front
    <3>1. front \o tail \in Seq(R) /\ Len(front \o tail) = Len(front) + Len(tail)
      BY <2>3, <2>4 DEF front
    <3> QED BY <1>1, <2>3, <2>4, <3>1 DEF front
  <2> HIDE DEF b, tail, free, WW
  <2>6. slice'.array = b /\ slice'.len = n + 1 /\ n + 1 \in Nat
    BY <1>1, <2>1
  <2>7. slice' \in [array : Seq(R), len : Nat] /\ slice'.len <= Len(slice'.array)
    BY <2>1, <2>5, <2>6
  <2>8. /\ DOMAIN rOp' = DOMAIN rOp
        /\ \A c \in Writer : rOp'[c] = free[c]
        /\ \A c \in Checker :
             rOp'[c] = IF rOp[c].pc = "check" /\ rOp[c].live
                       THEN [rOp[c] EXCEPT !.live = FALSE, !.list = a] ELSE rOp[c]
    BY <1>2, <2>1 DEF Roles!Detach
  <2>9. ASSUME NEW c \in Checker, rOp[c].pc = "check", rOp[c].live
        PROVE  /\ rOp'[c] \in CheckCall /\ rOp'[c].pc = "check" /\ ~rOp'[c].live /\ rOp'[c].list = a
               /\ rOp'[c].len = rOp[c].len /\ rOp'[c].i = rOp[c].i
    <3>1. rOp[c] \in [pc : {"check"}, live : BOOLEAN, list : Seq(Role \cup GrantRole), len : Nat, i : Nat]
      BY <1>2, <2>9 DEF CheckCall, Roles!Idle
    <3>2. a \in Seq(Role \cup GrantRole)
      BY <1>1
    <3>3. rOp'[c] = [rOp[c] EXCEPT !.live = FALSE, !.list = a]
      BY <2>8, <2>9
    <3> HIDE DEF a
    <3> QED BY <2>9, <3>1, <3>2, <3>3 DEF CheckCall
  <2>10. RoleTyped(R)'
    <3>1. RoleTyped(R)
      BY DEF RoleInv, RoleData
    <3>2. \A c \in Checker : rOp'[c] \in {Roles!Idle} \cup CheckCall
      BY <1>2, <2>8, <2>9
    <3> QED BY <1>2, <1>3, <2>7, <2>8, <3>1, <3>2 DEF RoleTyped, WW
  <2>11. ASSUME NEW c \in Checker, rOp[c].pc = "check" PROVE GoesOn(c, copies)
    <3>1. Listed(R, c) /\ Ahead(c, copies) /\ (copies => ~rOp[c].live)
      BY <2>11 DEF RoleInv
    <3>2. /\ rOp'[c].pc = "check" /\ ~rOp'[c].live
          /\ rOp'[c].len = rOp[c].len /\ rOp'[c].i = rOp[c].i
      BY <2>8, <2>9, <2>11
    <3>3. \A k : Entry(c, k)' = Entry(c, k)
      <4>1. CASE rOp[c].live
        BY <2>9, <2>11, <4>1 DEF Entry, a
      <4>2. CASE ~rOp[c].live
        BY <2>8, <4>2 DEF Entry
      <4> QED BY <4>1, <4>2
    <3>4. rOp[c].len <= Len(rOp'[c].list)
      <4>1. CASE rOp[c].live
        BY <2>9, <2>11, <3>1, <4>1 DEF Listed, a
      <4>2. CASE ~rOp[c].live
        BY <2>8, <3>1, <4>2 DEF Listed
      <4> QED BY <4>1, <4>2
    <3> QED BY <2>11, <3>1, <3>2, <3>3, <3>4, Disturbed
  <2>12. ASSUME NEW c \in Checker PROVE CheckMoves(c, copies)
    <3>1. CASE rOp[c].pc = "check"
      BY <2>11, <3>1 DEF CheckMoves
    <3>2. CASE rOp[c].pc # "check"
      <4>1. rOp'[c] = rOp[c] /\ (rOp[c] = Roles!Idle \/ rOp[c].pc = "decided")
        BY <1>2, <2>8, <3>2 DEF CheckCall
      <4> QED BY <4>1 DEF CheckMoves
    <3> QED BY <3>1, <3>2
  <2> QED BY <2>10, <2>12
<1> QED BY <1>4, <1>5, <1>6

\* A step of a check itself.
LEMMA CheckSteps ==
  ASSUME NEW R, NEW copies \in BOOLEAN, RoleInv(R, copies), R \subseteq Role \cup GrantRole, NEW c \in Checker,
         Begins(c, ~copies) \/ Roles!ReadRole(c) \/ Roles!EndCheck(c) \/ Roles!Return(c)
  PROVE  RoleTyped(R)' /\ \A d \in Checker : CheckMoves(d, copies)
<1>1. roles' = roles /\ slice' = slice
  BY DEF Begins, Roles!ReadRole, Roles!EndCheck, Roles!Return
<1>2. /\ RoleTyped(R) /\ DOMAIN rOp = Checker \cup Writer
      /\ slice \in [array : Seq(R), len : Nat] /\ slice.len \in Nat /\ slice.len <= Len(slice.array)
      /\ \A d \in Checker : rOp[d] \in {Roles!Idle} \cup CheckCall
  BY DEF RoleInv, RoleData, RoleTyped
<1>3. ASSUME NEW call \in {Roles!Idle} \cup CheckCall, rOp' = [rOp EXCEPT ![c] = call], CheckMoves(c, copies)
      PROVE  RoleTyped(R)' /\ \A d \in Checker : CheckMoves(d, copies)
  <2>1. /\ DOMAIN rOp' = DOMAIN rOp
        /\ \A d \in DOMAIN rOp : rOp'[d] = IF d = c THEN call ELSE rOp[d]
    BY <1>2, <1>3
  <2>2. RoleTyped(R)'
    BY <1>1, <1>2, <2>1, RoleNames DEF RoleTyped
  <2>3. \A d \in Checker : d # c => CheckMoves(d, copies)
    BY <1>1, <1>2, <2>1, Undisturbed
  <2> QED BY <1>3, <2>2, <2>3
<1>4. CASE Begins(c, ~copies)
  <2> DEFINE list == SubSeq(slice.array, 1, slice.len)
             call == [pc |-> "check", live |-> ~copies, list |-> list, len |-> slice.len, i |-> 1]
  <2>1. list \in Seq(R) /\ Len(list) = slice.len /\ \A k \in 1..slice.len : list[k] = slice.array[k]
    BY <1>2, HeldOf
  <2>2. list \in Seq(Role \cup GrantRole)
    BY <2>1
  <2> HIDE DEF list
  <2>3. call \in CheckCall
    BY <1>2, <2>2 DEF CheckCall
  <2>4. call.pc = "check" /\ (call.live <=> ~copies) /\ call.list = list /\ call.len = slice.len /\ call.i = 1
    OBVIOUS
  <2>5. rOp[c] = Roles!Idle /\ rOp' = [rOp EXCEPT ![c] = call]
    BY <1>4 DEF Begins, list
  <2> HIDE DEF call
  <2>6. rOp'[c] = call
    BY <1>2, <2>5
  <2>7. \A k \in 1..slice.len : Entry(c, k)' = slice.array[k]
    BY <1>1, <2>1, <2>4, <2>6 DEF Entry
  <2>8. slice.len <= Len(IF rOp'[c].live THEN slice'.array ELSE rOp'[c].list)
    BY <1>1, <1>2, <2>1, <2>4, <2>6
  <2>9. StartsOut(c, copies)
    BY <1>1, <2>4, <2>5, <2>6, <2>7, <2>8 DEF StartsOut
  <2> QED BY <1>3, <2>3, <2>5, <2>9 DEF CheckMoves
<1>5. ASSUME rOp[c].pc = "check"
      PROVE  /\ rOp[c] \in [pc : {"check"}, live : BOOLEAN, list : Seq(Role \cup GrantRole), len : Nat, i : Nat]
             /\ Listed(R, c) /\ Witnessed(R, c) /\ Ahead(c, copies) /\ (copies => ~rOp[c].live)
             /\ rOp[c].len \in Nat /\ rOp[c].i \in 1..(rOp[c].len + 1)
  <2>1. rOp[c] \in [pc : {"check"}, live : BOOLEAN, list : Seq(Role \cup GrantRole), len : Nat, i : Nat]
    BY <1>2, <1>5 DEF CheckCall, Roles!Idle
  <2> QED BY <1>5, <2>1 DEF RoleInv, Listed
<1>6. ASSUME rOp[c].pc = "check", NEW allowed \in BOOLEAN, Roles!Decide(c, allowed),
             IF allowed THEN seen[c].held \cap seen[c].granted # {}
             ELSE seen[c].always = {} \/ (~copies /\ seen[c].shifted)
      PROVE  RoleTyped(R)' /\ \A d \in Checker : CheckMoves(d, copies)
  <2> DEFINE call == [pc |-> "decided", allowed |-> allowed]
  <2>1. call \in CheckCall /\ rOp' = [rOp EXCEPT ![c] = call]
    BY <1>6 DEF Roles!Decide, CheckCall
  <2>2. call.pc = "decided" /\ (call.allowed <=> allowed)
    OBVIOUS
  <2> HIDE DEF call
  <2>3. rOp'[c] = call
    BY <1>2, <2>1
  <2>4. EndsWith(c, copies)
    BY <1>6, <2>2, <2>3 DEF EndsWith
  <2> QED BY <1>3, <2>1, <2>4 DEF CheckMoves
<1>7. CASE Roles!EndCheck(c)
  <2>1. rOp[c].pc = "check" /\ rOp[c].i > rOp[c].len /\ Roles!Decide(c, FALSE)
    BY <1>7 DEF Roles!EndCheck
  <2>2. copies \/ ~seen[c].shifted => seen[c].always = {}
    BY <1>5, <2>1 DEF Ahead
  <2> QED BY <1>6, <2>1, <2>2
<1>8. CASE Roles!ReadRole(c)
  <2> DEFINE i == rOp[c].i
             q == Entry(c, i)
  <2>1. rOp[c].pc = "check" /\ i <= rOp[c].len
    BY <1>8 DEF Roles!ReadRole
  <2>2. i \in 1..rOp[c].len /\ i \in Nat
    BY <1>5, <2>1
  <2>3. q \in seen[c].held /\ seen[c].held \subseteq R
    BY <1>5, <2>1, <2>2 DEF Listed, RoleInv, RoleData
  <2>4. PICK granted \in Roles!Answers(q) :
          IF granted THEN Roles!Decide(c, TRUE) ELSE rOp' = [rOp EXCEPT ![c].i = @ + 1]
    BY <1>8 DEF Roles!ReadRole, Entry
  <2> HIDE DEF q
  <2>5. CASE granted
    <3>1. Roles!Loose(q)
      BY <2>4, <2>5 DEF Roles!Answers, Roles!Loose, Roles!MayGrant
    <3>2. q \in seen[c].granted
      BY <1>5, <2>1, <2>3, <3>1 DEF Witnessed
    <3> QED BY <1>6, <2>1, <2>3, <2>4, <2>5, <3>2
  <2>6. CASE ~granted
    <3>1. ~Roles!Solid(q)
      BY <2>4, <2>6 DEF Roles!Answers, Roles!Solid
    <3> DEFINE call == [rOp[c] EXCEPT !.i = i + 1]
    <3>2. rOp' = [rOp EXCEPT ![c] = call]
      BY <2>4, <2>6
    <3>3. /\ call \in CheckCall /\ call.pc = "check" /\ call.len = rOp[c].len /\ call.list = rOp[c].list
          /\ call.i = i + 1
      BY <1>5, <2>1, <2>2 DEF CheckCall
    <3>4. call.live = rOp[c].live
      BY <1>5, <2>1
    <3> HIDE DEF call, i
    <3>5. rOp'[c] = call
      BY <1>2, <3>2
    <3>6. \A k : Entry(c, k)' = Entry(c, k)
      BY <1>1, <3>3, <3>4, <3>5 DEF Entry
    <3>7. rOp[c].len <= Len(IF rOp'[c].live THEN slice'.array ELSE rOp'[c].list)
      BY <1>1, <1>5, <2>1, <3>3, <3>4, <3>5 DEF Listed
    <3>8. copies \/ ~seen[c].shifted =>
            /\ rOp'[c].live => rOp[c].len <= slice'.len
            /\ \A r \in seen[c].always : \E k \in rOp'[c].i..rOp[c].len : Entry(c, k)' = r
      <4>1. ASSUME copies \/ ~seen[c].shifted, NEW r \in seen[c].always
            PROVE  \E k \in rOp'[c].i..rOp[c].len : Entry(c, k)' = r
        <5>1. PICK k \in i..rOp[c].len : Entry(c, k) = r
          BY <1>5, <2>1, <4>1 DEF Ahead, i
        <5>2. Roles!Solid(r)
          BY <1>5, <2>1, <4>1 DEF Witnessed
        <5>3. k # i
          BY <3>1, <5>1, <5>2 DEF q
        <5>4. k \in (i + 1)..rOp[c].len
          BY <1>5, <2>1, <2>2, <5>1, <5>3
        <5> QED BY <3>3, <3>5, <3>6, <5>1, <5>4
      <4> QED BY <1>1, <1>5, <2>1, <3>4, <3>5, <4>1 DEF Ahead
    <3>9. ~(slice'.len < slice.len)
      BY <1>1, <1>2
    <3>10. rOp'[c].i \in 1..(rOp[c].len + 1)
      BY <1>5, <2>1, <2>2, <3>3, <3>5
    <3>11. \A k \in 1..rOp[c].len : Entry(c, k)' \in seen[c].held
      BY <1>5, <2>1, <3>6 DEF Listed
    <3>12. copies => ~rOp'[c].live
      BY <1>5, <2>1, <3>4, <3>5
    <3>13. GoesOn(c, copies)
      BY <2>1, <3>3, <3>5, <3>7, <3>8, <3>10, <3>11, <3>12 DEF GoesOn
    <3> QED BY <1>3, <3>2, <3>3, <3>13 DEF CheckMoves
  <2> QED BY <2>5, <2>6
<1>9. CASE Roles!Return(c)
  <2>1. rOp' = [rOp EXCEPT ![c] = Roles!Idle]
    BY <1>9 DEF Roles!Return
  <2>2. rOp'[c] = Roles!Idle
    BY <1>2, <2>1
  <2> QED BY <1>3, <2>1, <2>2 DEF CheckMoves
<1> QED BY <1>4, <1>7, <1>8, <1>9

LEMMA RoleSteps ==
  ASSUME NEW R \in SUBSET (Role \cup GrantRole), NEW copies \in BOOLEAN, RoleInv(R, copies),
         RoleStep(R, copies), Observed(R)
  PROVE  RoleInv(R, copies)'
<1>1. RoleTyped(R)' /\ \A c \in Checker : CheckMoves(c, copies)
  BY QuietSteps, RevokeMoves, AppendMoves, CheckSteps DEF RoleStep
<1> QED BY <1>1, ChecksKept

LEMMA RoleSame ==
  ASSUME NEW R, NEW copies, RoleInv(R, copies), UNCHANGED <<roles, slice, rOp, seen>>
  PROVE  RoleInv(R, copies)'
BY DEF RoleInv, RoleData, RoleTyped, Listed, Witnessed, Ahead, Decision, Entry, Roles!Held, Roles!Has,
       Roles!Loose, Roles!Solid, Roles!MayGrant

LEMMA RoleStarts ==
  /\ Roles!Init => RoleInv(Role, FALSE)
  /\ Grants!Init => RoleInv(GrantRole, TRUE)
<1>1. ASSUME NEW R, NEW copies \in BOOLEAN,
             roles \in [R -> [exists : {TRUE}, grants : BOOLEAN, writers : {{}}]],
             slice = [array |-> <<>>, len |-> 0],
             rOp = [c \in Checker \cup Writer |-> Roles!Idle],
             seen = [c \in Checker |-> Roles!NoneSeen]
      PROVE  RoleInv(R, copies)
  <2>1. RoleTyped(R)
    <3>1. \A r \in R : roles[r] \in [exists : BOOLEAN, grants : BOOLEAN, writers : SUBSET Writer]
      BY <1>1
    <3>2. roles \in [R -> [exists : BOOLEAN, grants : BOOLEAN, writers : SUBSET Writer]]
      BY <1>1, <3>1
    <3>3. <<>> \in Seq(R) /\ Len(<<>>) = 0
      OBVIOUS
    <3>4. slice \in [array : Seq(R), len : Nat] /\ slice.len <= Len(slice.array)
      BY <1>1, <3>3
    <3> QED BY <1>1, <3>2, <3>4 DEF RoleTyped
  <2>2. Roles!NoneSeen \in [always : SUBSET R, held : SUBSET R, granted : SUBSET R, shifted : BOOLEAN]
    BY DEF Roles!NoneSeen
  <2>3. RoleData(R)
    BY <1>1, <2>1, <2>2 DEF RoleData
  <2>4. \A c \in Checker : rOp[c].pc = "idle"
    BY <1>1 DEF Roles!Idle
  <2> QED BY <2>3, <2>4 DEF RoleInv
<1> QED BY <1>1 DEF Roles!Init, Grants!Init, Roles!Idle, Grants!Idle, Roles!NoneSeen, Grants!NoneSeen

LEMMA RoleFacts ==
  /\ RoleInv(Role, FALSE) => Roles!DecisionExact
  /\ RoleInv(GrantRole, TRUE) => Grants!DecisionExact
BY DEF RoleInv, Decision, Roles!DecisionExact, Grants!DecisionExact

-----------------------------------------------------------------------------
(* All components together. *)

LEMMA InitInv == Init => Inv
<1> SUFFICES ASSUME Init PROVE Inv
  OBVIOUS
<1>1. GuardInv /\ UserInv /\ Unique /\ TenantInv /\ SsoInv
  BY GuardStarts, UserStarts, TenantStarts, SsoStarts DEF Init
<1>2. (part = "local tokens" => LocalInv) /\ (part # "local tokens" => SharedInv)
  BY LocalStarts, SharedStarts DEF Init
<1>3. (part = "roles" => RoleInv(Role, FALSE)) /\ (part = "grants" => RoleInv(GrantRole, TRUE))
  BY RoleStarts DEF Init
<1> QED BY <1>1, <1>2, <1>3 DEF Inv

\* What is not of the component that moves stays as it is.
TokensHold == (part = "local tokens" => LocalInv) /\ (part # "local tokens" => SharedInv)
UsersHold == UserInv /\ (part = "postgres users" => Unique)
RolesHold == (part = "roles" => RoleInv(Role, FALSE)) /\ (part = "grants" => RoleInv(GrantRole, TRUE))

LEMMA Untouched ==
  ASSUME Inv, part' = part
  PROVE  /\ UNCHANGED guardVars => GuardInv'
         /\ UNCHANGED tokenVars => TokensHold'
         /\ UNCHANGED userVars => UsersHold'
         /\ UNCHANGED tenantVars => TenantInv'
         /\ UNCHANGED roleVars => RolesHold'
         /\ UNCHANGED ssoVars => SsoInv'
<1>1. UNCHANGED guardVars => GuardInv'
  BY GuardSame DEF Inv
<1>2. UNCHANGED tokenVars => TokensHold'
  BY LocalSame, SharedSame DEF Inv, TokensHold
<1>3. UNCHANGED userVars => UsersHold'
  BY UserSame DEF Inv, UsersHold
<1>4. UNCHANGED tenantVars => TenantInv'
  BY TenantSame DEF Inv
<1>5. UNCHANGED roleVars => RolesHold'
  BY RoleSame DEF Inv, RolesHold, roleVars
<1>6. UNCHANGED ssoVars => SsoInv'
  BY SsoSame DEF Inv
<1> QED BY <1>1, <1>2, <1>3, <1>4, <1>5, <1>6

LEMMA InvStep == ASSUME Inv, [Next]_vars PROVE Inv'
<1> DEFINE Goal == GuardInv' /\ TokensHold' /\ UsersHold' /\ TenantInv' /\ RolesHold' /\ SsoInv'
<1> SUFFICES Goal
  BY DEF Inv, TokensHold, UsersHold, RolesHold
<1>1. CASE GuardNext
  <2>1. GuardInv'
    BY <1>1, GuardSteps DEF GuardNext, Inv
  <2> QED BY <1>1, <2>1, Untouched DEF GuardNext
<1>2. CASE TokenNext
  <2>1. TokensHold'
    BY <1>2, SharedSteps, LocalSteps DEF TokenNext, Inv, TokensHold
  <2> QED BY <1>2, <2>1, Untouched DEF TokenNext
<1>3. CASE UserNext
  <2>1. UsersHold'
    BY <1>3, UserSteps DEF UserNext, Inv, UsersHold
  <2> QED BY <1>3, <2>1, Untouched DEF UserNext
<1>4. CASE TenantNext
  <2>1. TenantInv'
    BY <1>4, TenantSteps DEF TenantNext, Inv
  <2> QED BY <1>4, <2>1, Untouched DEF TenantNext
<1>5. CASE RoleNext
  <2>1. CASE part = "roles" /\ Roles!Next
    <3>1. RoleInv(Role, FALSE)'
      BY <2>1, RolesStep, RoleSteps DEF Inv
    <3> QED BY <1>5, <2>1, <3>1, Untouched DEF RoleNext, RolesHold
  <2>2. CASE part = "grants" /\ Grants!Next
    <3>1. RoleInv(GrantRole, TRUE)'
      BY <2>2, GrantsStep, RoleSteps DEF Inv
    <3> QED BY <1>5, <2>2, <3>1, Untouched DEF RoleNext, RolesHold
  <2> QED BY <1>5, <2>1, <2>2 DEF RoleNext
<1>6. CASE SsoNext
  <2>1. SsoInv'
    BY <1>6, SsoSteps DEF SsoNext, Inv
  <2> QED BY <1>6, <2>1, Untouched DEF SsoNext
<1>7. CASE UNCHANGED vars
  BY <1>7, Untouched DEF vars
<1> QED BY <1>1, <1>2, <1>3, <1>4, <1>5, <1>6, <1>7 DEF Next

\* The inductive invariant of access control holds throughout.
THEOREM Invariance == Spec => []Inv
<1>1. Inv /\ [Next]_vars => Inv'
  BY InvStep
<1> QED BY <1>1, InitInv, PTL DEF Spec

\* auth's login guard and tenant.Service: whatever the limits and the number of
\* callers, as long as the limiter answers and its commands go to one database
\* the failed logins of a window stay below the limit plus the callers that had
\* passed the check, and a tenant's members stay below its quota plus the callers
\* that add; in every database a counter goes back in its window by a successful
\* login only.
THEOREM LimitsHoldHolds == Spec => LimitsHold
<1> DEFINE Bounded == Guard!FailuresBounded /\ Tenants!MembersBounded
<1>1. Inv => Bounded
  BY GuardBounds, TenantFacts DEF Inv
<1>2. Inv /\ [Next]_vars => [Guard!FallsByClear]_(Guard!vars)
  <2> SUFFICES ASSUME Inv, Next, ~UNCHANGED Guard!vars PROVE Guard!FallsByClear
    BY DEF vars, guardVars, Guard!vars
  <2>1. CASE GuardNext
    BY <2>1, GuardKeeps DEF GuardNext, Inv, Guard!FallsByClear
  <2>2. CASE ~GuardNext
    BY <2>2 DEF Next, TokenNext, UserNext, TenantNext, RoleNext, SsoNext, guardVars, Guard!vars
  <2> QED BY <2>1, <2>2
<1> QED BY <1>1, <1>2, Invariance, PTL DEF Spec, LimitsHold, Guard!CountersKept

\* The user repositories and tenant.Service: e-mails stay unique, in memory but
\* for the calls that cross; a field of a user changes by the operation that is
\* for it, a deleted user never returns; slugs stay unique but for creations at
\* the same time; a resource is taken from a tenant in that tenant's scope only.
THEOREM DirectoryKeptHolds == Spec => DirectoryKept
<1> DEFINE Apart == /\ part = "memory users" => Memory!EmailsUnique
                    /\ part = "postgres users" => Postgres!EmailsUnique
                    /\ Tenants!SlugsUnique
           Fields == \A u \in User :
             /\ users[u] = Memory!Gone => users'[u] = Memory!Gone
             /\ Memory!Exists(u) /\ users'[u] # users[u] /\ users'[u] # Memory!Gone =>
                  \E c \in Client : uOp[c] # Memory!Idle /\ uOp[c].user = u /\ uOp'[c] = Memory!Idle /\
                    \A f \in {"email", "password", "oauth", "status"} : ~uOp[c].stale /\
                      users'[u][f] # users[u][f] =>
                        uOp[c].kind = [email |-> "update", password |-> "password",
                                       oauth |-> "oauth", status |-> "status"][f]
           Owned == \A x \in Resource : owners[x] # owners'[x] /\ owners[x] # Tenants!NoOwner =>
             \E c \in Client : nOp[c].pc = "remove" /\ nOp[c].tenant = owners[x] /\ nOp'[c] = Tenants!Idle
<1>1. Inv => Apart
  BY TenantFacts, Backends DEF Inv, UserInv, Unique, Memory!EmailsUnique, Postgres!EmailsUnique,
     Memory!Exists, Postgres!Exists, Memory!Absent, Memory!Gone, Postgres!Absent, Postgres!Gone
<1>2. Inv /\ [Next]_vars => [Fields]_(Memory!vars)
  <2> SUFFICES ASSUME Inv, Next, ~UNCHANGED Memory!vars PROVE Fields
    BY DEF vars, userVars, Memory!vars
  <2>1. CASE UserNext
    <3>1. \A u \in User : Follows(u)
      BY <2>1, UserFollows DEF UserNext, Inv
    <3>2. ASSUME NEW u \in User, NEW c \in Client, Changes(uOp[c], users[u], users'[u]),
                 NEW f \in {"email", "password", "oauth", "status"}, users'[u][f] # users[u][f]
          PROVE  uOp[c].kind = [email |-> "update", password |-> "password",
                                oauth |-> "oauth", status |-> "status"][f]
      <4>1. CASE f = "email"
        BY <3>2, <4>1 DEF Changes
      <4>2. CASE f = "password"
        BY <3>2, <4>2 DEF Changes
      <4>3. CASE f = "oauth"
        BY <3>2, <4>3 DEF Changes
      <4>4. CASE f = "status"
        BY <3>2, <4>4 DEF Changes
      <4> QED BY <4>1, <4>2, <4>3, <4>4
    <3>3. ASSUME NEW u \in User PROVE users[u] = Memory!Gone => users'[u] = Memory!Gone
      BY <3>1 DEF Follows
    <3>4. ASSUME NEW u \in User, Memory!Exists(u), users'[u] # users[u], users'[u] # Memory!Gone
          PROVE  \E c \in Client : uOp[c] # Memory!Idle /\ uOp[c].user = u /\ uOp'[c] = Memory!Idle /\
                   \A f \in {"email", "password", "oauth", "status"} : ~uOp[c].stale /\
                     users'[u][f] # users[u][f] =>
                       uOp[c].kind = [email |-> "update", password |-> "password",
                                      oauth |-> "oauth", status |-> "status"][f]
      <4>1. PICK c \in Client :
              /\ uOp[c] # Memory!Idle /\ uOp[c].user = u /\ uOp'[c] = Memory!Idle
              /\ ~uOp[c].stale => Changes(uOp[c], users[u], users'[u])
        BY <3>1, <3>4 DEF Follows, Exists
      <4> QED BY <3>2, <4>1
    <3> QED BY <3>3, <3>4
  <2>2. CASE ~UserNext
    BY <2>2 DEF Next, GuardNext, TokenNext, TenantNext, RoleNext, SsoNext, userVars, Memory!vars
  <2> QED BY <2>1, <2>2
<1>3. Inv /\ [Next]_vars => [Owned]_(Tenants!vars)
  <2> SUFFICES ASSUME Inv, Next, ~UNCHANGED Tenants!vars PROVE Owned
    BY DEF vars, tenantVars, Tenants!vars
  <2>1. CASE TenantNext
    BY <2>1, TenantKeeps DEF TenantNext, Inv
  <2>2. CASE ~TenantNext
    BY <2>2 DEF Next, GuardNext, TokenNext, UserNext, RoleNext, SsoNext, tenantVars, Tenants!vars
  <2> QED BY <2>1, <2>2
<1> QED BY <1>1, <1>2, <1>3, Invariance, PTL DEF Spec, DirectoryKept, Memory!FieldsKept, Tenants!OwnersKept

\* auth and sso: whatever the expiries, the number of replicas and the databases
\* that their connections are set to, a check that asks the store in which a logout
\* was confirmed refuses its token from then on; a login state is taken once, a login fails only for a withdrawn key, and withdrawn keys leave the cache.
THEOREM CredentialsFinalHolds == Spec => []CredentialsFinal
<1>1. Inv => CredentialsFinal
  BY SharedFinal, LocalFinal, SsoFacts DEF Inv, CredentialsFinal
<1> QED BY <1>1, Invariance, PTL

\* role.Service and authz.Service: however many checks, assignments, updates and
\* deletions overlap, a check allows only what a role the subject has had during
\* it has granted during it, and denies what one grants all the time only where
\* its list is shared and a revocation has moved the entries.
THEOREM DecisionExactHolds == Spec => []DecisionExact
<1>1. Inv => DecisionExact
  BY RoleFacts DEF Inv, DecisionExact
<1> QED BY <1>1, Invariance, PTL
=============================================================================
