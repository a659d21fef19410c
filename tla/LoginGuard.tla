----------------------------- MODULE LoginGuard -----------------------------
(***************************************************************************)
(* The limit on failed logins: auth.Handler.Login, auth.LoginGuard and the *)
(* counters of redis.RateLimiter behind app.redisLoginLimiter              *)
(* (internal/auth, internal/redis, internal/app).  A login looks at the    *)
(* counter of its account and at that of its address, each with a command  *)
(* of its own, and counts itself afterwards if it fails.  A counter is     *)
(* INCR and, when new, EXPIRE; its key holds the number of the window.     *)
(* Every command may fail, before or after the server has executed it.     *)
(* It goes over a connection of the pool: the first one has selected       *)
(* redis.db, those dialled later are in database 0.                        *)
(***************************************************************************)
EXTENDS Naturals, FiniteSets

CONSTANTS
  Email, Address,  \* the two dimensions that are counted
  Client,          \* concurrent login requests
  Database,        \* databases redis's connections are in
  Selected,        \* the one of them that is redis.db
  Limit,           \* LoginGuard.limit
  Window,          \* LoginGuard.window, in ticks
  MaxTime,         \* bound: the last tick
  MaxCount,        \* bound: no login begins once a counter has reached it,
  MaxSkipped       \* or this one, in the behaviours in which `skipped` has become TRUE

VARIABLES
  now,      \* the wall clock
  count,    \* the counters in the server, by database, key and number of the window
  dies,     \* when each of them expires
  op,       \* the login each client is in
  skipped   \* history: some check found the limiter unavailable, or some command
            \* went to another database than redis.db

vars == <<now, count, dies, op, skipped>>

Key == Email \cup Address
Counter == Database \X Key
Slots == 0..(MaxTime \div Window)
Slot == now \div Window
Never == MaxTime + Window + 2
Idle == [pc |-> "idle"]

Init ==
  /\ now = 0
  /\ count = [n \in Counter |-> [s \in Slots |-> 0]]
  /\ dies = [n \in Counter |-> [s \in Slots |-> Never]]
  /\ op = [c \in Client |-> Idle]
  /\ skipped = FALSE

\* The server drops what has expired.
Tick ==
  /\ now < MaxTime
  /\ now' = now + 1
  /\ count' = [n \in Counter |-> [s \in Slots |-> IF dies[n][s] <= now' THEN 0 ELSE count[n][s]]]
  /\ dies' = [n \in Counter |-> [s \in Slots |-> IF dies[n][s] <= now' THEN Never ELSE dies[n][s]]]
  /\ UNCHANGED <<op, skipped>>

\* A request with complete fields; `right`: it has the password of a usable account.
Login(c, e, a, right) ==
  /\ op[c] = Idle
  /\ \A n \in Counter : count[n][Slot] < IF skipped THEN MaxSkipped ELSE MaxCount
  /\ op' = [op EXCEPT ![c] = [pc |-> "check", email |-> e, addr |-> a, key |-> e, right |-> right]]
  /\ UNCHANGED <<now, count, dies, skipped>>

At(c, pc) == op[c].pc = pc
GoTo(c, pc) == op' = [op EXCEPT ![c].pc = pc]
End(c) == op' = [op EXCEPT ![c] = Idle]

\* The pool lends a connection that is in database d.
Over(d) == skipped' = (skipped \/ d # Selected)

\* Mutant of Exceeded: the limit itself is still admitted.
ExceededBeyond(d, k) == count[<<d, k>>][Slot] > Limit

\* The counter of the key in the present window has reached the limit.
Exceeded(d, k) == count[<<d, k>>][Slot] >= Limit

\* LoginGuard.Check: the account first, then the address; 429 for either.
CheckBlocks(c, d) ==
  /\ At(c, "check") /\ Exceeded(d, op[c].key)
  /\ End(c) /\ Over(d)
  /\ UNCHANGED <<now, count, dies>>

CheckPasses(c, d) ==
  /\ At(c, "check") /\ ~Exceeded(d, op[c].key)
  /\ IF op[c].key \in Email THEN op' = [op EXCEPT ![c].key = op[c].addr] ELSE GoTo(c, "login")
  /\ Over(d)
  /\ UNCHANGED <<now, count, dies>>

\* The limiter does not answer: no further check, and the login is admitted.
CheckFails(c) ==
  /\ At(c, "check")
  /\ GoTo(c, "login")
  /\ skipped' = TRUE
  /\ UNCHANGED <<now, count, dies>>

\* Service.Login: a failure is recorded for both keys, a success clears the account's.
Answer(c) ==
  /\ At(c, "login")
  /\ op' = [op EXCEPT ![c].pc = IF op[c].right THEN "clear" ELSE "record", ![c].key = op[c].email]
  /\ UNCHANGED <<now, count, dies, skipped>>

Recorded(c) ==
  IF op[c].key \in Email
  THEN op' = [op EXCEPT ![c].pc = "record", ![c].key = op[c].addr]
  ELSE End(c)

\* INCR of the present window's counter; the first one goes on to EXPIRE,
\* unless the answer of the server is lost.
Increment(c, d) ==
  /\ At(c, "record")
  /\ LET k == op[c].key IN
       /\ count' = [count EXCEPT ![<<d, k>>][Slot] = @ + 1]
       /\ IF count[<<d, k>>][Slot] = 0
          THEN op' = [op EXCEPT ![c] = [pc |-> "expire", email |-> op[c].email, addr |-> op[c].addr,
                                        key |-> k, right |-> FALSE, slot |-> Slot]]
          ELSE Recorded(c)
  /\ Over(d)
  /\ UNCHANGED <<now, dies>>

IncrementLost(c, d) ==
  /\ At(c, "record")
  /\ \/ count' = [count EXCEPT ![<<d, op[c].key>>][Slot] = @ + 1]
     \/ UNCHANGED count
  /\ Recorded(c) /\ Over(d)
  /\ UNCHANGED <<now, dies>>

\* A second more than the window.
Lifetime == Window + 1

\* EXPIRE of a counter that may have been deleted meanwhile, or be in another
\* database; the command may be lost.
Expire(c, d) ==
  /\ At(c, "expire")
  /\ LET k == op[c].key
         s == op[c].slot
     IN \/ UNCHANGED dies
        \/ count[<<d, k>>][s] > 0 /\ dies' = [dies EXCEPT ![<<d, k>>][s] = now + Lifetime]
  /\ Recorded(c) /\ Over(d)
  /\ UNCHANGED <<now, count>>

\* LoginGuard.ClearFailures: DEL of the account's counter; an error is ignored.
Clear(c, d) ==
  /\ At(c, "clear")
  /\ LET e == op[c].email IN
       \/ UNCHANGED <<count, dies>>
       \/ count' = [count EXCEPT ![<<d, e>>][Slot] = 0] /\ dies' = [dies EXCEPT ![<<d, e>>][Slot] = Never]
  /\ End(c) /\ Over(d)
  /\ UNCHANGED now

Command(c, d) ==
  \/ CheckBlocks(c, d) \/ CheckPasses(c, d)
  \/ Increment(c, d) \/ IncrementLost(c, d) \/ Expire(c, d) \/ Clear(c, d)

Step(c) == CheckFails(c) \/ Answer(c) \/ \E d \in Database : Command(c, d)

Next ==
  \/ Tick
  \/ \E c \in Client :
       \/ Step(c)
       \/ \E e \in Email, a \in Address, right \in BOOLEAN : Login(c, e, a, right)

Spec == Init /\ [][Next]_vars

-----------------------------------------------------------------------------
TypeOK ==
  /\ now \in 0..MaxTime
  /\ \A n \in Counter, s \in Slots : count[n][s] \in Nat /\ dies[n][s] \in 1..Never
  /\ \A c \in Client : op[c].pc \in {"idle", "check", "login", "record", "expire", "clear"}
  /\ skipped \in BOOLEAN

\* The check is not atomic with the count, yet it is overrun by no more than
\* the logins that were under way: as long as the limiter has answered every
\* check, and every command has gone to the one database as it does when
\* redis.db is 0, fewer failures than the limit and the concurrent requests
\* together are admitted for an account or an address in one window.
FailuresBounded ==
  ~skipped => \A k \in Key, s \in Slots : count[<<Selected, k>>][s] < Limit + Cardinality(Client)

\* A counter of any database is not lost before its window is over, other than
\* by a login that succeeds; and not even then for an address.
FallsByClear ==
  \A d \in Database, k \in Key : Slot' = Slot /\ count'[<<d, k>>][Slot] < count[<<d, k>>][Slot] =>
    \E c \in Client : Clear(c, d) /\ op[c].email = k
CountersKept == [][FallsByClear]_vars
=============================================================================
