--------------------------- MODULE TokenSessions ---------------------------
(***************************************************************************)
(* Credentials: auth.JWTManager, auth.Service and the two revocation       *)
(* stores (internal/auth, internal/redis/revocation.go).  A token is       *)
(* checked in two steps, its signature and expiry first and the revocation *)
(* store then; Logout revokes the access token for as long as a fresh one  *)
(* would live.  The store is in the process, or a redis that all replicas  *)
(* share and that may be unavailable.  Of redis's connections only the     *)
(* first one selects redis.db: what the pool dials later stays in database *)
(* 0, so a command goes to either of the two.  A token holds the user and  *)
(* the second of its issue and nothing that is drawn: all that a user is   *)
(* given in one second is the same token.                                  *)
(***************************************************************************)
EXTENDS Naturals, FiniteSets

CONSTANTS
  User,
  Replica,        \* processes of the service
  Client,         \* concurrent requests
  SharedStore,    \* TRUE: the redis store; FALSE: one in memory per replica
  Database,       \* databases redis's connections are in: redis.db and 0
  AccessExpiry, RefreshExpiry,  \* TokenConfig, in seconds
  MaxTime, MaxTokens            \* bounds: the last second; different tokens ever issued

VARIABLES
  now,        \* the wall clock, in seconds
  users,      \* the users that exist
  issued,     \* by token: whether one login was given it, or 2 for several
  revoked,    \* by store and token: until when it is revoked, 0 if it is not
  op,         \* the request each client is in
  loggedOut   \* history: by store, the tokens of which a Logout was confirmed there

vars == <<now, users, issued, revoked, op, loggedOut>>

Token == [user : User, at : 1..MaxTime]
Store == IF SharedStore THEN Database ELSE Replica

\* The stores a command of the replica may go to: its own, or the database of
\* whichever connection the pool lends.
Reached(r) == IF SharedStore THEN Database ELSE {r}
Idle == [pc |-> "idle"]

Init ==
  /\ now = 1
  /\ users = User
  /\ issued = [t \in Token |-> 0]
  /\ revoked = [s \in Store |-> [t \in Token |-> 0]]
  /\ op = [c \in Client |-> Idle]
  /\ loggedOut = [s \in Store |-> {}]

Tick == now < MaxTime /\ now' = now + 1 /\ UNCHANGED <<users, issued, revoked, op, loggedOut>>

DeleteUser(u) ==
  /\ u \in users /\ users' = users \ {u}
  /\ UNCHANGED <<now, issued, revoked, op, loggedOut>>

\* GenerateTokenPair: an access and a refresh token of this second.
Issue(u) ==
  LET t == [user |-> u, at |-> now] IN
    /\ issued[t] > 0 \/ Cardinality({x \in Token : issued[x] > 0}) < MaxTokens
    /\ issued' = [issued EXCEPT ![t] = IF @ = 0 THEN 1 ELSE 2]

\* Login, Register and the callback of a provider end so.
Login(u) ==
  /\ u \in users
  /\ Issue(u)
  /\ UNCHANGED <<now, users, revoked, op, loggedOut>>

Fresh(t, life) == issued[t] > 0 /\ now < t.at + life

\* RefreshToken: no store is asked, but the user must still exist.
Refresh(t) ==
  /\ Fresh(t, RefreshExpiry) /\ t.user \in users
  /\ Issue(t.user)
  /\ UNCHANGED <<now, users, revoked, op, loggedOut>>

\* ValidateAccessToken, first half; a request is for a resource or for Logout.
Verify(c, r, t, kind) ==
  /\ op[c] = Idle
  /\ Fresh(t, AccessExpiry)
  /\ op' = [op EXCEPT ![c] = [pc |-> "lookup", replica |-> r, token |-> t, kind |-> kind,
                              late |-> {s \in Store : t \in loggedOut[s]}, asked |-> {}]]
  /\ UNCHANGED <<now, users, issued, revoked, loggedOut>>

IsRevoked(s, t) == now < revoked[s][t]

Respond(c) == op' = [op EXCEPT ![c] = Idle]

\* ValidateAccessToken, second half: revoked; or the store cannot be reached,
\* which is not taken for "not revoked".
Reject(c) ==
  /\ op[c].pc = "lookup"
  /\ SharedStore \/ \E s \in Reached(op[c].replica) : IsRevoked(s, op[c].token)
  /\ Respond(c)
  /\ UNCHANGED <<now, users, issued, revoked, loggedOut>>

\* Mutant of Accept: what cannot be looked up is accepted.
AcceptUnknown(c) ==
  /\ op[c].pc = "lookup"
  /\ \E s \in Reached(op[c].replica) :
       /\ SharedStore \/ ~IsRevoked(s, op[c].token)
       /\ op' = [op EXCEPT ![c].pc = IF op[c].kind = "logout" THEN "revoke" ELSE "serve",
                           ![c].asked = {s}]
  /\ UNCHANGED <<now, users, issued, revoked, loggedOut>>

Accept(c) ==
  /\ op[c].pc = "lookup"
  /\ \E s \in Reached(op[c].replica) :
       /\ ~IsRevoked(s, op[c].token)
       /\ op' = [op EXCEPT ![c].pc = IF op[c].kind = "logout" THEN "revoke" ELSE "serve",
                           ![c].asked = {s}]
  /\ UNCHANGED <<now, users, issued, revoked, loggedOut>>

Serve(c) == op[c].pc = "serve" /\ Respond(c) /\ UNCHANGED <<now, users, issued, revoked, loggedOut>>

\* Revoke: records that have expired go, then the token is revoked for
\* AccessExpiry; or the store fails, before or after it has stored it.
Revoke(c) ==
  /\ op[c].pc = "revoke"
  /\ \E s \in Reached(op[c].replica) :
       LET t == op[c].token
           put == [revoked EXCEPT ![s][t] = now + AccessExpiry]
       IN \/ revoked' = put /\ loggedOut' = [loggedOut EXCEPT ![s] = @ \cup {t}]
          \/ SharedStore /\ revoked' \in {put, revoked} /\ UNCHANGED loggedOut
  /\ Respond(c)
  /\ UNCHANGED <<now, users, issued>>

\* A replica is restarted: its requests end, and a store in its memory is empty.
Restart(r) ==
  /\ op' = [c \in Client |-> IF op[c] # Idle /\ op[c].replica = r THEN Idle ELSE op[c]]
  /\ IF SharedStore
     THEN UNCHANGED <<revoked, loggedOut>>
     ELSE /\ revoked' = [revoked EXCEPT ![r] = [t \in Token |-> 0]]
          /\ loggedOut' = [loggedOut EXCEPT ![r] = {}]
  /\ UNCHANGED <<now, users, issued>>

Next ==
  \/ Tick
  \/ \E u \in User : DeleteUser(u) \/ Login(u)
  \/ \E t \in Token : Refresh(t)
  \/ \E c \in Client :
       \/ Reject(c) \/ Accept(c) \/ Serve(c) \/ Revoke(c)
       \/ \E r \in Replica, t \in Token, kind \in {"use", "logout"} : Verify(c, r, t, kind)
  \/ \E r \in Replica : Restart(r)

Spec == Init /\ [][Next]_vars

-----------------------------------------------------------------------------
TypeOK ==
  /\ now \in 1..MaxTime /\ users \subseteq User
  /\ \A t \in Token : issued[t] \in 0..2
  /\ \A s \in Store, t \in Token : revoked[s][t] \in 0..(MaxTime + AccessExpiry)
  /\ \A c \in Client : op[c].pc \in {"idle", "lookup", "serve", "revoke"}

\* Once a Logout is confirmed no later request that asks the store it was
\* confirmed in is served with that token: with the shared store a request to
\* any replica, if redis.db is 0 and there is one database; with one in memory
\* a request to the same replica, as long as it is up.  The one exception is a
\* request under way at the moment the token expires.
LogoutFinal ==
  \A c \in Client :
    op[c].pc \in {"serve", "revoke"} /\ op[c].asked \cap op[c].late # {} =>
      ~Fresh(op[c].token, AccessExpiry)

\* What docs/redis.md says of the shared store: after a Logout every replica
\* refuses the token.  It does not hold with a redis.db other than 0, where the
\* Logout may be in the one database and the request ask the other.
LogoutShared ==
  \A c \in Client :
    SharedStore /\ op[c].pc \in {"serve", "revoke"} /\ op[c].late # {} =>
      ~Fresh(op[c].token, AccessExpiry)

\* What the comment on Logout says: what is revoked is the credential of one
\* login, and no other one of the same user is logged out with it.
LogoutIsOwn == \A s \in Store, t \in Token : IsRevoked(s, t) => issued[t] = 1
=============================================================================
