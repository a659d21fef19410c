------------------------------ MODULE SsoLogin ------------------------------
(***************************************************************************)
(* The OIDC login of internal/sso: BeginAuth and HandleCallback, the       *)
(* sessions by state, the cache of the provider's keys (JWKSClient), and   *)
(* the binding to a local account through app.userDirectoryAdapter.  The   *)
(* provider rotates its keys, its answers are as old as they are slow, and *)
(* callbacks run concurrently.  A token is its key; its other claims are   *)
(* right or the callback fails.                                            *)
(***************************************************************************)
EXTENDS Naturals, Sequences

CONSTANTS
  MaxSession, MaxKey, MaxTime,   \* bounds: sessions begun, keys ever published, the last tick
  Client, Email,
  SessionTTL, KeyTTL, Timeout,   \* DefaultSessionTTL, JWKSConfig.TTL, http.Client.Timeout, in ticks
  AutoCreate                     \* the binding policy: TRUE is auto_create, FALSE strict

VARIABLES
  now,
  sessions,   \* by state: the last moment it is valid
  begun,      \* the number of sessions begun
  retired,    \* the provider's keys, in order: when each was withdrawn, Never if it is not
  cache,      \* JWKSClient.cached and fetched
  accounts,   \* local accounts, by e-mail
  op,         \* the callback each client is in
  uses        \* history: how often a session has led to an exchange

vars == <<now, sessions, begun, retired, cache, accounts, op, uses>>

Session == 1..MaxSession
Never == MaxTime + 1
Idle == [pc |-> "idle"]
NoSession == 0
Published == {k \in 1..Len(retired) : retired[k] = Never}
Latest == Len(retired)

Init ==
  /\ now = 1
  /\ sessions = [s \in Session |-> NoSession] /\ begun = 0
  /\ retired = <<Never>>
  /\ cache = [keys |-> {}, at |-> 0, full |-> FALSE]
  /\ accounts = {}
  /\ op = [c \in Client |-> Idle]
  /\ uses = [s \in Session |-> 0]

\* A request ends with the timeout of its client.
Tick ==
  /\ now < MaxTime
  /\ \A c \in Client : op[c].pc \in {"fetch", "answered"} => now < op[c].since + Timeout
  /\ now' = now + 1
  /\ UNCHANGED <<sessions, begun, retired, cache, accounts, op, uses>>

Rotate ==
  /\ Latest < MaxKey
  /\ retired' = Append(retired, Never)
  /\ UNCHANGED <<now, sessions, begun, cache, accounts, op, uses>>

Retire(k) ==
  /\ k \in Published /\ k # Latest
  /\ retired' = [retired EXCEPT ![k] = now]
  /\ UNCHANGED <<now, sessions, begun, cache, accounts, op, uses>>

Register(e) ==
  /\ e \notin accounts /\ accounts' = accounts \cup {e}
  /\ UNCHANGED <<now, sessions, begun, retired, cache, op, uses>>

\* BeginAuth: expired sessions are dropped, the new one is saved.
BeginAuth ==
  /\ begun < MaxSession
  /\ begun' = begun + 1
  /\ sessions' = [s \in Session |->
       IF s = begun + 1 THEN now + SessionTTL
       ELSE IF now <= sessions[s] THEN sessions[s] ELSE NoSession]
  /\ UNCHANGED <<now, retired, cache, accounts, op, uses>>

\* HandleCallback: the session is taken; one that has expired ends it.
Take(c, s, e) ==
  /\ op[c] = Idle /\ sessions[s] # NoSession
  /\ sessions' = [sessions EXCEPT ![s] = NoSession]
  /\ IF now <= sessions[s]
     THEN /\ op' = [op EXCEPT ![c] = [pc |-> "exchange", email |-> e]]
          /\ uses' = [uses EXCEPT ![s] = @ + 1]
     ELSE UNCHANGED <<op, uses>>
  /\ UNCHANGED <<now, begun, retired, cache, accounts>>

\* The provider signs with its latest key.
Exchange(c) ==
  /\ op[c].pc = "exchange"
  /\ op' = [op EXCEPT ![c] = [pc |-> "keys", email |-> op[c].email, key |-> Latest]]
  /\ UNCHANGED <<now, sessions, begun, retired, cache, accounts, uses>>

\* A request to the provider fails.
Fail(c) ==
  /\ op[c].pc \in {"exchange", "fetch"}
  /\ op' = [op EXCEPT ![c] = Idle]
  /\ UNCHANGED <<now, sessions, begun, retired, cache, accounts, uses>>

Fresh == cache.full /\ now < cache.at + KeyTTL

Fetch(c, force) == [pc |-> "fetch", email |-> op[c].email, key |-> op[c].key, force |-> force, since |-> now]

\* VerifyIDToken: the key is found; else one more fetch, or the end.
Verify(c, keys, force) ==
  op' = [op EXCEPT ![c] =
    IF op[c].key \in keys THEN [pc |-> "bind", email |-> op[c].email]
    ELSE IF force THEN [pc |-> "refused", key |-> op[c].key]
    ELSE Fetch(c, TRUE)]

\* Mutant of UseCache: a key the cache has not is refused at once.
UseCacheOnly(c) ==
  /\ op[c].pc = "keys"
  /\ IF Fresh THEN Verify(c, cache.keys, TRUE)
              ELSE op' = [op EXCEPT ![c] = Fetch(c, FALSE)]
  /\ UNCHANGED <<now, sessions, begun, retired, cache, accounts, uses>>

UseCache(c) ==
  /\ op[c].pc = "keys"
  /\ IF Fresh THEN Verify(c, cache.keys, FALSE)
              ELSE op' = [op EXCEPT ![c] = Fetch(c, FALSE)]
  /\ UNCHANGED <<now, sessions, begun, retired, cache, accounts, uses>>

\* The provider answers with what it publishes now.
Answer(c) ==
  /\ op[c].pc = "fetch"
  /\ op' = [op EXCEPT ![c] = [pc |-> "answered", email |-> op[c].email, key |-> op[c].key,
                              force |-> op[c].force, since |-> op[c].since, keys |-> Published]]
  /\ UNCHANGED <<now, sessions, begun, retired, cache, accounts, uses>>

\* The answer arrives: it replaces the cache, whatever another fetch has put there.
StoreKeys(c) ==
  /\ op[c].pc = "answered"
  /\ cache' = [keys |-> op[c].keys, at |-> now, full |-> TRUE]
  /\ Verify(c, op[c].keys, op[c].force)
  /\ UNCHANGED <<now, sessions, begun, retired, accounts, uses>>

\* bind: an account with the e-mail is linked.
Bind(c) ==
  /\ op[c].pc = "bind"
  /\ op' = [op EXCEPT ![c] =
       IF op[c].email \in accounts THEN [pc |-> "done", account |-> TRUE]
       ELSE IF AutoCreate THEN [pc |-> "create", email |-> op[c].email]
       ELSE [pc |-> "done", account |-> FALSE]]
  /\ UNCHANGED <<now, sessions, begun, retired, cache, accounts, uses>>

SsoPassword == 4 + 36 + 36   \* the length of "sso-" and two UUIDs
BcryptMax == 72              \* what bcrypt hashes at most

\* CreateFromSSO: user.Create hashes the password it makes up; an e-mail
\* taken meanwhile fails it, too.
Create(c) ==
  /\ op[c].pc = "create"
  /\ LET ok == SsoPassword <= BcryptMax /\ op[c].email \notin accounts IN
       /\ accounts' = IF ok THEN accounts \cup {op[c].email} ELSE accounts
       /\ op' = [op EXCEPT ![c] = [pc |-> "done", account |-> ok]]
  /\ UNCHANGED <<now, sessions, begun, retired, cache, uses>>

Return(c) ==
  /\ op[c].pc \in {"done", "refused"}
  /\ op' = [op EXCEPT ![c] = Idle]
  /\ UNCHANGED <<now, sessions, begun, retired, cache, accounts, uses>>

Next ==
  \/ Tick \/ Rotate \/ BeginAuth
  \/ \E k \in 1..MaxKey : Retire(k)
  \/ \E e \in Email : Register(e)
  \/ \E c \in Client :
       \/ Exchange(c) \/ Fail(c) \/ UseCache(c) \/ Answer(c) \/ StoreKeys(c)
       \/ Bind(c) \/ Create(c) \/ Return(c)
       \/ \E s \in Session, e \in Email : Take(c, s, e)

Spec == Init /\ [][Next]_vars

-----------------------------------------------------------------------------
TypeOK ==
  /\ now \in 1..MaxTime /\ begun \in 0..MaxSession
  /\ \A k \in 1..Latest : retired[k] \in 1..Never
  /\ cache.keys \subseteq 1..Latest /\ cache.at \in 0..MaxTime
  /\ accounts \subseteq Email
  /\ \A c \in Client : op[c].pc \in {"idle", "exchange", "keys", "fetch", "answered",
                                     "bind", "create", "done", "refused"}

\* A login survives a rotation: it is refused for its key only if the provider
\* has withdrawn that key.  And a key is trusted no longer after its withdrawal
\* than the cache lives and a request lasts, also where a slow answer replaces
\* a newer one.
KeysCurrent ==
  /\ \A c \in Client : op[c].pc = "refused" => op[c].key \notin Published
  /\ Fresh => \A k \in cache.keys : now < retired[k] + KeyTTL + Timeout

\* A state is good for one exchange, however many callbacks bring it.
SessionsOnce == \A s \in Session : uses[s] <= 1

\* What the comment on BindingAutoCreate says: a verified login with an e-mail
\* that nobody has makes an account for it.
AutoCreates ==
  [][\A c \in Client : Create(c) /\ op[c].email \notin accounts => op[c].email \in accounts']_vars
=============================================================================
