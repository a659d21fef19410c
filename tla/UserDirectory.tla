--------------------------- MODULE UserDirectory ---------------------------
(***************************************************************************)
(* user.UserService over user.MemoryRepository or user.PostgresRepository  *)
(* (internal/user).  Every operation reads copies and stores a whole user  *)
(* later; the two repositories differ in what a store checks and writes.   *)
(* The e-mail stands for the user name too, which is treated in the same   *)
(* way, and for the avatar where an update leaves it alone.                *)
(***************************************************************************)
EXTENDS Naturals

CONSTANTS
  User,      \* ids; each is given once
  Email, Password,
  Status,    \* "active" and others of "inactive", "banned"
  Client,    \* concurrent calls
  Backend    \* "memory" or "postgres"

VARIABLES
  users,     \* the repository
  op,        \* the call each client is in
  crossed    \* history: a call has stored an e-mail that was taken after its check

vars == <<users, op, crossed>>

Absent == [status |-> "absent"]
Gone == [status |-> "deleted"]
Idle == [pc |-> "idle"]

Init ==
  /\ users = [u \in User |-> Absent]
  /\ op = [c \in Client |-> Idle]
  /\ crossed = FALSE

Exists(u) == users[u].status \in Status
Taken(e, u) == \E v \in User \ {u} : Exists(v) /\ users[v].email = e

Begin(c, call) == op[c] = Idle /\ op' = [op EXCEPT ![c] = call]
Same == UNCHANGED <<users, crossed>>

\* Ends the call; the others on the same user have read a record that is now out of date.
Stored(c) ==
  op' = [d \in Client |->
           IF d = c THEN Idle
           ELSE IF op[d] # Idle /\ op[d].user = op[c].user THEN [op[d] EXCEPT !.stale = TRUE]
           ELSE op[d]]

\* Create: the e-mail is looked up, the password hashed, an id drawn ...
Create(c, u, e, p) ==
  /\ users[u] = Absent /\ \A d \in Client : op[d] # Idle => op[d].user # u
  /\ ~Taken(e, u)
  /\ Begin(c, [pc |-> "create", kind |-> "create", user |-> u, stale |-> FALSE,
               new |-> [email |-> e, password |-> p, oauth |-> FALSE, status |-> "active"]])
  /\ Same

\* ... and the repository looks again, under its lock or by its constraint.
Insert(c) ==
  /\ op[c].pc = "create"
  /\ IF Taken(op[c].new.email, op[c].user)
     THEN UNCHANGED users
     ELSE users' = [users EXCEPT ![op[c].user] = op[c].new]
  /\ op' = [op EXCEPT ![c] = Idle]
  /\ UNCHANGED crossed

Call(c, kind, u, pc, new) ==
  /\ Exists(u)
  /\ Begin(c, [pc |-> pc, kind |-> kind, user |-> u, stale |-> FALSE, new |-> new])
  /\ Same

\* Update of the e-mail: read the user, look the e-mail up, store.
Update(c, u, e) == Call(c, "update", u, "check", [users[u] EXCEPT !.email = e])

\* Update of the avatar only.
UpdateOther(c, u) == Call(c, "update", u, "store", users[u])

\* Any user with the e-mail may be the one that is found, the user itself included.
CheckEmail(c) ==
  /\ op[c].pc = "check"
  /\ LET u == op[c].user
         e == op[c].new.email
     IN \/ Taken(e, u) /\ op' = [op EXCEPT ![c] = Idle]
        \/ /\ ~Taken(e, u) \/ (Exists(u) /\ users[u].email = e)
           /\ op' = [op EXCEPT ![c].pc = "store"]
  /\ Same

UpdatePassword(c, u, old, p) ==
  /\ Exists(u) /\ users[u].password = old
  /\ Call(c, "password", u, "store", [users[u] EXCEPT !.password = p])

SetStatus(c, u, s) ==
  /\ Exists(u) /\ users[u].status # s
  /\ Call(c, "status", u, "store", [users[u] EXCEPT !.status = s])

LinkOAuth(c, u) == Call(c, "oauth", u, "store", [users[u] EXCEPT !.oauth = TRUE])

Delete(u) == Exists(u) /\ users' = [users EXCEPT ![u] = Gone] /\ UNCHANGED <<op, crossed>>

\* Mutant of Refused: the database has no unique index on the e-mail.
RefusedNever(u, new) == FALSE

\* The unique index of the database; the memory repository has none for updates.
Refused(u, new) == Backend = "postgres" /\ Taken(new.email, u)

\* Update of the database leaves the password and the provider as they are.
Written(u, new) ==
  IF Backend = "memory" THEN new
  ELSE [new EXCEPT !.password = users[u].password, !.oauth = users[u].oauth]

Store(c) ==
  /\ op[c].pc = "store"
  /\ LET u == op[c].user
         new == op[c].new
     IN IF Exists(u) /\ ~Refused(u, new)
        THEN /\ users' = [users EXCEPT ![u] = Written(u, new)]
             /\ crossed' = (crossed \/ Taken(new.email, u))
             /\ Stored(c)
        ELSE Same /\ op' = [op EXCEPT ![c] = Idle]

Next ==
  \/ \E u \in User : Delete(u)
  \/ \E c \in Client :
       \/ Insert(c) \/ CheckEmail(c) \/ Store(c)
       \/ \E u \in User :
            \/ UpdateOther(c, u) \/ LinkOAuth(c, u)
            \/ \E e \in Email : Update(c, u, e) \/ \E p \in Password : Create(c, u, e, p)
            \/ \E p, q \in Password : UpdatePassword(c, u, p, q)
            \/ \E s \in Status : SetStatus(c, u, s)

Spec == Init /\ [][Next]_vars

-----------------------------------------------------------------------------
Record == [email : Email, password : Password, oauth : BOOLEAN, status : Status]

TypeOK ==
  /\ \A u \in User : users[u] \in Record \cup {Absent, Gone}
  /\ \A c \in Client : op[c].pc \in {"idle", "create", "check", "store"}

\* No two users share an e-mail: with the database never, and in memory only
\* after an update has stored one that was taken since it looked.
EmailsUnique ==
  (Backend = "postgres" \/ ~crossed) =>
    \A u, v \in User : u # v /\ Exists(u) /\ Exists(v) => users[u].email # users[v].email

\* A field of a user changes by the operation that is for it, and a deleted
\* user never returns: a ban is lifted, or a password taken back, only where an
\* update is lost.
FieldsKept ==
  [][\A u \in User :
       /\ users[u] = Gone => users'[u] = Gone
       /\ Exists(u) /\ users'[u] # users[u] /\ users'[u] # Gone =>
            \E c \in Client : op[c] # Idle /\ op[c].user = u /\ op'[c] = Idle /\
              \A f \in {"email", "password", "oauth", "status"} : ~op[c].stale /\
                users'[u][f] # users[u][f] =>
                  op[c].kind = [email |-> "update", password |-> "password",
                                oauth |-> "oauth", status |-> "status"][f]]_vars

\* What the comment on PostgresRepository.Update says: the password has a
\* method of its own.  One that reports success has changed the password.
PasswordStored ==
  \A c \in Client : Store(c) /\ op[c].kind = "password" /\ Exists(op[c].user)
    /\ ~Refused(op[c].user, op[c].new) =>
      users'[op[c].user].password = op[c].new.password
PasswordChanges == [][PasswordStored]_vars
=============================================================================
