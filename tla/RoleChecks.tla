----------------------------- MODULE RoleChecks -----------------------------
(***************************************************************************)
(* Does a subject hold a permission?  role.Service.CheckPermission over    *)
(* the roles of internal/role, and authz.Service.Decide over the grants of *)
(* internal/authz.  For one subject and one permission: a check takes the  *)
(* list of the assignments, then reads their roles one after the other     *)
(* while roles and assignments change.  authz copies the list; role hands  *)
(* out the slice itself, whose array AssignRole and RevokeRole go on       *)
(* writing to, and pointers to the roles, which UpdateRole writes to       *)
(* without a lock.                                                         *)
(***************************************************************************)
EXTENDS Naturals, Sequences, FiniteSets

CONSTANTS
  Role, SystemRole,   \* SystemRole: those that cannot be changed
  Checker, Writer,    \* concurrent checks; concurrent calls of AssignRole and UpdateRole
  Copies              \* TRUE: the grants of authz; FALSE: the slice of role

VARIABLES
  roles,    \* by role: whether it exists, whether it has the permission, who is writing that
  slice,    \* the assignments of the subject: the array and the length of the slice
  op,       \* the call each client is in
  seen      \* history: what has been the case during a check

vars == <<roles, slice, op, seen>>

Idle == [pc |-> "idle"]
NoneSeen == [always |-> {}, held |-> {}, granted |-> {}, shifted |-> FALSE]

Init ==
  /\ roles \in [Role -> [exists : {TRUE}, grants : BOOLEAN, writers : {{}}]]
  /\ slice = [array |-> <<>>, len |-> 0]
  /\ op = [c \in Checker \cup Writer |-> Idle]
  /\ seen = [c \in Checker |-> NoneSeen]

Held(s) == {s.array[i] : i \in 1..s.len}

Has(r) == r \in Held(slice)

\* AssignRole: the role is looked up first ...
Assign(c, r) ==
  /\ op[c] = Idle /\ roles[r].exists
  /\ op' = [op EXCEPT ![c] = [pc |-> "assign", role |-> r]]
  /\ UNCHANGED <<roles, slice>>

\* A reader of the array keeps what is in it when the slice moves to a new one.
Detach(call) ==
  [c \in DOMAIN call |->
     IF call[c].pc = "check" /\ call[c].live
     THEN [call[c] EXCEPT !.live = FALSE, !.list = slice.array] ELSE call[c]]

\* ... and appended if the subject does not have it: in place while the array
\* has room, else in an array of twice the size.
Append1(c) ==
  /\ op[c].pc = "assign"
  /\ LET r == op[c].role
         n == slice.len
         free == [op EXCEPT ![c] = Idle]
     IN IF Has(r)
        THEN op' = free /\ UNCHANGED slice
        ELSE IF n < Len(slice.array)
        THEN /\ slice' = [array |-> [slice.array EXCEPT ![n + 1] = r], len |-> n + 1]
             /\ op' = free
        ELSE /\ slice' = [array |-> SubSeq(slice.array, 1, n) \o [i \in 1..(IF n = 0 THEN 1 ELSE n) |-> r],
                          len |-> n + 1]
             /\ op' = Detach(free)
  /\ UNCHANGED roles

\* RevokeRole: append(a[:i], a[i+1:]...) moves the rest down in the same array.
Revoke(r) ==
  /\ r \in Held(slice)
  /\ LET i == CHOOSE j \in 1..slice.len : slice.array[j] = r IN
       slice' = [array |-> [j \in DOMAIN slice.array |->
                              IF j \in i..(slice.len - 1) THEN slice.array[j + 1] ELSE slice.array[j]],
                 len |-> slice.len - 1]
  /\ UNCHANGED <<roles, op>>

\* UpdateRole: the permissions of the shared role are being written ...
Update(c, r, grants) ==
  /\ op[c] = Idle /\ roles[r].exists /\ r \notin SystemRole
  /\ roles' = [roles EXCEPT ![r].writers = @ \cup {c}]
  /\ op' = [op EXCEPT ![c] = [pc |-> "update", role |-> r, grants |-> grants]]
  /\ UNCHANGED slice

\* ... and are.
EndUpdate(c) ==
  /\ op[c].pc = "update"
  /\ roles' = [roles EXCEPT ![op[c].role].writers = @ \ {c},
                            ![op[c].role].grants = op[c].grants]
  /\ op' = [op EXCEPT ![c] = Idle]
  /\ UNCHANGED slice

\* DeleteRole: the assignments stay.
Delete(r) ==
  /\ roles[r].exists /\ r \notin SystemRole
  /\ roles' = [roles EXCEPT ![r].exists = FALSE]
  /\ UNCHANGED <<slice, op>>

\* Mutant of Shared: authz hands out its own list, too.
SharedAlways == TRUE

\* The list a check gets is not a copy.
Shared == ~Copies

\* GetAgentRoles, or ListAssignments of authz.
Check(c) ==
  /\ op[c] = Idle
  /\ op' = [op EXCEPT ![c] = [pc |-> "check", live |-> Shared, list |-> SubSeq(slice.array, 1, slice.len),
                              len |-> slice.len, i |-> 1]]
  /\ UNCHANGED <<roles, slice>>

\* The answers a read of the role can give.  While it is being written, an
\* old length with a new array, or the reverse, can hide a permission, but
\* shows none that neither the old nor the new permissions have.
MayGrant(r) == roles[r].grants \/ \E c \in roles[r].writers : op[c].grants
Answers(r) ==
  IF ~roles[r].exists THEN {FALSE}
  ELSE IF roles[r].writers = {} THEN {roles[r].grants}
  ELSE {FALSE, MayGrant(r)}

Decide(c, allowed) == op' = [op EXCEPT ![c] = [pc |-> "decided", allowed |-> allowed]]

\* The next assignment; the first role with the permission decides.
ReadRole(c) ==
  /\ op[c].pc = "check" /\ op[c].i <= op[c].len
  /\ LET r == IF op[c].live THEN slice.array[op[c].i] ELSE op[c].list[op[c].i] IN
       \E granted \in Answers(r) :
         IF granted THEN Decide(c, TRUE) ELSE op' = [op EXCEPT ![c].i = @ + 1]
  /\ UNCHANGED <<roles, slice>>

EndCheck(c) ==
  /\ op[c].pc = "check" /\ op[c].i > op[c].len
  /\ Decide(c, FALSE)
  /\ UNCHANGED <<roles, slice>>

Return(c) == op[c].pc = "decided" /\ op' = [op EXCEPT ![c] = Idle] /\ UNCHANGED <<roles, slice>>

Solid(r) == roles[r].exists /\ roles[r].grants /\ roles[r].writers = {}
Loose(r) == roles[r].exists /\ MayGrant(r)

\* History: what holds after the step, for the checks that go on or begin.
Observe ==
  seen' = [c \in Checker |->
    LET held == Held(slice)'
        solid == {r \in Role : r \in held /\ Solid(r)'}
        loose == {r \in Role : Loose(r)'}
    IN IF op[c].pc = "check"
       THEN [always |-> seen[c].always \cap solid, held |-> seen[c].held \cup held,
             granted |-> seen[c].granted \cup loose,
             shifted |-> seen[c].shifted \/ slice'.len < slice.len]
       ELSE IF op'[c].pc = "check"
       THEN [always |-> solid, held |-> held, granted |-> loose, shifted |-> FALSE]
       ELSE IF op'[c].pc = "decided" THEN seen[c] ELSE NoneSeen]

Step ==
  \/ \E r \in Role : Revoke(r) \/ Delete(r)
  \/ \E c \in Checker : Check(c) \/ ReadRole(c) \/ EndCheck(c) \/ Return(c)
  \/ \E c \in Writer :
       \/ Append1(c) \/ EndUpdate(c)
       \/ \E r \in Role : Assign(c, r) \/ \E g \in BOOLEAN : Update(c, r, g)

Next == Step /\ Observe

Spec == Init /\ [][Next]_vars

-----------------------------------------------------------------------------
TypeOK ==
  /\ \A r \in Role : roles[r].writers \subseteq Writer
  /\ slice.len <= Len(slice.array) /\ slice.array \in Seq(Role)
  /\ Cardinality(Held(slice)) = slice.len
  /\ \A c \in Checker : op[c].pc \in {"idle", "check", "decided"}
  /\ \A c \in Writer : op[c].pc \in {"idle", "assign", "update"}

\* A check allows only what a role has granted during it that the subject has
\* had during it.  It denies what such a role grants all the time only where
\* the list is not a copy and a revocation has moved its entries during the check.
DecisionExact ==
  \A c \in Checker : op[c].pc = "decided" =>
    IF op[c].allowed
    THEN seen[c].held \cap seen[c].granted # {}
    ELSE seen[c].always = {} \/ (~Copies /\ seen[c].shifted)
=============================================================================
