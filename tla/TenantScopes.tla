---------------------------- MODULE TenantScopes ----------------------------
(***************************************************************************)
(* tenant.Service over tenant.MemoryStore (internal/tenant).  The store    *)
(* locks each call, the service makes several: Create looks for the slug,  *)
(* stores, and adds the owner; AddMember counts, then adds; Resolve looks  *)
(* at the tenant, then at the membership; Unregister checks, then removes. *)
(* An agent is registered with its tenant once it exists.                  *)
(***************************************************************************)
EXTENDS Naturals, FiniteSets

CONSTANTS
  Tenant,     \* ids; each is given once
  Slug, User, Resource,
  Client,     \* concurrent calls
  MaxMembers  \* Quota.MaxMembers

VARIABLES
  tenants,    \* the tenants, with their slug and status
  members,    \* the members of each
  owners,     \* the tenant each resource belongs to
  op,         \* the call each client is in
  overlapped  \* history: two calls of Create have been under way at once

vars == <<tenants, members, owners, op, overlapped>>

NoTenant == [status |-> "none"]
NoOwner == "none"
Removed == "removed"   \* the id of a deleted agent is not given again
Status == {"active", "suspended"}
Idle == [pc |-> "idle"]

Init ==
  /\ tenants = [t \in Tenant |-> NoTenant]
  /\ members = [t \in Tenant |-> {}]
  /\ owners = [x \in Resource |-> NoOwner]
  /\ op = [c \in Client |-> Idle]
  /\ overlapped = FALSE

Exists(t) == tenants[t] # NoTenant
Begin(c, call) == op[c] = Idle /\ op' = [op EXCEPT ![c] = call]
Go(c, call) == op' = [op EXCEPT ![c] = call]
Store == <<tenants, members, owners>>

SlugFree(slug) == \A t \in Tenant : Exists(t) => tenants[t].slug # slug

Create(c, t, slug, u) ==
  /\ ~Exists(t) /\ \A d \in Client : op[d].pc = "create" => op[d].tenant # t
  /\ SlugFree(slug)
  /\ Begin(c, [pc |-> "create", tenant |-> t, slug |-> slug, user |-> u])
  /\ overlapped' = (overlapped \/ \E d \in Client : op[d].pc = "create")
  /\ UNCHANGED Store

Insert(c) ==
  /\ op[c].pc = "create"
  /\ tenants' = [tenants EXCEPT ![op[c].tenant] = [status |-> "active", slug |-> op[c].slug]]
  /\ Go(c, [pc |-> "add", tenant |-> op[c].tenant, user |-> op[c].user])
  /\ UNCHANGED <<members, owners, overlapped>>

\* UpdateStatus: a copy is read, and stored with the new status.
ReadStatus(c, t, s) ==
  /\ Exists(t)
  /\ Begin(c, [pc |-> "status", tenant |-> t, record |-> [tenants[t] EXCEPT !.status = s]])
  /\ UNCHANGED <<Store, overlapped>>

WriteStatus(c) ==
  /\ op[c].pc = "status"
  /\ tenants' = [tenants EXCEPT ![op[c].tenant] = op[c].record]
  /\ Go(c, Idle)
  /\ UNCHANGED <<members, owners, overlapped>>

Full(t) == Cardinality(members[t]) >= MaxMembers

\* AddMember of the service: the quota is looked at ...
AddMember(c, t, u) ==
  /\ Exists(t) /\ ~Full(t)
  /\ Begin(c, [pc |-> "add", tenant |-> t, user |-> u])
  /\ UNCHANGED <<Store, overlapped>>

\* ... and the member stored; one that is there already stays.
StoreMember(c) ==
  /\ op[c].pc = "add"
  /\ members' = [members EXCEPT ![op[c].tenant] = @ \cup {op[c].user}]
  /\ Go(c, Idle)
  /\ UNCHANGED <<tenants, owners, overlapped>>

RemoveMember(t, u) ==
  /\ u \in members[t]
  /\ members' = [members EXCEPT ![t] = @ \ {u}]
  /\ UNCHANGED <<tenants, owners, op, overlapped>>

\* Resolve: an active tenant ...
Resolve(c, t, u) ==
  /\ Exists(t) /\ tenants[t].status = "active"
  /\ Begin(c, [pc |-> "member", tenant |-> t, user |-> u])
  /\ UNCHANGED <<Store, overlapped>>

\* ... and one of its members: the scope of the request.
Grant(c) ==
  /\ op[c].pc = "member"
  /\ Go(c, IF op[c].user \in members[op[c].tenant] THEN [pc |-> "scope", tenant |-> op[c].tenant] ELSE Idle)
  /\ UNCHANGED <<Store, overlapped>>

\* A request in a scope creates an agent, which the hook then registers.
Register(c, x) ==
  /\ op[c].pc = "scope" /\ owners[x] = NoOwner
  /\ owners' = [owners EXCEPT ![x] = op[c].tenant]
  /\ Go(c, Idle)
  /\ UNCHANGED <<tenants, members, overlapped>>

\* Check: the resource is the tenant's.
Owns(t, x) == owners[x] = t

\* Unregister: checked ...
Unregister(c, x) ==
  /\ op[c].pc = "scope"
  /\ Go(c, IF Owns(op[c].tenant, x) THEN [pc |-> "remove", tenant |-> op[c].tenant, resource |-> x] ELSE Idle)
  /\ UNCHANGED <<Store, overlapped>>

\* ... and removed, if nobody else has.
Remove(c) ==
  /\ op[c].pc = "remove"
  /\ owners' = [owners EXCEPT ![op[c].resource] = Removed]
  /\ Go(c, Idle)
  /\ UNCHANGED <<tenants, members, overlapped>>

Next ==
  \/ \E t \in Tenant, u \in User : RemoveMember(t, u)
  \/ \E c \in Client :
       \/ Insert(c) \/ WriteStatus(c) \/ StoreMember(c) \/ Grant(c) \/ Remove(c)
       \/ \E x \in Resource : Register(c, x) \/ Unregister(c, x)
       \/ \E t \in Tenant :
            \/ \E s \in Status : ReadStatus(c, t, s)
            \/ \E u \in User :
                 \/ AddMember(c, t, u) \/ Resolve(c, t, u)
                 \/ \E slug \in Slug : Create(c, t, slug, u)

Spec == Init /\ [][Next]_vars

-----------------------------------------------------------------------------
TypeOK ==
  /\ \A t \in Tenant : tenants[t] \in {NoTenant} \cup [status : Status, slug : Slug]
  /\ \A t \in Tenant : members[t] \subseteq User
  /\ owners \in [Resource -> Tenant \cup {NoOwner, Removed}]
  /\ overlapped \in BOOLEAN

\* The quota is looked at before the member is added, and the owner of a new
\* tenant is added without it: it is overrun by the other calls under way, and
\* by no more.
MembersBounded ==
  \A t \in Tenant : Cardinality(members[t]) < MaxMembers + Cardinality(Client)

\* Two tenants share a slug only where they were created at the same time.
SlugsUnique ==
  ~overlapped => \A t, v \in Tenant : t # v /\ Exists(t) /\ Exists(v) => tenants[t].slug # tenants[v].slug

\* A resource stays with the tenant in whose scope it was created: no call in
\* the scope of another one takes or removes it.
OwnersKept ==
  [][\A x \in Resource : owners[x] # owners'[x] /\ owners[x] # NoOwner =>
       \E c \in Client : op[c].pc = "remove" /\ op[c].tenant = owners[x] /\ op'[c] = Idle]_vars
=============================================================================
