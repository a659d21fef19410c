------------------------------ MODULE MCAccess ------------------------------
(* The modules of access control.  They share no state: each behaviour is    *)
(* one of `part`, while the variables of the others stay as they were.  The  *)
(* revocation store, the user repository and the list of roles come in their *)
(* two variants.                                                             *)
EXTENDS Naturals, FiniteSets, TLC

CONSTANTS
  Client,                                                 \* concurrent callers
  Database, Selected,                                     \* of redis's connections; redis.db
  Account, Address, Limit, Window, GuardTime,             \* LoginGuard
  MaxCount, MaxSkipped,
  Holder, Replica,                                        \* TokenSessions, with the shared store
  SharedAccess, SharedRefresh, SharedTime, SharedTokens,
  LocalAccess, LocalRefresh, LocalTime, LocalTokens,      \* and with one in each replica
  User, Email, UserStatus, Password, MemoryPassword,      \* UserDirectory
  Tenant, Slug, Resource, MaxMembers,                     \* TenantScopes
  Role, GrantRole, SystemRole, FirstGrant,                \* RoleChecks: of role, of authz
  Checker, Writer,
  MaxSession, MaxKey, SsoTime, SessionTTL, KeyTTL, Timeout, AutoCreate   \* SsoLogin

VARIABLES part,
          gNow, count, dies, gOp, skipped,
          tNow, tUsers, issued, revoked, tOp, loggedOut,
          users, uOp, crossed,
          tenants, members, owners, nOp, overlapped,
          roles, slice, rOp, seen,
          sNow, sessions, begun, retired, cache, accounts, sOp, uses

guardVars == <<gNow, count, dies, gOp, skipped>>
tokenVars == <<tNow, tUsers, issued, revoked, tOp, loggedOut>>
userVars == <<users, uOp, crossed>>
tenantVars == <<tenants, members, owners, nOp, overlapped>>
roleVars == <<roles, slice, rOp, seen>>
ssoVars == <<sNow, sessions, begun, retired, cache, accounts, sOp, uses>>
vars == <<part, guardVars, tokenVars, userVars, tenantVars, roleVars, ssoVars>>

Guard == INSTANCE LoginGuard WITH now <- gNow, op <- gOp, Email <- Account, MaxTime <- GuardTime
Shared == INSTANCE TokenSessions WITH now <- tNow, users <- tUsers, op <- tOp, User <- Holder,
            SharedStore <- TRUE, AccessExpiry <- SharedAccess, RefreshExpiry <- SharedRefresh,
            MaxTime <- SharedTime, MaxTokens <- SharedTokens
Local == INSTANCE TokenSessions WITH now <- tNow, users <- tUsers, op <- tOp, User <- Holder,
           SharedStore <- FALSE, AccessExpiry <- LocalAccess, RefreshExpiry <- LocalRefresh,
           MaxTime <- LocalTime, MaxTokens <- LocalTokens
Memory == INSTANCE UserDirectory WITH op <- uOp, Password <- MemoryPassword, Status <- UserStatus,
            Backend <- "memory"
Postgres == INSTANCE UserDirectory WITH op <- uOp, Status <- UserStatus, Backend <- "postgres"
Tenants == INSTANCE TenantScopes WITH op <- nOp
Roles == INSTANCE RoleChecks WITH op <- rOp, Copies <- FALSE
Grants == INSTANCE RoleChecks WITH op <- rOp, Role <- GrantRole, Copies <- TRUE
Sso == INSTANCE SsoLogin WITH now <- sNow, op <- sOp, Email <- Account, MaxTime <- SsoTime

\* A limit that is not positive is none, here and for the members of a tenant;
\* the clock of SsoLogin starts at 1; keys and ids of different kinds differ.
LimitsAssumption ==
  /\ {Limit, Window, MaxMembers, SsoTime} \subseteq Nat \ {0}
  /\ {GuardTime, MaxCount, MaxSkipped, SharedAccess, SharedRefresh, SharedTime, SharedTokens, LocalAccess,
      LocalRefresh, LocalTime, LocalTokens, MaxSession, MaxKey, SessionTTL, KeyTTL, Timeout} \subseteq Nat
NamesAssumption ==
  /\ Account \cap Address = {} /\ Checker \cap Writer = {}
  /\ Tenant \cap {Tenants!NoOwner, Tenants!Removed} = {}
  /\ "active" \in UserStatus /\ UserStatus \cap {"absent", "deleted"} = {}
  /\ MemoryPassword \subseteq Password /\ Selected \in Database
ASSUME AccessAssumption == IsFiniteSet(Client) /\ LimitsAssumption /\ NamesAssumption

Parts == {"guard", "shared tokens", "local tokens", "memory users", "postgres users",
          "tenants", "roles", "grants", "sso"}

Init ==
  /\ part \in Parts
  /\ Guard!Init
  /\ IF part = "local tokens" THEN Local!Init ELSE Shared!Init
  /\ Memory!Init /\ Tenants!Init /\ Sso!Init
  /\ IF part = "roles" THEN Roles!Init /\ \A r \in Role : roles[r].grants = (r \in FirstGrant)
     ELSE IF part = "grants" THEN Grants!Init
     ELSE roles = <<>> /\ slice = <<>> /\ rOp = <<>> /\ seen = <<>>

GuardNext ==
  /\ part = "guard" /\ Guard!Next
  /\ UNCHANGED <<part, tokenVars, userVars, tenantVars, roleVars, ssoVars>>
TokenNext ==
  /\ (part = "shared tokens" /\ Shared!Next) \/ (part = "local tokens" /\ Local!Next)
  /\ UNCHANGED <<part, guardVars, userVars, tenantVars, roleVars, ssoVars>>
UserNext ==
  /\ (part = "memory users" /\ Memory!Next) \/ (part = "postgres users" /\ Postgres!Next)
  /\ UNCHANGED <<part, guardVars, tokenVars, tenantVars, roleVars, ssoVars>>
TenantNext ==
  /\ part = "tenants" /\ Tenants!Next
  /\ UNCHANGED <<part, guardVars, tokenVars, userVars, roleVars, ssoVars>>
RoleNext ==
  /\ (part = "roles" /\ Roles!Next) \/ (part = "grants" /\ Grants!Next)
  /\ UNCHANGED <<part, guardVars, tokenVars, userVars, tenantVars, ssoVars>>
SsoNext ==
  /\ part = "sso" /\ Sso!Next
  /\ UNCHANGED <<part, guardVars, tokenVars, userVars, tenantVars, roleVars>>

Next == GuardNext \/ TokenNext \/ UserNext \/ TenantNext \/ RoleNext \/ SsoNext

Spec == Init /\ [][Next]_vars

\* The callers of a part are alike.
Symmetry == Permutations(Client)

-----------------------------------------------------------------------------
\* LoginGuard: failures are bounded where the counters are in one database, and
\* kept in every one; TenantScopes: members are bounded.
LimitsHold == [](Guard!FailuresBounded /\ Tenants!MembersBounded) /\ Guard!CountersKept

\* UserDirectory: e-mails are unique and fields kept; TenantScopes: slugs are
\* unique and resources kept.
DirectoryKept ==
  /\ [](part = "memory users" => Memory!EmailsUnique)
  /\ [](part = "postgres users" => Postgres!EmailsUnique)
  /\ [](Tenants!SlugsUnique)
  /\ Memory!FieldsKept /\ Tenants!OwnersKept

\* TokenSessions: a confirmed logout is final for who asks the store it was
\* confirmed in; SsoLogin: a state is used once,
\* logins survive the rotation of the keys, and withdrawn keys go.
CredentialsFinal ==
  /\ IF part = "local tokens" THEN Local!LogoutFinal ELSE Shared!LogoutFinal
  /\ Sso!SessionsOnce /\ Sso!KeysCurrent

\* RoleChecks: decisions follow what the subject holds.
DecisionExact ==
  /\ part = "roles" => Roles!DecisionExact
  /\ part = "grants" => Grants!DecisionExact

\* UserDirectory: a change of the password that reports success has made it.
PasswordChanges == [][part = "postgres users" => Postgres!PasswordStored]_vars
=============================================================================
