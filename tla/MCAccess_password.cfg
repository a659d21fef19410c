SPECIFICATION Spec
CONSTANTS
  Client = {c1, c2}
  Database = {d0, d1}
  Selected = d1
  Account = {e1}
  Address = {a1}
  Limit = 1
  Window = 2
  GuardTime = 2
  MaxCount = 2
  MaxSkipped = 0
  Holder = {u1}
  Replica = {x1, x2}
  SharedAccess = 1
  SharedRefresh = 2
  SharedTime = 3
  SharedTokens = 1
  LocalAccess = 2
  LocalRefresh = 3
  LocalTime = 4
  LocalTokens = 1
  User = {u1, u2}
  Email = {e1, e2}
  UserStatus = {"active", "banned"}
  Password = {p1, p2}
  MemoryPassword = {p1}
  Tenant = {n1, n2}
  Slug = {s1}
  Resource = {x1}
  MaxMembers = 1
  Role = {r1, r2, r3}
  GrantRole = {r1, r2}
  SystemRole = {r2, r3}
  FirstGrant = {r2}
  Checker = {k1}
  Writer = {w1}
  MaxSession = 2
  MaxKey = 2
  SsoTime = 5
  SessionTTL = 1
  KeyTTL = 2
  Timeout = 1
  AutoCreate = TRUE
PROPERTY PasswordChanges
CHECK_DEADLOCK FALSE
