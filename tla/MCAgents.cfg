SPECIFICATION Spec
CONSTANTS
  Agent = {a1}
  MaxUpdates = 2
  Client = {c1, c2}
  Peer = {p1, p2}
  Status = {"online", "busy"}
  Timeout = 2
  Node = {1, 2, 3}
  Plans <- SmallPlans
  MaxConcurrency = 1
  Second = c2
  RegisterCap = 1
  BroadcastCap = 1
  SendCap = 2
  PairMessages = 1
  SingleMessages = 3
  Request = {r1, r2, r3}
  Answerer = {x1, x2}
  MaxPendingReqs = 2
INVARIANTS TypeOK ScheduleExact MessagesExact
PROPERTIES LifecycleKept OnlineNeedsHeartbeat AllEnd
\* Agents may be deleted, schedules end, connections and requests are bounded,
\* and a panic ends the process.
CHECK_DEADLOCK FALSE
