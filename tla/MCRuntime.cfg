SPECIFICATION Spec
CONSTANTS
  Client = {c1, c2}
  Session = {"s"}
  MaxStreams = 1
  Tab = {"b"}
  MaxRecorded = 2
  Config <- Settings
  First = c1
  Kind = {"result"}
  MaxId = 3
  Capacity = 1
  MaxLines = 1
  MaxNoise = 0
INVARIANTS TypeOK SessionsKept ProcessesReclaimed
PROPERTIES AnswersExact CallsEnd
\* Sessions are bounded, and runs and connections end.
CHECK_DEADLOCK FALSE
