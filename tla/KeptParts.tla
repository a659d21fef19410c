----------------------------- MODULE KeptParts -----------------------------
(* The parts of the platform whose properties are proved for all values of   *)
(* the constants: what they need of these, the instances, and for each part  *)
(* the invariant its properties follow from, that it holds at the beginning, *)
(* that every step keeps it, and that a step of another part does.           *)
EXTENDS Naturals, Sequences, FiniteSetTheorems, SequenceTheorems, WellFoundedInduction, TLAPS

CONSTANTS
  Client, Single,                         \* the callers where there are two, or one
  CloudEnv,                               \* CloudEnvironments
  BaseDir, TwoFiles, OneFiles,            \* FileStore: [client, place, request]
  TwoAlerts, OneAlerts,                   \* AlertMonitor: [client, rule, alerts, records, time]
  Reported, Operator,
  MemoryId, MemoryAgent, TTL,             \* MemoryStore
  Importance, MemoryTime, MaxTouches,
  MarketOfTwo, MarketOfOne, User,         \* TemplateMarket: [client, id, rating, fields]
  MaxReviews, MaxInstalls,
  Goal, MaxTasks,                         \* TaskDecomposer
  Asked, Action, MaxAsked, MaxChanges,    \* RequestPipeline
  StartupOfTwo, StartupOfOne,             \* Startup: [instance, file, environ, world, starts, requests]
  Version, MaxBreaks

VARIABLES envs, cRecords, dirs, cOp, cOverlapped, outlived,
          tree, files, fOp, lone, leaked,
          mNow, mStatus, mRules, alerts, stored, dispositions, mOp, asof, raised, reopened, plain,
          eNow, entries, eOp, eUsed, touched, eGiven, raced, mixed,
          templates, listings, reviews, recorder, tOp, tUsed, installs, clashed, given,
          tasks,
          env, pOp, inFlight, requests, durations, classes, panics, sent, changes,
          file, environ, world, inst, schema, ledger, iUsed

cloudVars == <<envs, cRecords, dirs, cOp, cOverlapped, outlived>>
fileVars == <<tree, files, fOp, lone, leaked>>
alertVars == <<mNow, mStatus, mRules, alerts, stored, dispositions, mOp, asof, raised, reopened, plain>>
memoryVars == <<eNow, entries, eOp, eUsed, touched, eGiven, raced, mixed>>
marketVars == <<templates, listings, reviews, recorder, tOp, tUsed, installs, clashed, given>>
pipeVars == <<env, pOp, inFlight, requests, durations, classes, panics, sent, changes>>
startVars == <<file, environ, world, inst, schema, ledger, iUsed>>

\* The ids of memories, their scores and times are numbers.
ASSUME MemoryAssumption ==
  TTL \subseteq Nat /\ Importance \subseteq Nat /\ {MemoryTime, MaxTouches} \subseteq Nat /\ MemoryId \subseteq Nat

LEMMA NatLess == \A x, y \in Nat : <<x, y>> \in OpToRel(<, Nat) <=> x < y
BY DEF OpToRel
LEMMA NatOrder == \E R : IsWellFoundedOn(R, Nat) /\ \A x, y \in Nat : <<x,y>> \in R <=> x < y
BY NatLess, NatLessThanWellFounded, Zenon
LEMMA LeastNatural == ASSUME NEW T, T \subseteq Nat, T # {} PROVE \E x \in T : \A y \in T : x <= y
<1>0. PICK R : IsWellFoundedOn(R, Nat) /\ \A x, y \in Nat : <<x,y>> \in R <=> x < y
  BY NatOrder
<1>3. IsWellFoundedOn(R, Nat)
  BY <1>0
<1>1. PICK x \in T : \A y \in T : ~ (<<y, x>> \in R)
  BY <1>3, WFMin, Zenon
<1>2. \A y \in T : ~(y < x)
  BY <1>0, <1>1
<1> QED
  BY <1>2

-----------------------------------------------------------------------------
(* CloudEnvironments: an environment whose record is missing or left over is *)
(* in the hands of a creation or a deletion that is not done (Halfway); where *)
(* no two calls have overlapped there is one (CloudSingle), and what it has   *)
(* read of the environment or the record is what they are (Follows).         *)
Cloud == INSTANCE CloudEnvironments WITH records <- cRecords, op <- cOp, overlapped <- cOverlapped,
           Env <- CloudEnv

CloudOn(c, e) == cOp[c].pc # "idle" /\ cOp[c].env = e
CloudIn(c, pcs, e) == cOp[c].pc \in pcs /\ cOp[c].env = e
CloudCalling == {"create", "get", "update", "stop", "remove", "delete", "upload", "execute"}

CloudTyped ==
  /\ DOMAIN cOp = Client /\ DOMAIN envs = CloudEnv /\ DOMAIN cRecords = CloudEnv
  /\ \A c \in Client : cOp[c] = Cloud!Idle \/ (/\ {"pc", "env"} \subseteq DOMAIN cOp[c]
                                           /\ cOp[c].pc \in CloudCalling /\ cOp[c].env \in CloudEnv)
\* A creation is alone with its environment, but for calls that only look.
Creating ==
  \A c \in Client, e \in CloudEnv : CloudIn(c, {"create"}, e) =>
    /\ envs[e] # "none" /\ cRecords[e] = "none"
    /\ \A d \in Client \ {c} : ~CloudIn(d, {"create", "stop", "remove", "delete"}, e)
Deleting == \A c \in Client, e \in CloudEnv : CloudIn(c, {"delete"}, e) => envs[e] = "none"
\* What is copied is a state.
Copied == \A c \in Client : cOp[c].pc = "update" => cOp[c].copy # "none"
\* One of the two is there: the call that made or removed it is not done.
Halfway ==
  \A e \in CloudEnv :
    /\ envs[e] = "none" /\ cRecords[e] # "none" => \E c \in Client : CloudIn(c, {"delete"}, e)
    /\ envs[e] # "none" /\ cRecords[e] = "none" => \E c \in Client : CloudIn(c, {"create"}, e)
Uploads == \A c \in Client, e \in CloudEnv : CloudIn(c, {"upload"}, e) => envs[e] # "none" \/ e \in outlived
Places == \A e \in CloudEnv \ outlived : e \in dirs <=> envs[e] # "none"
\* Where no two calls have overlapped, the record follows.
CloudSingle == \A e \in CloudEnv \ cOverlapped : \A c, d \in Client : CloudOn(c, e) /\ CloudOn(d, e) => c = d
Follows ==
  \A e \in CloudEnv \ cOverlapped : \A c \in Client :
    /\ CloudIn(c, {"create"}, e) => envs[e] = "running"
    /\ CloudIn(c, {"update"}, e) => cOp[c].copy = envs[e] /\ envs[e] # "none"
    /\ CloudIn(c, {"stop", "upload", "execute"}, e) => cRecords[e] = envs[e]
Follow == \A e \in CloudEnv \ cOverlapped : (\A c \in Client : ~CloudOn(c, e)) => cRecords[e] = envs[e]
CloudInv ==
  CloudTyped /\ Creating /\ Deleting /\ Copied /\ Halfway /\ Uploads /\ Places /\ CloudSingle /\ Follows /\ Follow

LEMMA CloudIdle == Cloud!Idle.pc = "idle"
BY DEF Cloud!Idle

LEMMA CloudCalls ==
  ASSUME CloudTyped, NEW e
  PROVE  \A c \in Client : c \in Cloud!Calls(e) <=> CloudOn(c, e)
BY CloudIdle DEF CloudTyped, Cloud!Calls, CloudOn, CloudCalling

\* A call moves on, or begins, or ends.
LEMMA CloudGo ==
  ASSUME CloudTyped, NEW c \in Client, NEW call, Cloud!Go(c, call)
  PROVE  DOMAIN cOp' = Client /\ cOp'[c] = call /\ \A d \in Client \ {c} : cOp'[d] = cOp[d]
BY DEF CloudTyped, Cloud!Go

LEMMA CloudCreate ==
  ASSUME CloudInv, NEW c \in Client, NEW e \in CloudEnv, Cloud!Create(c, e)
  PROVE  CloudInv'
<1>0. CloudTyped /\ Cloud!Idle.pc = "idle"
  BY CloudIdle DEF CloudInv
<1>1. /\ DOMAIN cOp' = Client /\ cOp'[c].pc = "create" /\ cOp'[c].env = e /\ {"pc", "env"} \subseteq DOMAIN cOp'[c]
      /\ \A d \in Client \ {c} : cOp'[d] = cOp[d]
  BY <1>0, CloudGo DEF Cloud!Create
<1>2. envs[e] = "none" /\ cRecords[e] = "none" /\ e \notin outlived /\ cOp[c].pc = "idle"
  BY <1>0 DEF Cloud!Create
<1>3. /\ DOMAIN envs' = CloudEnv /\ envs'[e] = "running" /\ \A b \in CloudEnv \ {e} : envs'[b] = envs[b]
      /\ dirs' = dirs \cup {e} /\ cOverlapped' = cOverlapped \ {e} /\ UNCHANGED <<cRecords, outlived>>
  BY <1>0 DEF Cloud!Create, CloudTyped
<1>4. \A d \in Client : ~CloudOn(d, e)
  BY <1>0, CloudCalls DEF Cloud!Create
<1>5. CloudTyped'
  BY <1>1, <1>2, <1>3, CloudIdle DEF CloudInv, CloudTyped, CloudCalling
<1>6. Creating'
  BY <1>1, <1>2, <1>3, <1>4 DEF CloudInv, Creating, Halfway, CloudOn, CloudIn
<1>7. Deleting'
  BY <1>1, <1>2, <1>3, <1>4 DEF CloudInv, Deleting, Creating, CloudOn, CloudIn
<1>8. Copied'
  BY <1>1, <1>2, <1>3, <1>4 DEF CloudInv, Copied, CloudOn, CloudIn
<1>9. Halfway'
  BY <1>1, <1>2, <1>3, <1>4 DEF CloudInv, Halfway, Copied, Creating, Deleting, CloudOn, CloudIn
<1>10. Uploads'
  BY <1>1, <1>2, <1>3, <1>4 DEF CloudInv, Uploads, CloudOn, CloudIn
<1>11. Places'
  BY <1>1, <1>2, <1>3, <1>4 DEF CloudInv, Places, Uploads, CloudOn, CloudIn
<1>12. CloudSingle'
  BY <1>1, <1>2, <1>3, <1>4 DEF CloudInv, CloudSingle, CloudOn, CloudIn
<1>13. Follows'
  BY <1>1, <1>2, <1>3, <1>4 DEF CloudInv, Follows, CloudSingle, Follow, Halfway, CloudOn, CloudIn
<1>14. Follow'
  BY <1>1, <1>2, <1>3, <1>4 DEF CloudInv, Follow, Follows, CloudSingle, Halfway, CloudOn, CloudIn
<1> QED
  BY <1>5, <1>6, <1>7, <1>8, <1>9, <1>10, <1>11, <1>12, <1>13, <1>14 DEF CloudInv

LEMMA CloudCreateRecord ==
  ASSUME CloudInv, NEW c \in Client, Cloud!CreateRecord(c)
  PROVE  CloudInv'
<1>0. CloudTyped /\ Cloud!Idle.pc = "idle"
  BY CloudIdle DEF CloudInv
<1>4. PICK e \in CloudEnv : e = cOp[c].env /\ cOp[c].pc = "create"
  BY <1>0 DEF Cloud!CreateRecord, CloudTyped
<1>1. /\ DOMAIN cOp' = Client
      /\ cOp'[c] = Cloud!Idle /\ cOp'[c].pc = "idle"
      /\ \A d \in Client \ {c} : cOp'[d] = cOp[d]
  BY <1>0, <1>4, CloudGo DEF Cloud!CreateRecord
<1>3. /\ DOMAIN cRecords' = CloudEnv /\ (\A b \in CloudEnv \ {e} : cRecords'[b] = cRecords[b])
      /\ cRecords'[e] = "running" /\ UNCHANGED <<envs, dirs, cOverlapped, outlived>>
  BY <1>0, <1>4 DEF Cloud!CreateRecord, CloudTyped
<1>5. CloudTyped'
  BY <1>1, <1>3, CloudIdle DEF CloudInv, CloudTyped, CloudCalling
<1>6. Creating'
  BY <1>1, <1>3, <1>4 DEF CloudInv, Creating, Halfway, CloudOn, CloudIn
<1>7. Deleting'
  BY <1>1, <1>3, <1>4 DEF CloudInv, Deleting, Creating, CloudOn, CloudIn
<1>8. Copied'
  BY <1>1, <1>3, <1>4 DEF CloudInv, Copied, CloudOn, CloudIn
<1>9. Halfway'
  BY <1>1, <1>3, <1>4 DEF CloudInv, Halfway, Copied, Creating, Deleting, CloudOn, CloudIn
<1>10. Uploads'
  BY <1>1, <1>3, <1>4 DEF CloudInv, Uploads, CloudOn, CloudIn
<1>11. Places'
  BY <1>1, <1>3, <1>4 DEF CloudInv, Places, Uploads, CloudOn, CloudIn
<1>12. CloudSingle'
  BY <1>1, <1>3, <1>4 DEF CloudInv, CloudSingle, CloudOn, CloudIn
<1>13. Follows'
  BY <1>1, <1>3, <1>4 DEF CloudInv, Follows, CloudSingle, Follow, Halfway, CloudOn, CloudIn
<1>14. Follow'
  BY <1>1, <1>3, <1>4 DEF CloudInv, Follow, Follows, CloudSingle, Halfway, CloudOn, CloudIn
<1> QED
  BY <1>5, <1>6, <1>7, <1>8, <1>9, <1>10, <1>11, <1>12, <1>13, <1>14 DEF CloudInv

LEMMA CloudChange ==
  ASSUME CloudInv, NEW c \in Client, NEW e \in CloudEnv,
         NEW from \in SUBSET Cloud!State, NEW to \in Cloud!State, Cloud!Change(c, e, from, to)
  PROVE  CloudInv'
<1>0. CloudTyped /\ Cloud!Idle.pc = "idle"
  BY CloudIdle DEF CloudInv
<1>1. /\ DOMAIN cOp' = Client /\ cOp'[c].pc = "get" /\ cOp'[c].env = e /\ {"pc", "env"} \subseteq DOMAIN cOp'[c]
      /\ \A d \in Client \ {c} : cOp'[d] = cOp[d]
  BY <1>0, CloudGo DEF Cloud!Change, Cloud!Begin
<1>2. envs[e] # "none" /\ to # "none" /\ cOp[c].pc = "idle"
  BY <1>0 DEF Cloud!Change, Cloud!Begin, Cloud!State
<1>3. /\ DOMAIN envs' = CloudEnv /\ envs'[e] = to /\ (\A b \in CloudEnv \ {e} : envs'[b] = envs[b])
      /\ UNCHANGED <<cRecords, dirs, outlived>>
      /\ cOverlapped \subseteq cOverlapped' /\ cOverlapped' \subseteq cOverlapped \cup {e}
  BY <1>0 DEF Cloud!Change, Cloud!Begin, CloudTyped
<1>4. (\E d \in Client : CloudOn(d, e)) => e \in cOverlapped'
  BY <1>0, CloudCalls DEF Cloud!Change, Cloud!Begin
<1>5. CloudTyped'
  BY <1>1, <1>2, <1>3, CloudIdle DEF CloudInv, CloudTyped, CloudCalling
<1>6. Creating'
  BY <1>1, <1>2, <1>3, <1>4 DEF CloudInv, Creating, Halfway, CloudOn, CloudIn
<1>7. Deleting'
  BY <1>1, <1>2, <1>3, <1>4 DEF CloudInv, Deleting, Creating, CloudOn, CloudIn
<1>8. Copied'
  BY <1>1, <1>2, <1>3, <1>4 DEF CloudInv, Copied, CloudOn, CloudIn
<1>9. Halfway'
  BY <1>1, <1>2, <1>3, <1>4 DEF CloudInv, Halfway, Copied, Creating, Deleting, CloudOn, CloudIn
<1>10. Uploads'
  BY <1>1, <1>2, <1>3, <1>4 DEF CloudInv, Uploads, CloudOn, CloudIn
<1>11. Places'
  BY <1>1, <1>2, <1>3, <1>4 DEF CloudInv, Places, Uploads, CloudOn, CloudIn
<1>12. CloudSingle'
  BY <1>1, <1>2, <1>3, <1>4 DEF CloudInv, CloudSingle, CloudOn, CloudIn
<1>13. Follows'
  BY <1>1, <1>2, <1>3, <1>4 DEF CloudInv, Follows, CloudSingle, Follow, Halfway, CloudOn, CloudIn
<1>14. Follow'
  BY <1>1, <1>2, <1>3, <1>4 DEF CloudInv, Follow, Follows, CloudSingle, Halfway, CloudOn, CloudIn
<1> QED
  BY <1>5, <1>6, <1>7, <1>8, <1>9, <1>10, <1>11, <1>12, <1>13, <1>14 DEF CloudInv

LEMMA CloudGet ==
  ASSUME CloudInv, NEW c \in Client, Cloud!Get(c)
  PROVE  CloudInv'
<1>0. CloudTyped /\ Cloud!Idle.pc = "idle"
  BY CloudIdle DEF CloudInv
<1>4. PICK e \in CloudEnv : e = cOp[c].env /\ cOp[c].pc = "get"
  BY <1>0 DEF Cloud!Get, CloudTyped
<1>1. /\ DOMAIN cOp' = Client
      /\ \/ envs[e] = "none" /\ cOp'[c] = Cloud!Idle /\ cOp'[c].pc = "idle"
         \/ envs[e] # "none" /\ cOp'[c].pc = "update" /\ cOp'[c].env = e /\ cOp'[c].copy = envs[e]
            /\ {"pc", "env"} \subseteq DOMAIN cOp'[c]
      /\ \A d \in Client \ {c} : cOp'[d] = cOp[d]
  <2>1. CASE envs[e] = "none"
    <3>1. Cloud!Go(c, Cloud!Idle)
      BY <1>4, <2>1 DEF Cloud!Get
    <3>2. DOMAIN cOp' = Client /\ cOp'[c] = Cloud!Idle /\ \A d \in Client \ {c} : cOp'[d] = cOp[d]
      BY <1>0, <3>1, CloudGo
    <3>3. cOp'[c].pc = "idle"
      BY <1>0, <3>2
    <3> QED
      BY <2>1, <3>1, <3>2, <3>3, Zenon
  <2>2. CASE ~(envs[e] = "none")
    <3>1. PICK call : Cloud!Go(c, call) /\ DOMAIN call = {"pc", "env", "copy"} /\ call.pc = "update" /\ call.env = e /\ call.copy = envs[e]
      BY <1>0, <1>4, <2>2 DEF Cloud!Get, CloudTyped
    <3>2. DOMAIN cOp' = Client /\ cOp'[c] = call /\ \A d \in Client \ {c} : cOp'[d] = cOp[d]
      BY <1>0, <3>1, CloudGo
    <3>3. {"pc", "env"} \subseteq DOMAIN call
      BY <1>0, <1>4, <3>1 DEF CloudTyped
    <3>5. /\ cOp'[c].pc = "update" /\ cOp'[c].env = e /\ cOp'[c].copy = envs[e]
          /\ {"pc", "env"} \subseteq DOMAIN cOp'[c]
      BY <3>1, <3>2, <3>3
    <3> QED
      BY <2>2, <3>2, <3>5, Zenon
  <2> QED
    BY <2>1, <2>2
<1>3. UNCHANGED <<envs, cRecords, dirs, cOverlapped, outlived>>
  BY <1>0, <1>4 DEF Cloud!Get, CloudTyped
<1>5. CloudTyped'
  BY <1>1, <1>3, CloudIdle DEF CloudInv, CloudTyped, CloudCalling
<1>6. Creating'
  BY <1>1, <1>3, <1>4 DEF CloudInv, Creating, Halfway, CloudOn, CloudIn
<1>7. Deleting'
  BY <1>1, <1>3, <1>4 DEF CloudInv, Deleting, Creating, CloudOn, CloudIn
<1>8. Copied'
  BY <1>1, <1>3, <1>4 DEF CloudInv, Copied, CloudOn, CloudIn
<1>9. Halfway'
  BY <1>1, <1>3, <1>4 DEF CloudInv, Halfway, Copied, Creating, Deleting, CloudOn, CloudIn
<1>10. Uploads'
  BY <1>1, <1>3, <1>4 DEF CloudInv, Uploads, CloudOn, CloudIn
<1>11. Places'
  BY <1>1, <1>3, <1>4 DEF CloudInv, Places, Uploads, CloudOn, CloudIn
<1>12. CloudSingle'
  BY <1>1, <1>3, <1>4 DEF CloudInv, CloudSingle, CloudOn, CloudIn
<1>13. Follows'
  BY <1>1, <1>3, <1>4 DEF CloudInv, Follows, CloudSingle, Follow, Halfway, CloudOn, CloudIn
<1>14. Follow'
  BY <1>1, <1>3, <1>4 DEF CloudInv, Follow, Follows, CloudSingle, Halfway, CloudOn, CloudIn
<1> QED
  BY <1>5, <1>6, <1>7, <1>8, <1>9, <1>10, <1>11, <1>12, <1>13, <1>14 DEF CloudInv

LEMMA CloudUpdate ==
  ASSUME CloudInv, NEW c \in Client, Cloud!Update(c)
  PROVE  CloudInv'
<1>0. CloudTyped /\ Cloud!Idle.pc = "idle"
  BY CloudIdle DEF CloudInv
<1>4. PICK e \in CloudEnv : e = cOp[c].env /\ cOp[c].pc = "update"
  BY <1>0 DEF Cloud!Update, CloudTyped
<1>1. /\ DOMAIN cOp' = Client
      /\ cOp'[c] = Cloud!Idle /\ cOp'[c].pc = "idle"
      /\ \A d \in Client \ {c} : cOp'[d] = cOp[d]
  BY <1>0, <1>4, CloudGo DEF Cloud!Update
<1>3. /\ DOMAIN cRecords' = CloudEnv /\ (\A b \in CloudEnv \ {e} : cRecords'[b] = cRecords[b])
      /\ cRecords'[e] = IF cRecords[e] = "none" THEN "none" ELSE cOp[c].copy
      /\ UNCHANGED <<envs, dirs, cOverlapped, outlived>>
  BY <1>0, <1>4 DEF Cloud!Update, CloudTyped
<1>5. CloudTyped'
  BY <1>1, <1>3, CloudIdle DEF CloudInv, CloudTyped, CloudCalling
<1>6. Creating'
  BY <1>1, <1>3, <1>4 DEF CloudInv, Creating, Halfway, CloudOn, CloudIn
<1>7. Deleting'
  BY <1>1, <1>3, <1>4 DEF CloudInv, Deleting, Creating, CloudOn, CloudIn
<1>8. Copied'
  BY <1>1, <1>3, <1>4 DEF CloudInv, Copied, CloudOn, CloudIn
<1>9. Halfway'
  BY <1>1, <1>3, <1>4 DEF CloudInv, Halfway, Copied, Creating, Deleting, CloudOn, CloudIn
<1>10. Uploads'
  BY <1>1, <1>3, <1>4 DEF CloudInv, Uploads, CloudOn, CloudIn
<1>11. Places'
  BY <1>1, <1>3, <1>4 DEF CloudInv, Places, Uploads, CloudOn, CloudIn
<1>12. CloudSingle'
  BY <1>1, <1>3, <1>4 DEF CloudInv, CloudSingle, CloudOn, CloudIn
<1>13. Follows'
  BY <1>1, <1>3, <1>4 DEF CloudInv, Follows, CloudSingle, Follow, Halfway, CloudOn, CloudIn
<1>14. Follow'
  BY <1>1, <1>3, <1>4 DEF CloudInv, Follow, Follows, CloudSingle, Halfway, CloudOn, CloudIn
<1> QED
  BY <1>5, <1>6, <1>7, <1>8, <1>9, <1>10, <1>11, <1>12, <1>13, <1>14 DEF CloudInv

LEMMA CloudDestroy ==
  ASSUME CloudInv, NEW c \in Client, NEW e \in CloudEnv, Cloud!Destroy(c, e)
  PROVE  CloudInv'
<1>0. CloudTyped /\ Cloud!Idle.pc = "idle"
  BY CloudIdle DEF CloudInv
<1>1. /\ DOMAIN cOp' = Client /\ cOp'[c].pc \in {"remove", "stop"} /\ cOp'[c].env = e /\ {"pc", "env"} \subseteq DOMAIN cOp'[c]
      /\ \A d \in Client \ {c} : cOp'[d] = cOp[d]
  BY <1>0, CloudGo DEF Cloud!Destroy, Cloud!Begin
<1>2. cRecords[e] # "none" /\ cOp[c].pc = "idle"
  BY <1>0 DEF Cloud!Destroy, Cloud!Begin
<1>3. /\ UNCHANGED <<envs, cRecords, dirs, outlived>>
      /\ cOverlapped \subseteq cOverlapped' /\ cOverlapped' \subseteq cOverlapped \cup {e}
  BY <1>0 DEF Cloud!Destroy, Cloud!Begin, CloudTyped
<1>4. (\E d \in Client : CloudOn(d, e)) => e \in cOverlapped'
  BY <1>0, CloudCalls DEF Cloud!Destroy, Cloud!Begin
<1>5. CloudTyped'
  BY <1>1, <1>2, <1>3, CloudIdle DEF CloudInv, CloudTyped, CloudCalling
<1>6. Creating'
  BY <1>1, <1>2, <1>3, <1>4 DEF CloudInv, Creating, Halfway, CloudOn, CloudIn
<1>7. Deleting'
  BY <1>1, <1>2, <1>3, <1>4 DEF CloudInv, Deleting, Creating, CloudOn, CloudIn
<1>8. Copied'
  BY <1>1, <1>2, <1>3, <1>4 DEF CloudInv, Copied, CloudOn, CloudIn
<1>9. Halfway'
  <2>1. \A d \in Client, b \in CloudEnv : /\ CloudIn(d, {"delete"}, b) => CloudIn(d, {"delete"}, b)'
                                          /\ CloudIn(d, {"create"}, b) => CloudIn(d, {"create"}, b)'
    BY <1>1, <1>2 DEF CloudIn
  <2> QED
    BY <1>3, <2>1 DEF CloudInv, Halfway
<1>10. Uploads'
  BY <1>1, <1>2, <1>3, <1>4 DEF CloudInv, Uploads, CloudOn, CloudIn
<1>11. Places'
  BY <1>1, <1>2, <1>3, <1>4 DEF CloudInv, Places, Uploads, CloudOn, CloudIn
<1>12. CloudSingle'
  BY <1>1, <1>2, <1>3, <1>4 DEF CloudInv, CloudSingle, CloudOn, CloudIn
<1>13. Follows'
  BY <1>1, <1>2, <1>3, <1>4 DEF CloudInv, Follows, CloudSingle, Follow, Halfway, CloudOn, CloudIn
<1>14. Follow'
  BY <1>1, <1>2, <1>3, <1>4 DEF CloudInv, Follow, Follows, CloudSingle, Halfway, CloudOn, CloudIn
<1> QED
  BY <1>5, <1>6, <1>7, <1>8, <1>9, <1>10, <1>11, <1>12, <1>13, <1>14 DEF CloudInv

LEMMA CloudStopFirst ==
  ASSUME CloudInv, NEW c \in Client, Cloud!StopFirst(c)
  PROVE  CloudInv'
<1>0. CloudTyped /\ Cloud!Idle.pc = "idle"
  BY CloudIdle DEF CloudInv
<1>4. PICK e \in CloudEnv : e = cOp[c].env /\ cOp[c].pc = "stop"
  BY <1>0 DEF Cloud!StopFirst, CloudTyped
<1>1. /\ DOMAIN cOp' = Client
      /\ \/ /\ envs[e] # "none" /\ envs'[e] = "stopped" /\ cOp'[c].pc = "remove" /\ cOp'[c].env = e /\ {"pc", "env"} \subseteq DOMAIN cOp'[c]
            /\ \A b \in CloudEnv \ {e} : envs'[b] = envs[b]
         \/ envs' = envs /\ cOp'[c] = Cloud!Idle /\ cOp'[c].pc = "idle"
      /\ \A d \in Client \ {c} : cOp'[d] = cOp[d]
  <2>1. CASE envs[e] \notin {"running", "paused"}
    <3>1. Cloud!Go(c, Cloud!Idle) /\ envs' = envs
      BY <1>4, <2>1 DEF Cloud!StopFirst
    <3>2. DOMAIN cOp' = Client /\ cOp'[c] = Cloud!Idle /\ \A d \in Client \ {c} : cOp'[d] = cOp[d]
      BY <1>0, <3>1, CloudGo
    <3>3. cOp'[c].pc = "idle"
      BY <1>0, <3>2
    <3> QED
      BY <2>1, <3>1, <3>2, <3>3, Zenon
  <2>2. CASE ~(envs[e] \notin {"running", "paused"})
    <3>1. PICK call : Cloud!Go(c, call) /\ DOMAIN call = DOMAIN cOp[c] /\ call.pc = "remove" /\ call.env = e
      BY <1>0, <1>4, <2>2 DEF Cloud!StopFirst, CloudTyped
    <3>2. DOMAIN cOp' = Client /\ cOp'[c] = call /\ \A d \in Client \ {c} : cOp'[d] = cOp[d]
      BY <1>0, <3>1, CloudGo
    <3>3. {"pc", "env"} \subseteq DOMAIN call
      BY <1>0, <1>4, <3>1 DEF CloudTyped
    <3>4. envs[e] # "none" /\ envs'[e] = "stopped" /\ \A b \in CloudEnv \ {e} : envs'[b] = envs[b]
      BY <1>0, <1>4, <2>2 DEF Cloud!StopFirst, CloudTyped
    <3>5. /\ cOp'[c].pc = "remove" /\ cOp'[c].env = e
          /\ {"pc", "env"} \subseteq DOMAIN cOp'[c]
      BY <3>1, <3>2, <3>3
    <3> QED
      BY <2>2, <3>2, <3>5, <3>4, Zenon
  <2> QED
    BY <2>1, <2>2
<1>3. DOMAIN envs' = CloudEnv /\ UNCHANGED <<cRecords, dirs, cOverlapped, outlived>>
  BY <1>0, <1>4 DEF Cloud!StopFirst, CloudTyped
<1>5. CloudTyped'
  BY <1>1, <1>3, CloudIdle DEF CloudInv, CloudTyped, CloudCalling
<1>6. Creating'
  BY <1>1, <1>3, <1>4 DEF CloudInv, Creating, Halfway, CloudOn, CloudIn
<1>7. Deleting'
  BY <1>1, <1>3, <1>4 DEF CloudInv, Deleting, Creating, CloudOn, CloudIn
<1>8. Copied'
  BY <1>1, <1>3, <1>4 DEF CloudInv, Copied, CloudOn, CloudIn
<1>9. Halfway'
  BY <1>1, <1>3, <1>4 DEF CloudInv, Halfway, Copied, Creating, Deleting, CloudOn, CloudIn
<1>10. Uploads'
  BY <1>1, <1>3, <1>4 DEF CloudInv, Uploads, CloudOn, CloudIn
<1>11. Places'
  BY <1>1, <1>3, <1>4 DEF CloudInv, Places, Uploads, CloudOn, CloudIn
<1>12. CloudSingle'
  BY <1>1, <1>3, <1>4 DEF CloudInv, CloudSingle, CloudOn, CloudIn
<1>13. Follows'
  BY <1>1, <1>3, <1>4 DEF CloudInv, Follows, CloudSingle, Follow, Halfway, CloudOn, CloudIn
<1>14. Follow'
  BY <1>1, <1>3, <1>4 DEF CloudInv, Follow, Follows, CloudSingle, Halfway, CloudOn, CloudIn
<1> QED
  BY <1>5, <1>6, <1>7, <1>8, <1>9, <1>10, <1>11, <1>12, <1>13, <1>14 DEF CloudInv

\* The directory of an environment that goes is removed, or outlives it.
CloudCleared(e) ==
  \/ dirs' = dirs \ {e} /\ ~Cloud!Uploading(e) /\ outlived' = outlived
  \/ (dirs' = dirs \ {e} \/ dirs' = dirs) /\ outlived' = outlived \cup {e}

LEMMA CloudRemove ==
  ASSUME CloudInv, NEW c \in Client, Cloud!Remove(c)
  PROVE  CloudInv'
<1>0. CloudTyped /\ Cloud!Idle.pc = "idle"
  BY CloudIdle DEF CloudInv
<1>4. PICK e \in CloudEnv : e = cOp[c].env /\ cOp[c].pc = "remove"
  BY <1>0 DEF Cloud!Remove, CloudTyped
<1>1. /\ DOMAIN cOp' = Client
      /\ \/ envs[e] = "none" /\ cOp'[c] = Cloud!Idle /\ cOp'[c].pc = "idle" /\ UNCHANGED <<envs, dirs, outlived>>
         \/ /\ envs[e] # "none" /\ envs'[e] = "none" /\ cOp'[c].pc = "delete" /\ cOp'[c].env = e /\ {"pc", "env"} \subseteq DOMAIN cOp'[c]
            /\ CloudCleared(e)
            /\ \A b \in CloudEnv \ {e} : envs'[b] = envs[b]
      /\ \A d \in Client \ {c} : cOp'[d] = cOp[d]
  <2>1. CASE envs[e] = "none"
    <3>1. Cloud!Go(c, Cloud!Idle) /\ UNCHANGED <<envs, dirs, outlived>>
      BY <1>4, <2>1 DEF Cloud!Remove
    <3>2. DOMAIN cOp' = Client /\ cOp'[c] = Cloud!Idle /\ \A d \in Client \ {c} : cOp'[d] = cOp[d]
      BY <1>0, <3>1, CloudGo
    <3>3. cOp'[c].pc = "idle"
      BY <1>0, <3>2
    <3> QED
      BY <2>1, <3>1, <3>2, <3>3, Zenon
  <2>2. CASE ~(envs[e] = "none")
    <3>1. PICK call : Cloud!Go(c, call) /\ DOMAIN call = DOMAIN cOp[c] /\ call.pc = "delete" /\ call.env = e
      BY <1>0, <1>4, <2>2 DEF Cloud!Remove, CloudTyped
    <3>2. DOMAIN cOp' = Client /\ cOp'[c] = call /\ \A d \in Client \ {c} : cOp'[d] = cOp[d]
      BY <1>0, <3>1, CloudGo
    <3>3. {"pc", "env"} \subseteq DOMAIN call
      BY <1>0, <1>4, <3>1 DEF CloudTyped
    <3>4. /\ envs'[e] = "none" /\ \A b \in CloudEnv \ {e} : envs'[b] = envs[b]
          /\ CloudCleared(e)
      BY <1>0, <1>4, <2>2 DEF Cloud!Remove, CloudTyped, CloudCleared
    <3>5. /\ cOp'[c].pc = "delete" /\ cOp'[c].env = e
          /\ {"pc", "env"} \subseteq DOMAIN cOp'[c]
      BY <3>1, <3>2, <3>3
    <3> QED
      BY <2>2, <3>2, <3>5, <3>4, Zenon
  <2> QED
    BY <2>1, <2>2
<1>2. Cloud!Uploading(e) <=> \E d \in Client : CloudIn(d, {"upload"}, e)
  BY <1>0, <1>4, CloudCalls DEF Cloud!Uploading, Cloud!Calls, CloudIn, CloudOn
<1>3. DOMAIN envs' = CloudEnv /\ UNCHANGED <<cRecords, cOverlapped>>
  BY <1>0, <1>4 DEF Cloud!Remove, CloudTyped
<1>5. CloudTyped'
  BY <1>1, <1>2, <1>3, CloudIdle DEF CloudInv, CloudTyped, CloudCalling
<1>6. Creating'
  BY <1>1, <1>2, <1>3, <1>4 DEF CloudInv, Creating, Halfway, CloudOn, CloudIn
<1>7. Deleting'
  BY <1>1, <1>2, <1>3, <1>4 DEF CloudInv, Deleting, Creating, CloudOn, CloudIn
<1>8. Copied'
  BY <1>1, <1>2, <1>3, <1>4 DEF CloudInv, Copied, CloudOn, CloudIn
<1>9. Halfway'
  BY <1>1, <1>2, <1>3, <1>4 DEF CloudInv, Halfway, Copied, Creating, Deleting, CloudOn, CloudIn
<1>10. Uploads'
  BY <1>1, <1>2, <1>3, <1>4 DEF CloudInv, CloudCleared, Uploads, CloudOn, CloudIn
<1>11. Places'
  BY <1>1, <1>2, <1>3, <1>4 DEF CloudInv, CloudCleared, Places, Uploads, CloudOn, CloudIn
<1>12. CloudSingle'
  BY <1>1, <1>2, <1>3, <1>4 DEF CloudInv, CloudSingle, CloudOn, CloudIn
<1>13. Follows'
  BY <1>1, <1>2, <1>3, <1>4 DEF CloudInv, Follows, CloudSingle, Follow, Halfway, CloudOn, CloudIn
<1>14. Follow'
  BY <1>1, <1>2, <1>3, <1>4 DEF CloudInv, Follow, Follows, CloudSingle, Halfway, CloudOn, CloudIn
<1> QED
  BY <1>5, <1>6, <1>7, <1>8, <1>9, <1>10, <1>11, <1>12, <1>13, <1>14 DEF CloudInv

LEMMA CloudDelete ==
  ASSUME CloudInv, NEW c \in Client, Cloud!Delete(c)
  PROVE  CloudInv'
<1>0. CloudTyped /\ Cloud!Idle.pc = "idle"
  BY CloudIdle DEF CloudInv
<1>4. PICK e \in CloudEnv : e = cOp[c].env /\ cOp[c].pc = "delete"
  BY <1>0 DEF Cloud!Delete, CloudTyped
<1>1. /\ DOMAIN cOp' = Client
      /\ cOp'[c] = Cloud!Idle /\ cOp'[c].pc = "idle"
      /\ \A d \in Client \ {c} : cOp'[d] = cOp[d]
  BY <1>0, <1>4, CloudGo DEF Cloud!Delete
<1>3. /\ DOMAIN cRecords' = CloudEnv /\ (\A b \in CloudEnv \ {e} : cRecords'[b] = cRecords[b])
      /\ cRecords'[e] = "none" /\ UNCHANGED <<envs, dirs, cOverlapped, outlived>>
  BY <1>0, <1>4 DEF Cloud!Delete, CloudTyped
<1>5. CloudTyped'
  BY <1>1, <1>3, CloudIdle DEF CloudInv, CloudTyped, CloudCalling
<1>6. Creating'
  BY <1>1, <1>3, <1>4 DEF CloudInv, Creating, Halfway, CloudOn, CloudIn
<1>7. Deleting'
  BY <1>1, <1>3, <1>4 DEF CloudInv, Deleting, Creating, CloudOn, CloudIn
<1>8. Copied'
  BY <1>1, <1>3, <1>4 DEF CloudInv, Copied, CloudOn, CloudIn
<1>9. Halfway'
  BY <1>1, <1>3, <1>4 DEF CloudInv, Halfway, Copied, Creating, Deleting, CloudOn, CloudIn
<1>10. Uploads'
  BY <1>1, <1>3, <1>4 DEF CloudInv, Uploads, CloudOn, CloudIn
<1>11. Places'
  BY <1>1, <1>3, <1>4 DEF CloudInv, Places, Uploads, CloudOn, CloudIn
<1>12. CloudSingle'
  BY <1>1, <1>3, <1>4 DEF CloudInv, CloudSingle, CloudOn, CloudIn
<1>13. Follows'
  BY <1>1, <1>3, <1>4 DEF CloudInv, Follows, CloudSingle, Follow, Halfway, CloudOn, CloudIn
<1>14. Follow'
  <2>1. SUFFICES ASSUME NEW b \in CloudEnv \ cOverlapped, \A d \in Client : ~CloudOn(d, b)' PROVE cRecords'[b] = envs[b]
    BY <1>3 DEF Follow
  <2>2. CASE b = e
    BY <1>3, <1>4, <2>2 DEF CloudInv, Deleting, CloudIn
  <2>3. CASE b # e
    <3>1. \A d \in Client : ~CloudOn(d, b)
      BY <1>1, <1>4, <2>1, <2>3 DEF CloudOn
    <3> QED
      BY <1>3, <2>3, <3>1 DEF CloudInv, Follow
  <2> QED
    BY <2>2, <2>3
<1> QED
  BY <1>5, <1>6, <1>7, <1>8, <1>9, <1>10, <1>11, <1>12, <1>13, <1>14 DEF CloudInv

LEMMA CloudUploadFile ==
  ASSUME CloudInv, NEW c \in Client, NEW e \in CloudEnv, Cloud!UploadFile(c, e)
  PROVE  CloudInv'
<1>0. CloudTyped /\ Cloud!Idle.pc = "idle"
  BY CloudIdle DEF CloudInv
<1>1. /\ DOMAIN cOp' = Client /\ cOp'[c].pc = "upload" /\ cOp'[c].env = e /\ {"pc", "env"} \subseteq DOMAIN cOp'[c]
      /\ \A d \in Client \ {c} : cOp'[d] = cOp[d]
  BY <1>0, CloudGo DEF Cloud!UploadFile, Cloud!Begin
<1>2. envs[e] # "none" /\ cOp[c].pc = "idle"
  BY <1>0 DEF Cloud!UploadFile, Cloud!Begin
<1>3. /\ UNCHANGED <<envs, cRecords, dirs, outlived>>
      /\ cOverlapped \subseteq cOverlapped' /\ cOverlapped' \subseteq cOverlapped \cup {e}
  BY <1>0 DEF Cloud!UploadFile, Cloud!Begin, CloudTyped
<1>4. (\E d \in Client : CloudOn(d, e)) => e \in cOverlapped'
  BY <1>0, CloudCalls DEF Cloud!UploadFile, Cloud!Begin
<1>5. CloudTyped'
  BY <1>1, <1>2, <1>3, CloudIdle DEF CloudInv, CloudTyped, CloudCalling
<1>6. Creating'
  BY <1>1, <1>2, <1>3, <1>4 DEF CloudInv, Creating, Halfway, CloudOn, CloudIn
<1>7. Deleting'
  BY <1>1, <1>2, <1>3, <1>4 DEF CloudInv, Deleting, Creating, CloudOn, CloudIn
<1>8. Copied'
  BY <1>1, <1>2, <1>3, <1>4 DEF CloudInv, Copied, CloudOn, CloudIn
<1>9. Halfway'
  BY <1>1, <1>2, <1>3, <1>4 DEF CloudInv, Halfway, Copied, Creating, Deleting, CloudOn, CloudIn
<1>10. Uploads'
  BY <1>1, <1>2, <1>3, <1>4 DEF CloudInv, Uploads, CloudOn, CloudIn
<1>11. Places'
  BY <1>1, <1>2, <1>3, <1>4 DEF CloudInv, Places, Uploads, CloudOn, CloudIn
<1>12. CloudSingle'
  BY <1>1, <1>2, <1>3, <1>4 DEF CloudInv, CloudSingle, CloudOn, CloudIn
<1>13. Follows'
  BY <1>1, <1>2, <1>3, <1>4 DEF CloudInv, Follows, CloudSingle, Follow, Halfway, CloudOn, CloudIn
<1>14. Follow'
  BY <1>1, <1>2, <1>3, <1>4 DEF CloudInv, Follow, Follows, CloudSingle, Halfway, CloudOn, CloudIn
<1> QED
  BY <1>5, <1>6, <1>7, <1>8, <1>9, <1>10, <1>11, <1>12, <1>13, <1>14 DEF CloudInv

LEMMA CloudWrite ==
  ASSUME CloudInv, NEW c \in Client, Cloud!Write(c)
  PROVE  CloudInv'
<1>0. CloudTyped /\ Cloud!Idle.pc = "idle"
  BY CloudIdle DEF CloudInv
<1>4. PICK e \in CloudEnv : e = cOp[c].env /\ cOp[c].pc = "upload"
  BY <1>0 DEF Cloud!Write, CloudTyped
<1>1. /\ DOMAIN cOp' = Client
      /\ cOp'[c] = Cloud!Idle /\ cOp'[c].pc = "idle"
      /\ \A d \in Client \ {c} : cOp'[d] = cOp[d]
  BY <1>0, <1>4, CloudGo DEF Cloud!Write
<1>3. dirs' = dirs \cup {e} /\ UNCHANGED <<envs, cRecords, cOverlapped, outlived>>
  BY <1>0, <1>4 DEF Cloud!Write, CloudTyped
<1>5. CloudTyped'
  BY <1>1, <1>3, CloudIdle DEF CloudInv, CloudTyped, CloudCalling
<1>6. Creating'
  BY <1>1, <1>3, <1>4 DEF CloudInv, Creating, Halfway, CloudOn, CloudIn
<1>7. Deleting'
  BY <1>1, <1>3, <1>4 DEF CloudInv, Deleting, Creating, CloudOn, CloudIn
<1>8. Copied'
  BY <1>1, <1>3, <1>4 DEF CloudInv, Copied, CloudOn, CloudIn
<1>9. Halfway'
  BY <1>1, <1>3, <1>4 DEF CloudInv, Halfway, Copied, Creating, Deleting, CloudOn, CloudIn
<1>10. Uploads'
  BY <1>1, <1>3, <1>4 DEF CloudInv, Uploads, CloudOn, CloudIn
<1>11. Places'
  BY <1>1, <1>3, <1>4 DEF CloudInv, Places, Uploads, CloudOn, CloudIn
<1>12. CloudSingle'
  BY <1>1, <1>3, <1>4 DEF CloudInv, CloudSingle, CloudOn, CloudIn
<1>13. Follows'
  BY <1>1, <1>3, <1>4 DEF CloudInv, Follows, CloudSingle, Follow, Halfway, CloudOn, CloudIn
<1>14. Follow'
  BY <1>1, <1>3, <1>4 DEF CloudInv, Follow, Follows, CloudSingle, Halfway, CloudOn, CloudIn
<1> QED
  BY <1>5, <1>6, <1>7, <1>8, <1>9, <1>10, <1>11, <1>12, <1>13, <1>14 DEF CloudInv

LEMMA CloudExecuteCommand ==
  ASSUME CloudInv, NEW c \in Client, NEW e \in CloudEnv, Cloud!ExecuteCommand(c, e)
  PROVE  CloudInv'
<1>0. CloudTyped /\ Cloud!Idle.pc = "idle"
  BY CloudIdle DEF CloudInv
<1>1. /\ DOMAIN cOp' = Client /\ cOp'[c].pc = "execute" /\ cOp'[c].env = e /\ {"pc", "env"} \subseteq DOMAIN cOp'[c]
      /\ \A d \in Client \ {c} : cOp'[d] = cOp[d]
  BY <1>0, CloudGo DEF Cloud!ExecuteCommand, Cloud!Begin
<1>2. envs[e] # "none" /\ cOp[c].pc = "idle"
  BY <1>0 DEF Cloud!ExecuteCommand, Cloud!Begin
<1>3. /\ UNCHANGED <<envs, cRecords, dirs, outlived>>
      /\ cOverlapped \subseteq cOverlapped' /\ cOverlapped' \subseteq cOverlapped \cup {e}
  BY <1>0 DEF Cloud!ExecuteCommand, Cloud!Begin, CloudTyped
<1>4. (\E d \in Client : CloudOn(d, e)) => e \in cOverlapped'
  BY <1>0, CloudCalls DEF Cloud!ExecuteCommand, Cloud!Begin
<1>5. CloudTyped'
  BY <1>1, <1>2, <1>3, CloudIdle DEF CloudInv, CloudTyped, CloudCalling
<1>6. Creating'
  BY <1>1, <1>2, <1>3, <1>4 DEF CloudInv, Creating, Halfway, CloudOn, CloudIn
<1>7. Deleting'
  BY <1>1, <1>2, <1>3, <1>4 DEF CloudInv, Deleting, Creating, CloudOn, CloudIn
<1>8. Copied'
  BY <1>1, <1>2, <1>3, <1>4 DEF CloudInv, Copied, CloudOn, CloudIn
<1>9. Halfway'
  BY <1>1, <1>2, <1>3, <1>4 DEF CloudInv, Halfway, Copied, Creating, Deleting, CloudOn, CloudIn
<1>10. Uploads'
  BY <1>1, <1>2, <1>3, <1>4 DEF CloudInv, Uploads, CloudOn, CloudIn
<1>11. Places'
  BY <1>1, <1>2, <1>3, <1>4 DEF CloudInv, Places, Uploads, CloudOn, CloudIn
<1>12. CloudSingle'
  BY <1>1, <1>2, <1>3, <1>4 DEF CloudInv, CloudSingle, CloudOn, CloudIn
<1>13. Follows'
  BY <1>1, <1>2, <1>3, <1>4 DEF CloudInv, Follows, CloudSingle, Follow, Halfway, CloudOn, CloudIn
<1>14. Follow'
  BY <1>1, <1>2, <1>3, <1>4 DEF CloudInv, Follow, Follows, CloudSingle, Halfway, CloudOn, CloudIn
<1> QED
  BY <1>5, <1>6, <1>7, <1>8, <1>9, <1>10, <1>11, <1>12, <1>13, <1>14 DEF CloudInv

LEMMA CloudCommandEnds ==
  ASSUME CloudInv, NEW c \in Client, Cloud!CommandEnds(c)
  PROVE  CloudInv'
<1>0. CloudTyped /\ Cloud!Idle.pc = "idle"
  BY CloudIdle DEF CloudInv
<1>4. PICK e \in CloudEnv : e = cOp[c].env /\ cOp[c].pc = "execute"
  BY <1>0 DEF Cloud!CommandEnds, CloudTyped
<1>1. /\ DOMAIN cOp' = Client
      /\ cOp'[c] = Cloud!Idle /\ cOp'[c].pc = "idle"
      /\ \A d \in Client \ {c} : cOp'[d] = cOp[d]
  BY <1>0, <1>4, CloudGo DEF Cloud!CommandEnds
<1>3. UNCHANGED <<envs, cRecords, dirs, cOverlapped, outlived>>
  BY <1>0, <1>4 DEF Cloud!CommandEnds, CloudTyped
<1>5. CloudTyped'
  BY <1>1, <1>3, CloudIdle DEF CloudInv, CloudTyped, CloudCalling
<1>6. Creating'
  BY <1>1, <1>3, <1>4 DEF CloudInv, Creating, Halfway, CloudOn, CloudIn
<1>7. Deleting'
  BY <1>1, <1>3, <1>4 DEF CloudInv, Deleting, Creating, CloudOn, CloudIn
<1>8. Copied'
  BY <1>1, <1>3, <1>4 DEF CloudInv, Copied, CloudOn, CloudIn
<1>9. Halfway'
  BY <1>1, <1>3, <1>4 DEF CloudInv, Halfway, Copied, Creating, Deleting, CloudOn, CloudIn
<1>10. Uploads'
  BY <1>1, <1>3, <1>4 DEF CloudInv, Uploads, CloudOn, CloudIn
<1>11. Places'
  BY <1>1, <1>3, <1>4 DEF CloudInv, Places, Uploads, CloudOn, CloudIn
<1>12. CloudSingle'
  BY <1>1, <1>3, <1>4 DEF CloudInv, CloudSingle, CloudOn, CloudIn
<1>13. Follows'
  BY <1>1, <1>3, <1>4 DEF CloudInv, Follows, CloudSingle, Follow, Halfway, CloudOn, CloudIn
<1>14. Follow'
  BY <1>1, <1>3, <1>4 DEF CloudInv, Follow, Follows, CloudSingle, Halfway, CloudOn, CloudIn
<1> QED
  BY <1>5, <1>6, <1>7, <1>8, <1>9, <1>10, <1>11, <1>12, <1>13, <1>14 DEF CloudInv

LEMMA CloudInit == ASSUME Cloud!Init PROVE CloudInv
<1>1. /\ DOMAIN cOp = Client /\ DOMAIN envs = CloudEnv /\ DOMAIN cRecords = CloudEnv /\ dirs = {}
      /\ \A e \in CloudEnv : envs[e] = "none" /\ cRecords[e] = "none"
      /\ \A c \in Client : cOp[c] = Cloud!Idle
  BY DEF Cloud!Init
<1>2. \A c \in Client : cOp[c].pc = "idle"
  BY <1>1, CloudIdle
<1> QED
  BY <1>1, <1>2 DEF CloudInv, CloudTyped, Creating, Deleting, Copied, Halfway, Uploads, Places, CloudSingle, Follows, Follow, CloudOn, CloudIn

LEMMA CloudStep == ASSUME CloudInv, Cloud!Next PROVE CloudInv'
<1>1. ASSUME NEW c \in Client,
             \/ Cloud!CreateRecord(c) \/ Cloud!Get(c) \/ Cloud!Update(c) \/ Cloud!StopFirst(c) \/ Cloud!Remove(c)
             \/ Cloud!Delete(c) \/ Cloud!Write(c) \/ Cloud!CommandEnds(c)
      PROVE  CloudInv'
  BY <1>1, CloudCreateRecord, CloudGet, CloudUpdate, CloudStopFirst, CloudRemove, CloudDelete, CloudWrite, CloudCommandEnds
<1>2. ASSUME NEW c \in Client, NEW e \in CloudEnv,
             \/ Cloud!Create(c, e) \/ Cloud!Destroy(c, e) \/ Cloud!UploadFile(c, e) \/ Cloud!ExecuteCommand(c, e)
      PROVE  CloudInv'
  BY <1>2, CloudCreate, CloudDestroy, CloudUploadFile, CloudExecuteCommand
<1>3. ASSUME NEW c \in Client, NEW e \in CloudEnv,
             \/ Cloud!Start(c, e) \/ Cloud!Stop(c, e) \/ Cloud!Pause(c, e) \/ Cloud!Resume(c, e)
      PROVE  CloudInv'
  BY <1>3, CloudChange DEF Cloud!Start, Cloud!Stop, Cloud!Pause, Cloud!Resume, Cloud!State
<1> QED
  BY <1>1, <1>2, <1>3 DEF Cloud!Next

LEMMA CloudSame == ASSUME CloudInv, UNCHANGED cloudVars PROVE CloudInv'
BY DEF cloudVars, CloudInv, CloudTyped, Creating, Deleting, Copied, Halfway, Uploads, Places, CloudSingle, Follows, Follow, CloudOn, CloudIn

\* CloudEnvironments: environments, records and directories go together.
LEMMA CloudGives == ASSUME CloudInv PROVE Cloud!RecordsPaired /\ Cloud!RecordsExact /\ Cloud!DirsRemoved
<1>1. \A e : Cloud!Calls(e) = {} => \A c \in Client : ~CloudOn(c, e)
  BY CloudCalls DEF CloudInv
<1>2. ASSUME NEW e \in CloudEnv, Cloud!Calls(e) = {} PROVE envs[e] = "none" <=> cRecords[e] = "none"
  <2>1. \A c \in Client : ~CloudIn(c, {"delete"}, e) /\ ~CloudIn(c, {"create"}, e)
    BY <1>1, <1>2 DEF CloudOn, CloudIn
  <2> QED
    BY <2>1 DEF CloudInv, Halfway
<1>3. Cloud!RecordsPaired
  BY <1>2, Zenon DEF Cloud!RecordsPaired
<1>4. Cloud!RecordsExact
  BY <1>1 DEF CloudInv, Follow, Cloud!RecordsExact
<1>5. \A e \in CloudEnv : e \in outlived \/ (e \in dirs <=> envs[e] # "none")
  BY DEF CloudInv, Places
<1>6. Cloud!DirsRemoved
  BY <1>5 DEF Cloud!DirsRemoved
<1> QED
  BY <1>3, <1>4, <1>6

-----------------------------------------------------------------------------
(* MemoryStore: what a search has read of an entry under the lock is what the *)
(* entry has still, unless another search had it too (ReadsKept); an entry    *)
(* that no two updates met on has one writer (WritersKept).                  *)
Memories == INSTANCE MemoryStore WITH now <- eNow, op <- eOp, used <- eUsed, given <- eGiven, Id <- MemoryId,
           Agent <- MemoryAgent, MaxTime <- MemoryTime

\* What an entry is.
MemoryEntry ==
  [agent : MemoryAgent, importance : Importance, access : Nat, content : Client \cup {"new"},
   summary : Client \cup {"new"}, expires : Nat]
MemoryReq == [agent : MemoryAgent, minScore : {0} \cup Importance]
MemoryTyped ==
  /\ eNow \in Nat /\ eUsed \subseteq MemoryId /\ DOMAIN entries \subseteq eUsed
  /\ \A i \in DOMAIN entries : entries[i] \in MemoryEntry
  /\ touched \in [MemoryId -> Nat] /\ eGiven \in [MemoryId -> [Memories!Fields -> Client \cup {"new"}]]
  /\ raced \subseteq MemoryId /\ mixed \subseteq MemoryId
  /\ DOMAIN eOp = Client
MemoryFresh == \A i \in MemoryId \ eUsed : touched[i] = 0 /\ \A f \in Memories!Fields : eGiven[i][f] = "new"

\* An update has an id that was given; a search has read entries that are there
\* as long as it holds the lock.
Updates(c) == eOp[c].call = "update"
Searches(c) == eOp[c].call = "search"
MemoryCalls ==
  \A c \in Client :
    \/ eOp[c].call = "idle"
    \/ Updates(c) /\ eOp[c] = [call |-> "update", id |-> eOp[c].id, left |-> eOp[c].left] /\ eOp[c].id \in eUsed
    \/ Searches(c) /\ DOMAIN eOp[c].read \subseteq DOMAIN entries

\* What a search has read of an entry is what the entry has still, unless
\* another one had it too.
ReadsKept ==
  \A c \in Client : Searches(c) => \A i \in DOMAIN eOp[c].read :
    /\ eOp[c].read[i] \in Nat /\ eOp[c].read[i] <= touched[i]
    /\ i \notin raced => eOp[c].read[i] = entries[i].access
    /\ \A d \in Client \ {c} : Searches(d) /\ i \in DOMAIN eOp[d].read => i \in raced

\* An entry that no two updates met on has one writer, and of what was given
\* last only what that writer has left is missing.
Missing(c) ==
  \A f \in Memories!Fields :
    IF f \in eOp[c].left THEN eGiven[eOp[c].id][f] = c
    ELSE entries[eOp[c].id][f] = eGiven[eOp[c].id][f]
WritersKept ==
  \A c \in Client : Updates(c) /\ eOp[c].id \notin mixed =>
    /\ \A d \in Client \ {c} : Updates(d) => eOp[d].id # eOp[c].id
    /\ eOp[c].id \in DOMAIN entries => Missing(c)

\* An update of some of the fields begins.
MemoryBegun(c, i) == \E fields \in SUBSET Memories!Fields : Memories!BeginUpdate(c, i, fields)

MemoryInv == MemoryTyped /\ MemoryFresh /\ MemoryCalls /\ ReadsKept /\ WritersKept /\ Memories!AccessExact /\ Memories!UpdateWhole

LEMMA MemoryInit == ASSUME Memories!Init PROVE MemoryInv
<1> USE DEF Memories!Init, Memories!Idle
<1>1. eOp = [c \in Client |-> [call |-> "idle"]] /\ DOMAIN entries = {} /\ eUsed = {} /\ eNow = 1
      /\ touched = [i \in MemoryId |-> 0] /\ raced = {} /\ mixed = {} /\ entries = <<>>
      /\ eGiven = [i \in MemoryId |-> [f \in Memories!Fields |-> "new"]]
  OBVIOUS
<1>3. MemoryTyped
  <2>1. touched \in [MemoryId -> Nat] /\ DOMAIN eOp = Client /\ eGiven \in [MemoryId -> [Memories!Fields -> Client \cup {"new"}]]
    BY <1>1
  <2>2. eNow \in Nat /\ eUsed \subseteq MemoryId /\ DOMAIN entries \subseteq eUsed
        /\ raced \subseteq MemoryId /\ mixed \subseteq MemoryId
    BY <1>1
  <2>5. DOMAIN entries = {}
    BY <1>1
  <2>3. \A i \in DOMAIN entries : entries[i] \in MemoryEntry
    BY <2>5
  <2> QED
    BY <2>1, <2>2, <2>3 DEF MemoryTyped
<1>7. MemoryFresh
  BY <1>1 DEF MemoryFresh
<1>4. \A c \in Client : eOp[c].call = "idle"
  OBVIOUS
<1>5. MemoryCalls /\ ReadsKept /\ WritersKept
  BY <1>4 DEF MemoryCalls, ReadsKept, WritersKept, Updates, Searches
<1>6. Memories!AccessExact /\ Memories!UpdateWhole
  BY <1>1 DEF Memories!AccessExact, Memories!UpdateWhole
<1> QED
  BY <1>3, <1>5, <1>6, <1>7 DEF MemoryInv

LEMMA MemorySame == ASSUME MemoryInv, UNCHANGED memoryVars PROVE MemoryInv'
BY DEF MemoryInv, memoryVars, MemoryTyped, MemoryFresh, MemoryCalls, ReadsKept, WritersKept, Missing, Updates, Searches,
       Memories!AccessExact, Memories!UpdateWhole, Memories!Writers

\* Of the three kinds of calls.
LEMMA MemoryUpdates ==
  ASSUME MemoryCalls, NEW c \in Client, Updates(c)
  PROVE  eOp[c].id \in eUsed /\ eOp[c] = [call |-> "update", id |-> eOp[c].id, left |-> eOp[c].left] /\ ~Searches(c)
<1>1. eOp[c].call # "idle"
  BY DEF Updates
<1>2. ~Searches(c)
  BY DEF Updates, Searches
<1> QED
  BY <1>1, <1>2 DEF MemoryCalls

LEMMA MemorySearches ==
  ASSUME MemoryCalls, NEW c \in Client, Searches(c)
  PROVE  DOMAIN eOp[c].read \subseteq DOMAIN entries /\ ~Updates(c)
<1>1. eOp[c].call # "idle"
  BY DEF Searches
<1>2. ~Updates(c)
  BY DEF Updates, Searches
<1> QED
  BY <1>1, <1>2 DEF MemoryCalls

\* What is gone does not come back, step by step.
LEMMA MemoryGone ==
  ASSUME MemoryTyped, Memories!Next
  PROVE  \A i \in eUsed : i \notin DOMAIN entries => i \notin DOMAIN entries'
<1> USE DEF Memories!Request
<1>1. CASE \E c \in Client, a \in MemoryAgent, ttl \in TTL, grade \in Importance : Memories!Create(c, a, ttl, grade)
  <2>1. PICK i \in MemoryId \ eUsed : DOMAIN entries' = DOMAIN entries \cup {i}
    BY <1>1 DEF Memories!Create
  <2> QED
    BY <2>1
<1>2. CASE \E c \in Client, i \in MemoryId : Memories!Get(c, i) \/ MemoryBegun(c, i) \/ Memories!Delete(c, i)
  BY <1>2 DEF Memories!Get, MemoryBegun, Memories!BeginUpdate, Memories!Delete, Memories!Touched, Memories!Without
<1>3. CASE \E c \in Client : (\E field \in Memories!Fields : Memories!SetField(c, field))
                             \/ Memories!Update(c) \/ Memories!Cleanup(c) \/ Memories!Search(c)
  BY <1>3 DEF Memories!SetField, Memories!Update, Memories!Stored, Memories!Cleanup, Memories!Search
<1>4. CASE (\E c \in Client, req \in MemoryReq : Memories!BeginSearch(c, req)) \/ Memories!Tick
  BY <1>4 DEF Memories!BeginSearch, Memories!Tick
<1> QED
  BY <1>1, <1>2, <1>3, <1>4 DEF Memories!Next, MemoryReq, MemoryBegun

\* The types are kept.
LEMMA MemoryTypes == ASSUME MemoryInv, Memories!Next PROVE MemoryTyped'
<1> USE MemoryAssumption DEF MemoryInv, MemoryTyped, MemoryEntry
<1> DEFINE Entry1(e) == e \in MemoryEntry
<1>1. CASE \E c \in Client, a \in MemoryAgent, ttl \in TTL, grade \in Importance : Memories!Create(c, a, ttl, grade)
  <2> DEFINE Entered(a, ttl, grade, i) ==
               /\ eUsed' = eUsed \cup {i}
               /\ entries' = [j \in DOMAIN entries \cup {i} |-> IF j \in DOMAIN entries THEN entries[j] ELSE
                    [agent |-> a, importance |-> grade, access |-> 0, content |-> "new", summary |-> "new",
                     expires |-> IF ttl = 0 THEN 0 ELSE eNow + ttl]]
               /\ UNCHANGED <<eNow, eOp, touched, eGiven, raced, mixed>>
  <2>1. PICK a \in MemoryAgent, ttl \in TTL, grade \in Importance, i \in MemoryId \ eUsed : Entered(a, ttl, grade, i)
    <3>1. PICK c \in Client, a \in MemoryAgent, ttl \in TTL, grade \in Importance : Memories!Create(c, a, ttl, grade)
      BY <1>1
    <3>2. PICK i \in MemoryId \ eUsed : Entered(a, ttl, grade, i)
      BY <3>1 DEF Memories!Create
    <3> HIDE DEF Entered
    <3> QED
      BY <3>2
  <2>2. [agent |-> a, importance |-> grade, access |-> 0, content |-> "new", summary |-> "new",
         expires |-> IF ttl = 0 THEN 0 ELSE eNow + ttl] \in MemoryEntry
    <3>1. ttl \in Nat /\ eNow \in Nat
      BY <2>1
    <3>2. (IF ttl = 0 THEN 0 ELSE eNow + ttl) \in Nat
      BY <3>1
    <3> QED
      BY <3>2, <2>1
  <2>3. \A j \in DOMAIN entries' : entries'[j] \in MemoryEntry
    BY <2>1, <2>2 DEF MemoryEntry
  <2>4. DOMAIN entries' \subseteq eUsed' /\ eUsed' \subseteq MemoryId
    BY <2>1
  <2> QED
    BY <2>1, <2>3, <2>4
<1>2. ASSUME NEW c \in Client, NEW i \in MemoryId, Memories!Get(c, i) \/ MemoryBegun(c, i) \/ Memories!Delete(c, i)
      PROVE  MemoryTyped'
  <2>1. \A j \in DOMAIN entries' : j \in DOMAIN entries /\ entries'[j] \in MemoryEntry
    <3>1. CASE entries' = Memories!Touched(i) /\ i \in DOMAIN entries
      <4>1. \A j \in DOMAIN entries : Memories!Touched(i)[j] =
              IF j = i THEN [entries[j] EXCEPT !.access = @ + 1] ELSE entries[j]
        BY DEF Memories!Touched
      <4>2. [entries[i] EXCEPT !.access = @ + 1] \in MemoryEntry
        BY <3>1
      <4>3. DOMAIN entries' = DOMAIN entries
        BY <3>1 DEF Memories!Touched
      <4> QED
        BY <3>1, <4>1, <4>2, <4>3
    <3>2. CASE entries' = Memories!Without(i)
      BY <3>2 DEF Memories!Without
    <3> QED
      BY <1>2, <3>1, <3>2 DEF Memories!Get, MemoryBegun, Memories!BeginUpdate, Memories!Delete
  <2>2. DOMAIN eOp' = Client /\ mixed' \subseteq MemoryId
    <3>1. CASE MemoryBegun(c, i)
      BY <3>1 DEF MemoryBegun, Memories!BeginUpdate
    <3>2. CASE Memories!Get(c, i) \/ Memories!Delete(c, i)
      BY <3>2 DEF Memories!Get, Memories!Delete
    <3> QED
      BY <1>2, <3>1, <3>2
  <2>4. touched' \in [MemoryId -> Nat]
    <3>1. [touched EXCEPT ![i] = @ + 1] \in [MemoryId -> Nat]
      OBVIOUS
    <3>2. touched' = [touched EXCEPT ![i] = @ + 1] \/ touched' = touched
      BY <1>2 DEF Memories!Get, MemoryBegun, Memories!BeginUpdate, Memories!Delete
    <3> QED
      BY <3>1, <3>2
  <2>3. UNCHANGED <<eNow, eUsed, raced>>
    BY <1>2 DEF Memories!Get, MemoryBegun, Memories!BeginUpdate, Memories!Delete
  <2>5. eGiven' \in [MemoryId -> [Memories!Fields -> Client \cup {"new"}]]
    <3>1. CASE UNCHANGED eGiven
      BY <3>1
    <3>2. ASSUME NEW fields \in SUBSET Memories!Fields,
                 eGiven' = [eGiven EXCEPT ![i] = [f \in Memories!Fields |-> IF f \in fields THEN c ELSE @[f]]]
          PROVE  eGiven' \in [MemoryId -> [Memories!Fields -> Client \cup {"new"}]]
      <4>1. [f \in Memories!Fields |-> IF f \in fields THEN c ELSE eGiven[i][f]] \in [Memories!Fields -> Client \cup {"new"}]
        OBVIOUS
      <4> QED
        BY <3>2, <4>1
    <3> QED
      BY <1>2, <3>1, <3>2 DEF Memories!Get, MemoryBegun, Memories!BeginUpdate, Memories!Delete
  <2> QED
    BY <2>1, <2>2, <2>3, <2>4, <2>5
<1>3. ASSUME NEW c \in Client, (\E field \in Memories!Fields : Memories!SetField(c, field))
                               \/ Memories!Update(c) \/ Memories!Cleanup(c)
      PROVE  MemoryTyped'
  <2>1. \A j \in DOMAIN entries' : j \in DOMAIN entries /\ entries'[j] \in MemoryEntry
    BY <1>3 DEF Memories!SetField, Memories!Update, Memories!Stored, Memories!Cleanup, Memories!Fields
  <2>2. DOMAIN eOp' = Client /\ UNCHANGED <<eNow, eUsed, touched, eGiven, raced, mixed>>
    BY <1>3 DEF Memories!SetField, Memories!Update, Memories!Stored, Memories!Cleanup
  <2> QED
    BY <2>1, <2>2
<1>4. ASSUME NEW c \in Client, Memories!Search(c) PROVE MemoryTyped'
  <2>1. \A j \in DOMAIN entries' : j \in DOMAIN entries /\ entries'[j] \in MemoryEntry
    <3>1. \A j \in DOMAIN entries : entries'[j] =
            IF j \in DOMAIN eOp[c].read THEN [entries[j] EXCEPT !.access = eOp[c].read[j] + 1] ELSE entries[j]
      BY <1>4 DEF Memories!Search
    <3>2. \A j \in DOMAIN eOp[c].read : eOp[c].read[j] \in Nat
      BY <1>4 DEF Memories!Search, ReadsKept, Searches
    <3>3. DOMAIN entries' = DOMAIN entries
      BY <1>4 DEF Memories!Search
    <3> QED
      BY <3>1, <3>2, <3>3
  <2>2. DOMAIN eOp' = Client /\ touched' \in [MemoryId -> Nat] /\ UNCHANGED <<eNow, eUsed, eGiven, raced, mixed>>
    BY <1>4 DEF Memories!Search
  <2> QED
    BY <2>1, <2>2
<1>5. ASSUME NEW c \in Client, NEW req \in MemoryReq, Memories!BeginSearch(c, req) PROVE MemoryTyped'
  <2>1. raced' \subseteq MemoryId
    BY <1>5 DEF Memories!BeginSearch, Memories!Matching
  <2> QED
    BY <1>5, <2>1 DEF Memories!BeginSearch
<1>6. CASE Memories!Tick
  BY <1>6 DEF Memories!Tick
<1> QED
  BY <1>1, <1>2, <1>3, <1>4, <1>5, <1>6 DEF Memories!Next, MemoryReq, MemoryBegun, Memories!Request

\* An id that was not given was not handed out.
LEMMA MemoryFreshKept == ASSUME MemoryInv, Memories!Next PROVE MemoryFresh'
<1> USE DEF MemoryInv
<1>1. CASE \E c \in Client, a \in MemoryAgent, ttl \in TTL, grade \in Importance : Memories!Create(c, a, ttl, grade)
  <2>1. eUsed \subseteq eUsed' /\ UNCHANGED <<touched, eGiven>>
    BY <1>1 DEF Memories!Create
  <2> QED
    BY <2>1 DEF MemoryFresh
<1>2. ASSUME NEW c \in Client, NEW i \in MemoryId, Memories!Get(c, i) \/ MemoryBegun(c, i) \/ Memories!Delete(c, i)
      PROVE  MemoryFresh'
  <2>1. i \in DOMAIN entries /\ UNCHANGED eUsed /\ (touched' = [touched EXCEPT ![i] = @ + 1] \/ touched' = touched)
        /\ \A j \in MemoryId \ {i} : eGiven'[j] = eGiven[j]
    BY <1>2 DEF Memories!Get, MemoryBegun, Memories!BeginUpdate, Memories!Delete, MemoryTyped
  <2> QED
    BY <2>1 DEF MemoryFresh, MemoryTyped
<1>3. CASE \E c \in Client : (\E field \in Memories!Fields : Memories!SetField(c, field))
                             \/ Memories!Update(c) \/ Memories!Cleanup(c)
  BY <1>3 DEF MemoryFresh, Memories!SetField, Memories!Update, Memories!Stored, Memories!Cleanup
<1>4. ASSUME NEW c \in Client, Memories!Search(c) PROVE MemoryFresh'
  <2>1. UNCHANGED <<eUsed, eGiven>> /\ \A j \in MemoryId : touched'[j] = IF j \in DOMAIN eOp[c].read THEN touched[j] + 1 ELSE touched[j]
    BY <1>4 DEF Memories!Search
  <2>2. DOMAIN eOp[c].read \subseteq eUsed
    BY <1>4, MemorySearches DEF Memories!Search, Searches, MemoryTyped
  <2> QED
    BY <2>1, <2>2 DEF MemoryFresh
<1>5. CASE (\E c \in Client, req \in MemoryReq : Memories!BeginSearch(c, req)) \/ Memories!Tick
  BY <1>5 DEF MemoryFresh, Memories!BeginSearch, Memories!Tick
<1> QED
  BY <1>1, <1>2, <1>3, <1>4, <1>5 DEF Memories!Next, MemoryReq, MemoryBegun, Memories!Request

-----------------------------------------------------------------------------
\* No search is under way while a writer has the lock.
LEMMA MemoryLocked == ASSUME ~Memories!Locked, NEW c \in Client PROVE ~Searches(c)
BY DEF Memories!Locked, Memories!Searching, Searches

\* What the calls are, which ids are written to and read.
CallsKept == MemoryCalls /\ ReadsKept /\ WritersKept /\ Memories!AccessExact /\ Memories!UpdateWhole

\* UpdateWhole, with the calls it speaks of named as here.
LEMMA MemoryWhole ==
  Memories!UpdateWhole <=>
    \A i \in DOMAIN entries :
      \/ i \in mixed \/ \E c \in Client : Updates(c) /\ eOp[c].id = i /\ eOp[c].left # {}
      \/ \A f \in Memories!Fields : entries[i][f] = eGiven[i][f]
BY DEF Memories!UpdateWhole, Memories!Writers, Updates

LEMMA MemoryCreated ==
  ASSUME MemoryInv, NEW c \in Client, NEW a \in MemoryAgent, NEW ttl \in TTL, NEW grade \in Importance,
         Memories!Create(c, a, ttl, grade)
  PROVE  CallsKept'
<1> USE DEF MemoryInv
<1>1. PICK i \in MemoryId \ eUsed : eUsed' = eUsed \cup {i} /\ DOMAIN entries' = DOMAIN entries \cup {i}
        /\ (\A j \in DOMAIN entries : entries'[j] = entries[j])
        /\ (i \notin DOMAIN entries => entries'[i].access = 0 /\ \A f \in Memories!Fields : entries'[i][f] = "new")
  BY DEF Memories!Create, Memories!Fields
<1>2. UNCHANGED <<eOp, touched, eGiven, raced, mixed>> /\ \A d \in Client : ~Searches(d)
  BY MemoryLocked DEF Memories!Create
<1>3. i \notin DOMAIN entries
  BY <1>1 DEF MemoryTyped
<1>4. MemoryCalls' /\ ReadsKept'
  BY <1>1, <1>2 DEF MemoryCalls, ReadsKept, Updates, Searches
<1>5. WritersKept'
  <2>1. \A d \in Client : Updates(d)' <=> Updates(d)
    BY <1>2 DEF Updates
  <2>2. SUFFICES ASSUME NEW d \in Client, Updates(d), eOp[d].id \notin mixed PROVE
          /\ \A e \in Client \ {d} : Updates(e) => eOp[e].id # eOp[d].id
          /\ eOp[d].id \in DOMAIN entries' => Missing(d)'
    BY <1>2, <2>1 DEF WritersKept
  <2>3. eOp[d].id \in eUsed
    BY <2>2, MemoryUpdates
  <2>4. eOp[d].id \in DOMAIN entries' => eOp[d].id \in DOMAIN entries /\ entries'[eOp[d].id] = entries[eOp[d].id]
    BY <1>1, <2>3
  <2> QED
    BY <1>2, <2>2, <2>4 DEF WritersKept, Missing
<1>6. Memories!AccessExact'
  <2>0. touched[i] = 0
    BY <1>1 DEF MemoryFresh
  <2>1. SUFFICES ASSUME NEW j \in DOMAIN entries' PROVE
          entries'[j].access <= touched[j] /\ (j \notin raced => entries'[j].access = touched[j])
    BY <1>2 DEF Memories!AccessExact
  <2> QED
    BY <1>1, <1>3, <2>0 DEF Memories!AccessExact, MemoryTyped
<1>7. Memories!UpdateWhole'
  <2>1. \A f \in Memories!Fields : entries'[i][f] = eGiven[i][f]
    BY <1>1, <1>3 DEF MemoryFresh
  <2> QED
    BY <1>1, <1>2, <2>1 DEF Memories!UpdateWhole, Memories!Writers
<1> QED
  BY <1>4, <1>5, <1>6, <1>7 DEF CallsKept

\* Entries go, or come to be read once more, while no search is under way.
LEMMA MemoryRemoved ==
  ASSUME MemoryInv, ~Memories!Locked, DOMAIN entries' \subseteq DOMAIN entries,
         \A j \in DOMAIN entries' : entries'[j] = entries[j],
         UNCHANGED <<eOp, eUsed, touched, eGiven, raced, mixed>>
  PROVE  CallsKept'
<1> USE DEF MemoryInv
<1>1. \A d \in Client : ~Searches(d) /\ (Searches(d)' <=> Searches(d)) /\ (Updates(d)' <=> Updates(d))
  BY MemoryLocked DEF Searches, Updates
<1>2. MemoryCalls' /\ ReadsKept'
  BY <1>1 DEF MemoryCalls, ReadsKept
<1>3. WritersKept'
  BY <1>1 DEF WritersKept, Missing
<1>4. Memories!AccessExact' /\ Memories!UpdateWhole'
  BY DEF Memories!AccessExact, Memories!UpdateWhole, Memories!Writers
<1> QED
  BY <1>2, <1>3, <1>4 DEF CallsKept

LEMMA MemoryTouched ==
  ASSUME MemoryInv, NEW c \in Client, NEW i \in MemoryId, Memories!Get(c, i) \/ MemoryBegun(c, i),
         entries' = Memories!Touched(i)
  PROVE  /\ ~Memories!Locked /\ i \in DOMAIN entries /\ DOMAIN entries' = DOMAIN entries
         /\ \A j \in DOMAIN entries, f \in Memories!Fields : entries'[j][f] = entries[j][f]
         /\ \A j \in DOMAIN entries : entries'[j].access = IF j = i THEN entries[j].access + 1 ELSE entries[j].access
<1>1. ~Memories!Locked /\ i \in DOMAIN entries
  BY DEF Memories!Get, MemoryBegun, Memories!BeginUpdate
<1>2. \A j \in DOMAIN entries : entries'[j] = IF j = i THEN [entries[j] EXCEPT !.access = @ + 1] ELSE entries[j]
  BY DEF Memories!Touched
<1>3. \A j \in DOMAIN entries : entries[j] \in MemoryEntry
  BY DEF MemoryInv, MemoryTyped
<1>4. DOMAIN entries' = DOMAIN entries
  BY DEF Memories!Touched
<1> QED
  BY <1>1, <1>2, <1>3, <1>4 DEF MemoryEntry, Memories!Fields

\* A count goes up with its returns.
LEMMA MemoryCounted ==
  ASSUME MemoryInv, NEW c \in Client, NEW i \in MemoryId, Memories!Get(c, i) \/ MemoryBegun(c, i),
         entries' = Memories!Touched(i), touched' = [touched EXCEPT ![i] = @ + 1], raced' = raced
  PROVE  Memories!AccessExact'
<1>1. \A j \in MemoryId : touched'[j] = IF j = i THEN touched[j] + 1 ELSE touched[j]
  BY DEF MemoryInv, MemoryTyped
<1>2. \A j \in DOMAIN entries : j \in MemoryId /\ entries[j].access \in Nat /\ touched[j] \in Nat
  BY DEF MemoryInv, MemoryTyped, MemoryEntry
<1>3. \A j \in DOMAIN entries : entries[j].access <= touched[j] /\ (j \notin raced => entries[j].access = touched[j])
  BY DEF MemoryInv, Memories!AccessExact
<1>4. SUFFICES ASSUME NEW j \in DOMAIN entries'
               PROVE  entries'[j].access <= touched'[j] /\ (j \notin raced => entries'[j].access = touched'[j])
  BY DEF Memories!AccessExact
<1>5. j \in DOMAIN entries /\ entries'[j].access = IF j = i THEN entries[j].access + 1 ELSE entries[j].access
  BY MemoryTouched
<1> QED
  BY <1>1, <1>2, <1>3, <1>5

LEMMA MemoryGot ==
  ASSUME MemoryInv, NEW c \in Client, NEW i \in MemoryId, Memories!Get(c, i)
  PROVE  CallsKept'
<1>1. UNCHANGED <<eOp, eUsed, eGiven, raced, mixed>> /\ ~Memories!Locked
  BY DEF Memories!Get
<1>2. CASE entries' = Memories!Without(i) /\ UNCHANGED touched
  BY <1>1, <1>2, MemoryRemoved DEF Memories!Without
<1>3. CASE entries' = Memories!Touched(i) /\ touched' = [touched EXCEPT ![i] = @ + 1]
  <2>1. Memories!AccessExact'
    BY <1>1, <1>3, MemoryCounted
  <2>2. \A d \in Client : ~Searches(d) /\ (Searches(d)' <=> Searches(d)) /\ (Updates(d)' <=> Updates(d))
    BY <1>1, MemoryLocked DEF Searches, Updates
  <2>3. DOMAIN entries' = DOMAIN entries /\
        \A j \in DOMAIN entries, f \in Memories!Fields : entries'[j][f] = entries[j][f]
    BY <1>3, MemoryTouched
  <2>4. MemoryCalls' /\ ReadsKept'
    BY <1>1, <2>2, <2>3 DEF MemoryInv, MemoryCalls, ReadsKept
  <2>5. WritersKept'
    BY <1>1, <2>2, <2>3 DEF MemoryInv, WritersKept, Missing
  <2>6. Memories!UpdateWhole'
    BY <1>1, <2>3 DEF MemoryInv, Memories!UpdateWhole, Memories!Writers
  <2> QED
    BY <2>1, <2>4, <2>5, <2>6 DEF CallsKept
<1> QED
  BY <1>2, <1>3 DEF Memories!Get

LEMMA MemoryUpdateBegun ==
  ASSUME MemoryInv, NEW c \in Client, NEW i \in MemoryId, NEW fields \in SUBSET Memories!Fields,
         Memories!BeginUpdate(c, i, fields)
  PROVE  CallsKept'
<1>0. MemoryBegun(c, i)
  BY DEF MemoryBegun
<1>1. UNCHANGED <<eUsed, raced>> /\ ~Memories!Locked /\ entries' = Memories!Touched(i)
      /\ touched' = [touched EXCEPT ![i] = @ + 1]
      /\ eOp' = [eOp EXCEPT ![c] = [call |-> "update", id |-> i, left |-> fields]] /\ eOp[c] = [call |-> "idle"]
      /\ eGiven' = [eGiven EXCEPT ![i] = [f \in Memories!Fields |-> IF f \in fields THEN c ELSE @[f]]]
      /\ mixed' = IF \E d \in Client : Updates(d) /\ eOp[d].id = i THEN mixed \cup {i} ELSE mixed
  BY DEF Memories!BeginUpdate, Memories!Idle, Updates, Memories!Writers
<1>2. Memories!AccessExact'
  BY <1>0, <1>1, MemoryCounted
<1>3. /\ eOp'[c] = [call |-> "update", id |-> i, left |-> fields] /\ eOp'[c].call = "update"
      /\ eOp'[c].id = i /\ eOp'[c].left = fields
      /\ \A d \in Client \ {c} : eOp'[d] = eOp[d]
  BY <1>1 DEF MemoryInv, MemoryTyped
<1>4. /\ \A d \in Client : ~Searches(d) /\ ~Searches(d)'
      /\ \A d \in Client \ {c} : Updates(d)' <=> Updates(d)
      /\ Updates(c)' /\ ~Updates(c)
  BY <1>1, <1>3, MemoryLocked DEF Searches, Updates
<1>5. i \in DOMAIN entries /\ DOMAIN entries' = DOMAIN entries /\
      \A j \in DOMAIN entries, f \in Memories!Fields : entries'[j][f] = entries[j][f]
  BY <1>0, <1>1, MemoryTouched
<1>6. i \in eUsed
  BY <1>5 DEF MemoryInv, MemoryTyped
<1>7. MemoryCalls' /\ ReadsKept'
  BY <1>1, <1>3, <1>4, <1>6 DEF MemoryInv, MemoryCalls, ReadsKept
<1>10. /\ \A f \in Memories!Fields : eGiven'[i][f] = IF f \in fields THEN c ELSE eGiven[i][f]
       /\ \A j \in MemoryId \ {i} : eGiven'[j] = eGiven[j]
  BY <1>1 DEF MemoryInv, MemoryTyped
<1>11. \A j \in DOMAIN entries : j \in MemoryId
  BY DEF MemoryInv, MemoryTyped
<1>8. WritersKept'
  <2>1. SUFFICES ASSUME NEW d \in Client, Updates(d)', eOp'[d].id \notin mixed' PROVE
          /\ \A e \in Client \ {d} : Updates(e)' => eOp'[e].id # eOp'[d].id
          /\ eOp'[d].id \in DOMAIN entries' => Missing(d)'
    BY DEF WritersKept
  <2>2. CASE d = c
    <3>1. i \notin mixed /\ \A e \in Client : Updates(e) => eOp[e].id # i
      BY <2>1, <2>2, <1>1, <1>3
    <3>2. \A f \in Memories!Fields : entries[i][f] = eGiven[i][f]
      BY <3>1, <1>5, MemoryWhole DEF MemoryInv
    <3>3. Missing(c)'
      BY <3>2, <1>3, <1>5, <1>10 DEF Missing
    <3> QED
      BY <2>2, <3>1, <3>3, <1>3, <1>4
  <2>3. CASE d # c
    <3>1. eOp[d].id \notin mixed /\ eOp[d].id # i /\ Updates(d) /\ eOp'[d] = eOp[d]
      BY <2>1, <2>3, <1>1, <1>3, <1>4
    <3>2. \A e \in Client \ {d} : Updates(e) => eOp[e].id # eOp[d].id
      BY <3>1 DEF MemoryInv, WritersKept
    <3>3. eOp[d].id \in DOMAIN entries => Missing(d)
      BY <3>1 DEF MemoryInv, WritersKept
    <3>4. eOp[d].id \in DOMAIN entries => Missing(d)'
      BY <3>1, <3>3, <1>5, <1>10, <1>11 DEF Missing
    <3> QED
      BY <3>1, <3>2, <3>4, <1>3, <1>4, <1>5
  <2> QED
    BY <2>2, <2>3
<1>9. Memories!UpdateWhole'
  <2>1. SUFFICES ASSUME NEW j \in DOMAIN entries, j \notin mixed',
                        \A d \in Client : Updates(d)' /\ eOp'[d].id = j => eOp'[d].left = {}
                 PROVE  \A f \in Memories!Fields : entries'[j][f] = eGiven'[j][f]
    BY <1>5 DEF Memories!UpdateWhole, Memories!Writers, Updates
  <2>2. j \notin mixed
    BY <2>1, <1>1
  <2>3. \A d \in Client : Updates(d) /\ eOp[d].id = j => eOp[d].left = {}
    BY <2>1, <1>3, <1>4
  <2>4. \A f \in Memories!Fields : entries[j][f] = eGiven[j][f]
    BY <2>2, <2>3, MemoryWhole DEF MemoryInv
  <2>5. j = i => fields = {}
    BY <2>1, <1>3, <1>4
  <2> QED
    BY <2>4, <2>5, <1>5, <1>10, <1>11
<1> QED
  BY <1>2, <1>7, <1>8, <1>9 DEF CallsKept

\* One field of an entry is written, if it is there.
LEMMA MemoryFieldSet ==
  ASSUME MemoryInv, NEW c \in Client, NEW field \in Memories!Fields, Memories!SetField(c, field)
  PROVE  CallsKept'
<1> DEFINE i == eOp[c].id
<1>1. UNCHANGED <<eUsed, touched, eGiven, raced, mixed>> /\ Updates(c) /\ field \in eOp[c].left
      /\ eOp' = [eOp EXCEPT ![c].left = @ \ {field}]
      /\ entries' = IF i \in DOMAIN entries THEN [entries EXCEPT ![i][field] = c] ELSE entries
  BY DEF Memories!SetField, Updates
<1>2. i \in eUsed /\ eOp[c] = [call |-> "update", id |-> i, left |-> eOp[c].left] /\ ~Searches(c)
  BY <1>1, MemoryUpdates DEF MemoryInv
<1>3. /\ eOp'[c].call = "update" /\ eOp'[c].id = i /\ eOp'[c].left = eOp[c].left \ {field}
      /\ eOp'[c] = [call |-> "update", id |-> i, left |-> eOp'[c].left]
      /\ \A d \in Client \ {c} : eOp'[d] = eOp[d]
  <2>1. /\ eOp'[c] = [eOp[c] EXCEPT !.left = @ \ {field}]
        /\ \A d \in Client \ {c} : eOp'[d] = eOp[d]
    BY <1>1 DEF MemoryInv, MemoryTyped
  <2>2. [eOp[c] EXCEPT !.left = @ \ {field}] = [call |-> "update", id |-> i, left |-> eOp[c].left \ {field}]
    BY <1>2
  <2>3. eOp'[c] = [call |-> "update", id |-> i, left |-> eOp[c].left \ {field}]
    BY <2>1, <2>2
  <2> HIDE DEF i
  <2> QED
    BY <2>1, <2>3
<1>4. /\ \A d \in Client : (Searches(d)' <=> Searches(d)) /\ (Updates(d)' <=> Updates(d))
      /\ ~Searches(c)
  BY <1>1, <1>2, <1>3 DEF Searches, Updates
<1>5. /\ DOMAIN entries' = DOMAIN entries
      /\ \A j \in DOMAIN entries : entries'[j].access = entries[j].access
      /\ \A j \in DOMAIN entries : j # i => entries'[j] = entries[j]
      /\ i \in DOMAIN entries => \A f \in Memories!Fields : entries'[i][f] = IF f = field THEN c ELSE entries[i][f]
  <2>1. CASE i \notin DOMAIN entries
    BY <1>1, <2>1
  <2>2. CASE i \in DOMAIN entries
    <3>1. entries[i] \in MemoryEntry
      BY <2>2 DEF MemoryInv, MemoryTyped
    <3>2. /\ DOMAIN entries' = DOMAIN entries /\ entries'[i] = [entries[i] EXCEPT ![field] = c]
          /\ \A j \in DOMAIN entries : j # i => entries'[j] = entries[j]
      BY <1>1, <2>2
    <3>3. CASE field = "content"
      <4>1. /\ [entries[i] EXCEPT !.content = c].content = c /\ [entries[i] EXCEPT !.content = c].summary = entries[i].summary
            /\ [entries[i] EXCEPT !.content = c].access = entries[i].access
        BY <3>1 DEF MemoryEntry
      <4> QED
        BY <3>2, <3>3, <4>1 DEF Memories!Fields
    <3>4. CASE field = "summary"
      <4>1. /\ [entries[i] EXCEPT !.summary = c].summary = c /\ [entries[i] EXCEPT !.summary = c].content = entries[i].content
            /\ [entries[i] EXCEPT !.summary = c].access = entries[i].access
        BY <3>1 DEF MemoryEntry
      <4> QED
        BY <3>2, <3>4, <4>1 DEF Memories!Fields
    <3> QED
      BY <3>3, <3>4 DEF Memories!Fields
  <2> QED
    BY <2>1, <2>2
<1> HIDE DEF i
<1>6. MemoryCalls'
  <2>1. Updates(c)' /\ eOp'[c] = [call |-> "update", id |-> eOp'[c].id, left |-> eOp'[c].left] /\ eOp'[c].id \in eUsed'
    <3>1. eOp'[c].id = i
      BY <1>3
    <3>2. i \in eUsed' /\ Updates(c)'
      BY <1>1, <1>2, <1>4
    <3> QED
      BY <1>3, <3>1, <3>2
  <2>2. ASSUME NEW d \in Client \ {c}
        PROVE  \/ eOp'[d].call = "idle"
               \/ Updates(d)' /\ eOp'[d] = [call |-> "update", id |-> eOp'[d].id, left |-> eOp'[d].left] /\ eOp'[d].id \in eUsed'
               \/ Searches(d)' /\ DOMAIN eOp'[d].read \subseteq DOMAIN entries'
    <3>1. eOp'[d] = eOp[d] /\ (Searches(d)' <=> Searches(d)) /\ (Updates(d)' <=> Updates(d))
      BY <1>3, <1>4
    <3> QED
      BY <3>1, <1>1, <1>5 DEF MemoryInv, MemoryCalls
  <2> QED
    BY <2>1, <2>2 DEF MemoryCalls
<1>7. ReadsKept'
  <2>1. \A d \in Client : Searches(d) => d # c /\ eOp'[d] = eOp[d]
    BY <1>3, <1>4
  <2>2. \A d \in Client : Searches(d) => DOMAIN eOp[d].read \subseteq DOMAIN entries
    BY MemorySearches DEF MemoryInv
  <2> QED
    BY <1>1, <1>4, <1>5, <2>1, <2>2 DEF MemoryInv, ReadsKept
<1>8. WritersKept'
  <2>1. SUFFICES ASSUME NEW d \in Client, Updates(d)', eOp'[d].id \notin mixed' PROVE
          /\ \A e \in Client \ {d} : Updates(e)' => eOp'[e].id # eOp'[d].id
          /\ eOp'[d].id \in DOMAIN entries' => Missing(d)'
    BY DEF WritersKept
  <2>2. Updates(d) /\ eOp[d].id \notin mixed /\ \A e \in Client : eOp'[e].id = eOp[e].id
    BY <2>1, <1>1, <1>3, <1>4 DEF i
  <2>3. \A e \in Client \ {d} : Updates(e) => eOp[e].id # eOp[d].id
    BY <2>2 DEF MemoryInv, WritersKept
  <2>4. eOp[d].id \in DOMAIN entries => Missing(d)
    BY <2>2 DEF MemoryInv, WritersKept
  <2>5. CASE d = c
    <3>1. i \in DOMAIN entries => Missing(c)'
      BY <2>4, <2>5, <1>1, <1>3, <1>5 DEF Missing, i
    <3> QED
      BY <2>2, <2>3, <2>5, <3>1, <1>3, <1>4, <1>5
  <2>6. CASE d # c
    <3>1. eOp[d].id # i /\ eOp'[d] = eOp[d]
      BY <2>3, <2>6, <1>1, <1>3 DEF i
    <3>2. eOp[d].id \in DOMAIN entries => Missing(d)'
      BY <2>4, <3>1, <1>1, <1>5 DEF Missing
    <3> QED
      BY <2>2, <2>3, <2>6, <3>1, <3>2, <1>4, <1>5
  <2> QED
    BY <2>5, <2>6
<1>9. Memories!AccessExact'
  BY <1>1, <1>5 DEF MemoryInv, Memories!AccessExact
<1>10. Memories!UpdateWhole'
  <2>1. SUFFICES ASSUME NEW j \in DOMAIN entries, j \notin mixed,
                        \A d \in Client : Updates(d)' /\ eOp'[d].id = j => eOp'[d].left = {}
                 PROVE  \A f \in Memories!Fields : entries'[j][f] = eGiven[j][f]
    BY <1>1, <1>5 DEF Memories!UpdateWhole, Memories!Writers, Updates
  <2>2. CASE j = i
    <3>1. Missing(c) /\ eOp[c].left = {field}
      BY <2>1, <2>2, <1>1, <1>3, <1>4 DEF MemoryInv, WritersKept, i
    <3> QED
      BY <3>1, <2>2, <1>5 DEF Missing, i
  <2>3. CASE j # i
    <3>1. \A d \in Client : Updates(d) /\ eOp[d].id = j => eOp[d].left = {}
      BY <2>1, <2>3, <1>3, <1>4 DEF i
    <3> QED
      BY <3>1, <2>1, <2>3, <1>5, MemoryWhole DEF MemoryInv
  <2> QED
    BY <2>2, <2>3
<1> QED
  BY <1>6, <1>7, <1>8, <1>9, <1>10 DEF CallsKept

LEMMA MemoryUpdateEnds ==
  ASSUME MemoryInv, NEW c \in Client, Memories!Update(c) PROVE CallsKept'
<1>1. UNCHANGED <<eUsed, entries, touched, eGiven, raced, mixed>> /\ ~Memories!Locked /\ Updates(c) /\ eOp[c].left = {}
      /\ eOp' = [eOp EXCEPT ![c] = [call |-> "idle"]]
  BY DEF Memories!Update, Memories!Stored, Memories!Idle, Updates
<1>2. eOp'[c] = [call |-> "idle"] /\ eOp'[c].call = "idle" /\ \A d \in Client \ {c} : eOp'[d] = eOp[d]
  BY <1>1 DEF MemoryInv, MemoryTyped
<1>3. /\ \A d \in Client : ~Searches(d) /\ ~Searches(d)'
      /\ \A d \in Client \ {c} : Updates(d)' <=> Updates(d)
      /\ ~Updates(c)'
  BY <1>1, <1>2, MemoryLocked DEF Searches, Updates
<1>4. MemoryCalls' /\ ReadsKept'
  BY <1>1, <1>2, <1>3 DEF MemoryInv, MemoryCalls, ReadsKept
<1>5. WritersKept'
  BY <1>1, <1>2, <1>3 DEF MemoryInv, WritersKept, Missing
<1>6. Memories!AccessExact'
  BY <1>1 DEF MemoryInv, Memories!AccessExact
<1>7. Memories!UpdateWhole'
  <2>1. \A i, d \in Client : Updates(d) /\ eOp[d].left # {} => d # c /\ Updates(d)' /\ eOp'[d] = eOp[d]
    BY <1>1, <1>2, <1>3
  <2> QED
    BY <1>1, <1>2, <1>3, MemoryWhole DEF MemoryInv, Memories!UpdateWhole, Memories!Writers, Updates
<1> QED
  BY <1>4, <1>5, <1>6, <1>7 DEF CallsKept

LEMMA MemorySearchBegun ==
  ASSUME MemoryInv, NEW c \in Client, NEW req \in MemoryReq, Memories!BeginSearch(c, req)
  PROVE  CallsKept'
<1> DEFINE ids == Memories!Matching(req)
<1>1. UNCHANGED <<entries, eUsed, touched, eGiven, mixed>> /\ eOp[c] = [call |-> "idle"]
      /\ eOp' = [eOp EXCEPT ![c] = [call |-> "search", req |-> req, read |-> [i \in ids |-> entries[i].access]]]
      /\ raced' = raced \cup (ids \cap UNION {DOMAIN eOp[d].read : d \in Memories!Searching})
  BY DEF Memories!BeginSearch, Memories!Idle
<1>2. ids \subseteq DOMAIN entries
  BY DEF Memories!Matching
<1> HIDE DEF ids
<1>3. /\ eOp'[c].call = "search" /\ eOp'[c].read = [i \in ids |-> entries[i].access]
      /\ \A d \in Client \ {c} : eOp'[d] = eOp[d]
  BY <1>1 DEF MemoryInv, MemoryTyped
<1>4. /\ DOMAIN eOp'[c].read = ids /\ \A i \in ids : eOp'[c].read[i] = entries[i].access
      /\ \A i : i \in raced => i \in raced'
      /\ \A i \in ids, d \in Client : Searches(d) /\ i \in DOMAIN eOp[d].read => i \in raced'
      /\ \A i : i \in raced' => (i \in raced \/ i \in ids)
  BY <1>1, <1>3 DEF Memories!Searching, Searches
<1>5. /\ \A d \in Client \ {c} : (Searches(d)' <=> Searches(d)) /\ (Updates(d)' <=> Updates(d))
      /\ ~Searches(c) /\ Searches(c)' /\ ~Updates(c) /\ ~Updates(c)'
  BY <1>1, <1>3 DEF Searches, Updates
<1>6. MemoryCalls'
  BY <1>1, <1>2, <1>3, <1>4, <1>5 DEF MemoryInv, MemoryCalls
<1>7. WritersKept'
  BY <1>1, <1>3, <1>5 DEF MemoryInv, WritersKept, Missing
<1>8. Memories!AccessExact' /\ Memories!UpdateWhole'
  <2>1. Memories!AccessExact'
    BY <1>1, <1>4 DEF MemoryInv, Memories!AccessExact
  <2>2. Memories!UpdateWhole'
    BY <1>1, <1>3, <1>5 DEF MemoryInv, Memories!UpdateWhole, Memories!Writers, Updates
  <2> QED
    BY <2>1, <2>2
<1>9. ReadsKept'
  <2>1. SUFFICES ASSUME NEW d \in Client, Searches(d)', NEW i \in DOMAIN eOp'[d].read PROVE
          /\ eOp'[d].read[i] \in Nat /\ eOp'[d].read[i] <= touched[i]
          /\ i \notin raced' => eOp'[d].read[i] = entries[i].access
          /\ \A e \in Client \ {d} : Searches(e)' /\ i \in DOMAIN eOp'[e].read => i \in raced'
    BY <1>1 DEF ReadsKept
  <2>2. CASE d = c
    <3>1. i \in ids /\ eOp'[d].read[i] = entries[i].access
      BY <2>1, <2>2, <1>4
    <3>2. entries[i].access \in Nat /\ entries[i].access <= touched[i]
      BY <3>1, <1>2 DEF MemoryInv, MemoryTyped, MemoryEntry, Memories!AccessExact
    <3>3. \A e \in Client \ {d} : Searches(e)' /\ i \in DOMAIN eOp'[e].read => i \in raced'
      BY <2>2, <3>1, <1>3, <1>4, <1>5
    <3> QED
      BY <3>1, <3>2, <3>3
  <2>3. CASE d # c
    <3>1. Searches(d) /\ i \in DOMAIN eOp[d].read /\ eOp'[d] = eOp[d]
      BY <2>1, <2>3, <1>3, <1>5
    <3>2. /\ eOp[d].read[i] \in Nat /\ eOp[d].read[i] <= touched[i]
          /\ i \notin raced => eOp[d].read[i] = entries[i].access
          /\ \A e \in Client \ {d} : Searches(e) /\ i \in DOMAIN eOp[e].read => i \in raced
      BY <3>1 DEF MemoryInv, ReadsKept
    <3>3. i \in DOMAIN eOp'[c].read => i \in raced'
      BY <3>1, <1>4
    <3> QED
      BY <3>1, <3>2, <3>3, <2>3, <1>3, <1>4, <1>5
  <2> QED
    BY <2>2, <2>3
<1> QED
  BY <1>6, <1>7, <1>8, <1>9 DEF CallsKept

LEMMA MemorySearched ==
  ASSUME MemoryInv, NEW c \in Client, Memories!Search(c) PROVE CallsKept'
<1> DEFINE ids == DOMAIN eOp[c].read
           read == eOp[c].read
<1>1. UNCHANGED <<eUsed, eGiven, raced, mixed>> /\ Searches(c) /\ eOp' = [eOp EXCEPT ![c] = [call |-> "idle"]]
      /\ entries' = [i \in DOMAIN entries |->
           IF i \in ids THEN [entries[i] EXCEPT !.access = read[i] + 1] ELSE entries[i]]
      /\ touched' = [i \in MemoryId |-> IF i \in ids THEN touched[i] + 1 ELSE touched[i]]
  BY DEF Memories!Search, Memories!Idle, Searches
<1>2. /\ ids \subseteq DOMAIN entries
      /\ \A i \in ids : read[i] \in Nat /\ read[i] <= touched[i] /\ (i \notin raced => read[i] = entries[i].access)
      /\ \A i \in ids, d \in Client \ {c} : Searches(d) /\ i \in DOMAIN eOp[d].read => i \in raced
  BY <1>1, MemorySearches DEF MemoryInv, ReadsKept
<1> HIDE DEF ids, read
<1>3. eOp'[c] = [call |-> "idle"] /\ eOp'[c].call = "idle" /\ \A d \in Client \ {c} : eOp'[d] = eOp[d]
  BY <1>1 DEF MemoryInv, MemoryTyped
<1>4. /\ \A d \in Client \ {c} : (Searches(d)' <=> Searches(d)) /\ (Updates(d)' <=> Updates(d))
      /\ ~Searches(c)' /\ ~Updates(c)' /\ ~Updates(c)
  BY <1>1, <1>3 DEF Searches, Updates
<1>5. /\ DOMAIN entries' = DOMAIN entries
      /\ \A i \in DOMAIN entries : (\A f \in Memories!Fields : entries'[i][f] = entries[i][f])
           /\ entries'[i].access = IF i \in ids THEN read[i] + 1 ELSE entries[i].access
  <2>1. \A i \in DOMAIN entries : entries[i] \in MemoryEntry
    BY DEF MemoryInv, MemoryTyped
  <2> QED
    BY <1>1, <2>1 DEF MemoryEntry, Memories!Fields
<1>6. \A i \in MemoryId : touched'[i] = IF i \in ids THEN touched[i] + 1 ELSE touched[i]
  BY <1>1
<1>7. \A i \in DOMAIN entries : i \in MemoryId /\ touched[i] \in Nat
  BY DEF MemoryInv, MemoryTyped
<1>8. MemoryCalls'
  BY <1>1, <1>3, <1>4, <1>5 DEF MemoryInv, MemoryCalls
<1>9. WritersKept'
  BY <1>1, <1>3, <1>4, <1>5 DEF MemoryInv, WritersKept, Missing
<1>10. Memories!UpdateWhole'
  BY <1>1, <1>3, <1>4, <1>5 DEF MemoryInv, Memories!UpdateWhole, Memories!Writers, Updates
<1>11. Memories!AccessExact'
  <2>1. SUFFICES ASSUME NEW i \in DOMAIN entries PROVE
          entries'[i].access <= touched'[i] /\ (i \notin raced => entries'[i].access = touched'[i])
    BY <1>1, <1>5 DEF Memories!AccessExact
  <2>2. entries[i].access <= touched[i] /\ (i \notin raced => entries[i].access = touched[i])
    BY DEF MemoryInv, Memories!AccessExact
  <2>3. CASE i \in ids
    BY <2>2, <2>3, <1>2, <1>5, <1>6, <1>7
  <2>4. CASE i \notin ids
    BY <2>2, <2>4, <1>5, <1>6, <1>7
  <2> QED
    BY <2>3, <2>4
<1>12. ReadsKept'
  <2>1. SUFFICES ASSUME NEW d \in Client, Searches(d)', NEW i \in DOMAIN eOp'[d].read PROVE
          /\ eOp'[d].read[i] \in Nat /\ eOp'[d].read[i] <= touched'[i]
          /\ i \notin raced => eOp'[d].read[i] = entries'[i].access
          /\ \A e \in Client \ {d} : Searches(e)' /\ i \in DOMAIN eOp'[e].read => i \in raced
    BY <1>1 DEF ReadsKept
  <2>2. d # c /\ Searches(d) /\ eOp'[d] = eOp[d] /\ i \in DOMAIN eOp[d].read
    BY <2>1, <1>3, <1>4
  <2>3. /\ eOp[d].read[i] \in Nat /\ eOp[d].read[i] <= touched[i]
        /\ i \notin raced => eOp[d].read[i] = entries[i].access
        /\ \A e \in Client \ {d} : Searches(e) /\ i \in DOMAIN eOp[e].read => i \in raced
    BY <2>2 DEF MemoryInv, ReadsKept
  <2>4. i \in DOMAIN entries
    BY <2>2, MemorySearches DEF MemoryInv
  <2>5. eOp'[d].read[i] <= touched'[i]
    BY <2>2, <2>3, <2>4, <1>6, <1>7
  <2>6. i \notin raced => i \notin ids
    BY <2>2, <1>2
  <2> QED
    BY <2>2, <2>3, <2>4, <2>5, <2>6, <1>3, <1>4, <1>5
  
<1> QED
  BY <1>8, <1>9, <1>10, <1>11, <1>12 DEF CallsKept

LEMMA MemoryStep == ASSUME MemoryInv, Memories!Next PROVE MemoryInv'
<1>1. CallsKept'
  <2>1. CASE \E c \in Client, a \in MemoryAgent, ttl \in TTL, grade \in Importance : Memories!Create(c, a, ttl, grade)
    BY <2>1, MemoryCreated
  <2>2. CASE \E c \in Client, i \in MemoryId : Memories!Get(c, i) \/ MemoryBegun(c, i)
    BY <2>2, MemoryGot, MemoryUpdateBegun DEF MemoryBegun
  <2>3. CASE \E c \in Client, i \in MemoryId : Memories!Delete(c, i)
    BY <2>3, MemoryRemoved DEF Memories!Delete, Memories!Without
  <2>4. CASE \E c \in Client : (\E field \in Memories!Fields : Memories!SetField(c, field))
    BY <2>4, MemoryFieldSet
  <2>5. CASE \E c \in Client : Memories!Update(c)
    BY <2>5, MemoryUpdateEnds
  <2>6. CASE \E c \in Client : Memories!Cleanup(c)
    BY <2>6, MemoryRemoved DEF Memories!Cleanup
  <2>7. CASE \E c \in Client : Memories!Search(c)
    BY <2>7, MemorySearched
  <2>8. CASE \E c \in Client, req \in MemoryReq : Memories!BeginSearch(c, req)
    BY <2>8, MemorySearchBegun
  <2>9. CASE Memories!Tick
    <3>1. UNCHANGED <<entries, eOp, eUsed, touched, eGiven, raced, mixed>>
      BY <2>9 DEF Memories!Tick
    <3> QED
      BY <3>1 DEF MemoryInv, CallsKept, MemoryCalls, ReadsKept, WritersKept, Missing, Updates, Searches,
                  Memories!AccessExact, Memories!UpdateWhole, Memories!Writers
  <2> QED
    BY <2>1, <2>2, <2>3, <2>4, <2>5, <2>6, <2>7, <2>8, <2>9 DEF Memories!Next, MemoryReq, MemoryBegun, Memories!Request
<1> QED
  BY <1>1, MemoryTypes, MemoryFreshKept DEF MemoryInv, CallsKept

-----------------------------------------------------------------------------
(* TemplateMarket: where no two calls have met on an id there is one          *)
(* (MarketAlone), and what it has copied, averaged or half written is so      *)
(* (MarketWhole, MarketRated, MarketCounted).                                *)
Market(of) == INSTANCE TemplateMarket WITH op <- tOp, used <- tUsed, Id <- of.id, Client <- of.client,
           Rating <- of.rating, Fields <- of.fields

MarketConstants(k) == k.id \subseteq Nat \ {0}
ASSUME MarketAssumption == MarketConstants(MarketOfTwo) /\ MarketConstants(MarketOfOne)

Handles(c, id) == tOp[c].call # "idle" /\ tOp[c].id = id
MarketAt(c, calls, id) == tOp[c].call \in calls /\ tOp[c].id = id
MarketCalls == {"updateName", "updateSteps", "publish", "list", "edit", "original", "fork", "count",
                "average", "rate", "recorded"}

MarketTyped(k) ==
  /\ DOMAIN tOp = k.client
  /\ \A c \in k.client :
       \/ tOp[c] = Market(k)!Idle
       \/ /\ {"call", "id"} \subseteq DOMAIN tOp[c] /\ tOp[c].call \in MarketCalls
          /\ IF tOp[c].call = "recorded" THEN tOp[c].id = 0 ELSE tOp[c].id \in tUsed
  /\ tUsed \subseteq k.id /\ DOMAIN templates \subseteq tUsed /\ DOMAIN listings \subseteq tUsed
  /\ DOMAIN reviews = k.id /\ DOMAIN installs = k.id
  /\ \A id \in DOMAIN templates : {"name", "steps", "public", "rating"} \subseteq DOMAIN templates[id]
  /\ \A id \in DOMAIN listings : {"version", "featured", "installs"} \subseteq DOMAIN listings[id]
  /\ \A c \in k.client :
       tOp[c].call \in {"edit", "original", "fork", "count"}
         => "copy" \in DOMAIN tOp[c] /\ {"version", "featured", "installs"} \subseteq DOMAIN tOp[c].copy
  /\ DOMAIN given = k.id
  /\ \A c \in k.client : tOp[c].call \in {"updateName", "updateSteps"} => "fields" \in DOMAIN tOp[c]
\* Where no two calls have met, a call is alone with its id.
MarketAlone(k) ==
  \A id : id \notin clashed => \A c, d \in k.client : Handles(c, id) /\ Handles(d, id) => c = d
\* The recorder holds one recording, and so does who stopped it.
MarketRecorder(k) ==
  /\ {"on", "name", "steps"} \subseteq DOMAIN recorder /\ recorder.name = recorder.steps
  /\ 0 \notin clashed => \A c \in k.client :
       /\ recorder.on => ~Handles(c, 0)
       /\ tOp[c].call = "recorded" => tOp[c].steps = recorder.name
\* A template is whole but for the one who is between its two fields.
Named(c, id) == IF "name" \in tOp[c].fields THEN c ELSE given[id].name
MarketWhole(k) ==
  \A id \in DOMAIN templates \ clashed :
    /\ (\A c \in k.client : ~MarketAt(c, {"updateSteps"}, id)) => templates[id].name = given[id].name
    /\ \A c \in k.client : MarketAt(c, {"updateSteps"}, id) => templates[id].name = Named(c, id)
    /\ \A c \in k.client : MarketAt(c, {"fork"}, id) => tOp[c].steps = templates[id].steps
    /\ templates[id].steps = given[id].steps
\* A rating is right but for the one who is about to set it.
MarketRated(k) ==
  /\ \A id \in k.id \ tUsed : reviews[id] = <<>>
  /\ \A id \in DOMAIN templates \ clashed :
       /\ reviews[id] # <<>> /\ (\A c \in k.client : ~MarketAt(c, {"average", "rate"}, id))
            => templates[id].rating = Market(k)!Averaged(id)
       /\ \A c \in k.client : MarketAt(c, {"rate"}, id) => tOp[c].rating = Market(k)!Averaged(id)
\* A listing, and each copy of it in hand, holds the number of installs.
MarketCounted(k) ==
  /\ \A id \in DOMAIN listings \ clashed : listings[id].installs = installs[id]
  /\ \A c \in k.client, id \in k.id \ clashed :
       MarketAt(c, {"edit", "original", "fork", "count"}, id) => tOp[c].copy.installs = installs[id]
MarketInv(k) ==
  MarketTyped(k) /\ MarketAlone(k) /\ MarketRecorder(k) /\ MarketWhole(k) /\ MarketRated(k) /\ MarketCounted(k)

LEMMA MarketIdle == ASSUME NEW k PROVE Market(k)!Idle.call = "idle"
BY DEF Market!Idle

LEMMA MarketOnIt ==
  ASSUME NEW k, MarketTyped(k), NEW id
  PROVE  Market(k)!OnIt(id) <=> \E d \in k.client : Handles(d, id)
BY MarketIdle DEF MarketTyped, Market!OnIt, Handles, MarketCalls

\* A call begins, moves on, or ends.
LEMMA MarketSet ==
  ASSUME NEW k, MarketTyped(k), NEW c \in k.client, NEW call, tOp' = [tOp EXCEPT ![c] = call]
  PROVE  DOMAIN tOp' = k.client /\ tOp'[c] = call /\ \A d \in k.client \ {c} : tOp'[d] = tOp[d]
BY DEF MarketTyped

LEMMA MarketMoves ==
  ASSUME NEW k, MarketTyped(k), NEW c \in k.client, tOp[c].call # "idle", NEW call, Market(k)!Go(c, call)
  PROVE  /\ DOMAIN tOp' = k.client /\ DOMAIN tOp'[c] = DOMAIN tOp[c] /\ tOp'[c].call = call
         /\ \A f \in DOMAIN tOp[c] \ {"call"} : tOp'[c][f] = tOp[c][f]
         /\ \A d \in k.client \ {c} : tOp'[d] = tOp[d]
BY MarketIdle DEF MarketTyped, Market!Go

LEMMA MarketCreate ==
  ASSUME NEW k, MarketConstants(k), MarketInv(k), NEW c \in k.client, NEW user, Market(k)!Create(c, user)
  PROVE  MarketInv(k)'
<1>0. MarketTyped(k) /\ Market(k)!Idle.call = "idle"
  BY MarketIdle DEF MarketInv
<1>3. PICK id \in k.id \ tUsed :
        /\ tUsed' = tUsed \cup {id} /\ DOMAIN templates' = DOMAIN templates \cup {id}
        /\ (\A j \in DOMAIN templates : templates'[j] = templates[j])
        /\ {"name", "steps", "public", "rating"} \subseteq DOMAIN templates'[id]
        /\ templates'[id].name = given'[id].name /\ templates'[id].steps = given'[id].steps
        /\ DOMAIN given' = k.id /\ (\A j \in k.id \ {id} : given'[j] = given[j])
        /\ UNCHANGED <<listings, reviews, recorder, tOp, installs, clashed>>
  BY <1>0 DEF Market!Create, MarketTyped, MarketConstants, Market!Fresh, Market!With, Market!Template
<1>4. MarketTyped(k)'
  BY <1>0, <1>3, MarketIdle DEF MarketTyped, MarketCalls, MarketConstants
<1>5. MarketAlone(k)'
  BY <1>0, <1>3 DEF MarketInv, MarketAlone, Handles
<1>6. MarketRecorder(k)'
  BY <1>0, <1>3 DEF MarketInv, MarketRecorder, Handles, MarketConstants, MarketTyped
<1>7. MarketWhole(k)'
  <2> SUFFICES ASSUME NEW j \in DOMAIN templates' \ clashed'
               PROVE  (/\ (\A d \in k.client : ~MarketAt(d, {"updateSteps"}, j)) => templates[j].name = given[j].name
                       /\ \A d \in k.client : MarketAt(d, {"updateSteps"}, j) => templates[j].name = Named(d, j)
                       /\ \A d \in k.client : MarketAt(d, {"fork"}, j) => tOp[d].steps = templates[j].steps
                       /\ templates[j].steps = given[j].steps)'
    BY DEF MarketWhole
  <2>1. ((\A d \in k.client : ~MarketAt(d, {"updateSteps"}, j)) => templates[j].name = given[j].name)'
    BY <1>0, <1>3 DEF MarketInv, MarketAlone, Handles, MarketAt, MarketTyped, MarketConstants, MarketWhole, Named
  <2>2. ASSUME NEW d \in k.client, MarketAt(d, {"updateSteps"}, j)' PROVE templates'[j].name = Named(d, j)'
    BY <1>0, <1>3, <2>2 DEF MarketInv, MarketAlone, Handles, MarketAt, MarketTyped, MarketConstants, MarketWhole, Named
  <2>3. ASSUME NEW d \in k.client, MarketAt(d, {"fork"}, j)' PROVE tOp'[d].steps = templates'[j].steps
    BY <1>0, <1>3, <2>3 DEF MarketInv, MarketAlone, Handles, MarketAt, MarketTyped, MarketConstants, MarketWhole, Named
  <2>4. (templates[j].steps = given[j].steps)'
    BY <1>0, <1>3 DEF MarketInv, MarketAlone, Handles, MarketAt, MarketTyped, MarketConstants, MarketWhole, Named
  <2> QED
    BY <2>1, <2>2, <2>3, <2>4
<1>8. MarketRated(k)'
  <2>1. \A j \in k.id \ tUsed' : reviews'[j] = <<>>
    BY <1>0, <1>3 DEF MarketInv, MarketRated, MarketTyped
  <2> SUFFICES ASSUME NEW j \in DOMAIN templates' \ clashed'
               PROVE  (/\ reviews[j] # <<>> /\ (\A d \in k.client : ~MarketAt(d, {"average", "rate"}, j))
                            => templates[j].rating = Market(k)!Averaged(j)
                       /\ \A d \in k.client : MarketAt(d, {"rate"}, j) => tOp[d].rating = Market(k)!Averaged(j))'
    BY <2>1 DEF MarketRated
  <2>a. Market(k)!Averaged(j)' = Market(k)!Averaged(j)
    BY <1>3 DEF Market!Averaged
  <2>2. (reviews[j] # <<>> /\ (\A d \in k.client : ~MarketAt(d, {"average", "rate"}, j))
           => templates[j].rating = Market(k)!Averaged(j))'
    BY <1>0, <1>3, <2>a, SMTT(30) DEF MarketInv, MarketAlone, Handles, MarketAt, MarketTyped, MarketConstants, MarketRated
  <2>3. ASSUME NEW d \in k.client, MarketAt(d, {"rate"}, j)' PROVE tOp'[d].rating = Market(k)!Averaged(j)'
    BY <1>0, <1>3, <2>3, <2>a, SMTT(30) DEF MarketInv, MarketAlone, Handles, MarketAt, MarketTyped, MarketConstants, MarketRated
  <2> QED
    BY <2>2, <2>3
<1>9. MarketCounted(k)'
  <2>1. \A j \in DOMAIN listings' \ clashed' : listings'[j].installs = installs'[j]
    BY <1>0, <1>3 DEF MarketInv, MarketAlone, Handles, MarketAt, MarketTyped, MarketConstants, MarketCounted
  <2>2. ASSUME NEW d \in k.client, NEW j \in k.id \ clashed', MarketAt(d, {"edit", "original", "fork", "count"}, j)'
        PROVE  tOp'[d].copy.installs = installs'[j]
    BY <1>0, <1>3, <2>2 DEF MarketInv, MarketAlone, Handles, MarketAt, MarketTyped, MarketConstants, MarketCounted
  <2> QED
    BY <2>1, <2>2 DEF MarketCounted
<1> QED
  BY <1>4, <1>5, <1>6, <1>7, <1>8, <1>9 DEF MarketInv

LEMMA MarketBeginUpdate ==
  ASSUME NEW k, MarketConstants(k), MarketInv(k), NEW c \in k.client, NEW id \in k.id, NEW fields, Market(k)!BeginUpdate(c, id, fields)
  PROVE  MarketInv(k)'
<1>0. MarketTyped(k) /\ Market(k)!Idle.call = "idle"
  BY MarketIdle DEF MarketInv
<1>1. tOp[c].call = "idle" /\ id \in tUsed
  BY <1>0 DEF Market!BeginUpdate, Market!Live, Market!Listed, MarketTyped
<1>2. /\ DOMAIN tOp' = k.client /\ {"call", "id"} \subseteq DOMAIN tOp'[c]
      /\ tOp'[c].call = "updateName" /\ tOp'[c].id = id /\ "fields" \in DOMAIN tOp'[c]
      /\ \A d \in k.client \ {c} : tOp'[d] = tOp[d]
  BY <1>0, MarketSet DEF Market!Begin, Market!BeginUpdate, MarketTyped
<1>3. /\ clashed \subseteq clashed' /\ (id \notin clashed' => \A d \in k.client : ~Handles(d, id))
      /\ (0 \notin clashed' <=> 0 \notin clashed)
      /\ UNCHANGED <<templates, listings, reviews, recorder, tUsed, installs, given>>
  BY <1>0, <1>1, MarketOnIt DEF Market!BeginUpdate, MarketTyped, MarketConstants, Market!Meet
<1>4. MarketTyped(k)'
  BY <1>1, <1>2, <1>0, <1>3, MarketIdle DEF MarketTyped, MarketCalls, MarketConstants
<1>5. MarketAlone(k)'
  BY <1>1, <1>2, <1>0, <1>3 DEF MarketInv, MarketAlone, Handles
<1>6. MarketRecorder(k)'
  BY <1>1, <1>2, <1>0, <1>3 DEF MarketInv, MarketRecorder, Handles, MarketConstants, MarketTyped
<1>7. MarketWhole(k)'
  <2> SUFFICES ASSUME NEW j \in DOMAIN templates' \ clashed'
               PROVE  (/\ (\A d \in k.client : ~MarketAt(d, {"updateSteps"}, j)) => templates[j].name = given[j].name
                       /\ \A d \in k.client : MarketAt(d, {"updateSteps"}, j) => templates[j].name = Named(d, j)
                       /\ \A d \in k.client : MarketAt(d, {"fork"}, j) => tOp[d].steps = templates[j].steps
                       /\ templates[j].steps = given[j].steps)'
    BY DEF MarketWhole
  <2>1. ((\A d \in k.client : ~MarketAt(d, {"updateSteps"}, j)) => templates[j].name = given[j].name)'
    BY <1>1, <1>2, <1>0, <1>3 DEF MarketInv, MarketAlone, Handles, MarketAt, MarketTyped, MarketConstants, MarketWhole, Named
  <2>2. ASSUME NEW d \in k.client, MarketAt(d, {"updateSteps"}, j)' PROVE templates'[j].name = Named(d, j)'
    BY <1>1, <1>2, <1>0, <1>3, <2>2 DEF MarketInv, MarketAlone, Handles, MarketAt, MarketTyped, MarketConstants, MarketWhole, Named
  <2>3. ASSUME NEW d \in k.client, MarketAt(d, {"fork"}, j)' PROVE tOp'[d].steps = templates'[j].steps
    BY <1>1, <1>2, <1>0, <1>3, <2>3 DEF MarketInv, MarketAlone, Handles, MarketAt, MarketTyped, MarketConstants, MarketWhole, Named
  <2>4. (templates[j].steps = given[j].steps)'
    BY <1>1, <1>2, <1>0, <1>3 DEF MarketInv, MarketAlone, Handles, MarketAt, MarketTyped, MarketConstants, MarketWhole, Named
  <2> QED
    BY <2>1, <2>2, <2>3, <2>4
<1>8. MarketRated(k)'
  <2>1. \A j \in k.id \ tUsed' : reviews'[j] = <<>>
    BY <1>1, <1>2, <1>0, <1>3 DEF MarketInv, MarketRated, MarketTyped
  <2> SUFFICES ASSUME NEW j \in DOMAIN templates' \ clashed'
               PROVE  (/\ reviews[j] # <<>> /\ (\A d \in k.client : ~MarketAt(d, {"average", "rate"}, j))
                            => templates[j].rating = Market(k)!Averaged(j)
                       /\ \A d \in k.client : MarketAt(d, {"rate"}, j) => tOp[d].rating = Market(k)!Averaged(j))'
    BY <2>1 DEF MarketRated
  <2>a. Market(k)!Averaged(j)' = Market(k)!Averaged(j)
    BY <1>3 DEF Market!Averaged
  <2>2. (reviews[j] # <<>> /\ (\A d \in k.client : ~MarketAt(d, {"average", "rate"}, j))
           => templates[j].rating = Market(k)!Averaged(j))'
    BY <1>1, <1>2, <1>0, <1>3, <2>a, SMTT(30) DEF MarketInv, MarketAlone, Handles, MarketAt, MarketTyped, MarketConstants, MarketRated
  <2>3. ASSUME NEW d \in k.client, MarketAt(d, {"rate"}, j)' PROVE tOp'[d].rating = Market(k)!Averaged(j)'
    BY <1>1, <1>2, <1>0, <1>3, <2>3, <2>a, SMTT(30) DEF MarketInv, MarketAlone, Handles, MarketAt, MarketTyped, MarketConstants, MarketRated
  <2> QED
    BY <2>2, <2>3
<1>9. MarketCounted(k)'
  <2>1. \A j \in DOMAIN listings' \ clashed' : listings'[j].installs = installs'[j]
    BY <1>1, <1>2, <1>0, <1>3 DEF MarketInv, MarketAlone, Handles, MarketAt, MarketTyped, MarketConstants, MarketCounted
  <2>2. ASSUME NEW d \in k.client, NEW j \in k.id \ clashed', MarketAt(d, {"edit", "original", "fork", "count"}, j)'
        PROVE  tOp'[d].copy.installs = installs'[j]
    BY <1>1, <1>2, <1>0, <1>3, <2>2 DEF MarketInv, MarketAlone, Handles, MarketAt, MarketTyped, MarketConstants, MarketCounted
  <2> QED
    BY <2>1, <2>2 DEF MarketCounted
<1> QED
  BY <1>4, <1>5, <1>6, <1>7, <1>8, <1>9 DEF MarketInv

LEMMA MarketUpdateName ==
  ASSUME NEW k, MarketConstants(k), MarketInv(k), NEW c \in k.client, Market(k)!UpdateName(c)
  PROVE  MarketInv(k)'
<1>0. MarketTyped(k) /\ Market(k)!Idle.call = "idle"
  BY MarketIdle DEF MarketInv
<1>1. PICK id \in tUsed : id = tOp[c].id /\ tOp[c].call = "updateName"
  BY <1>0 DEF Market!UpdateName, MarketTyped, MarketCalls
<1>2. /\ DOMAIN tOp' = k.client /\ {"call", "id"} \subseteq DOMAIN tOp'[c]
      /\ tOp'[c].call = "updateSteps" /\ tOp'[c].id = id
      /\ "fields" \in DOMAIN tOp'[c] /\ tOp'[c].fields = tOp[c].fields
      /\ \A d \in k.client \ {c} : tOp'[d] = tOp[d]
  BY <1>0, <1>1, MarketMoves DEF Market!UpdateName, MarketTyped
<1>3. /\ DOMAIN templates' = DOMAIN templates /\ (\A j \in DOMAIN templates \ {id} : templates'[j] = templates[j])
      /\ (id \in DOMAIN templates => /\ DOMAIN templates'[id] = DOMAIN templates[id]
                                     /\ templates'[id].name = (IF "name" \in tOp[c].fields THEN c ELSE templates[id].name)
                                     /\ templates'[id].steps = templates[id].steps
                                     /\ templates'[id].rating = templates[id].rating)
  BY <1>0, <1>1 DEF Market!UpdateName, MarketTyped, MarketConstants, Market!Assign, Market!Live
<1>4. UNCHANGED <<listings, reviews, recorder, tUsed, installs, clashed, given>>
  BY DEF Market!UpdateName
<1>5. MarketTyped(k)'
  BY <1>1, <1>2, <1>0, <1>3, <1>4, MarketIdle DEF MarketTyped, MarketCalls, MarketConstants
<1>6. MarketAlone(k)'
  BY <1>1, <1>2, <1>0, <1>4 DEF MarketInv, MarketAlone, Handles
<1>7. MarketRecorder(k)'
  BY <1>1, <1>2, <1>0, <1>4 DEF MarketInv, MarketRecorder, Handles, MarketConstants, MarketTyped
<1>8. MarketWhole(k)'
  <2> SUFFICES ASSUME NEW j \in DOMAIN templates' \ clashed'
               PROVE  (/\ (\A d \in k.client : ~MarketAt(d, {"updateSteps"}, j)) => templates[j].name = given[j].name
                       /\ \A d \in k.client : MarketAt(d, {"updateSteps"}, j) => templates[j].name = Named(d, j)
                       /\ \A d \in k.client : MarketAt(d, {"fork"}, j) => tOp[d].steps = templates[j].steps
                       /\ templates[j].steps = given[j].steps)'
    BY DEF MarketWhole
  <2>1. ((\A d \in k.client : ~MarketAt(d, {"updateSteps"}, j)) => templates[j].name = given[j].name)'
    BY <1>1, <1>2, <1>0, <1>3, <1>4 DEF MarketInv, MarketAlone, Handles, MarketAt, MarketTyped, MarketConstants, MarketWhole, Named
  <2>2. ASSUME NEW d \in k.client, MarketAt(d, {"updateSteps"}, j)' PROVE templates'[j].name = Named(d, j)'
    BY <1>1, <1>2, <1>0, <1>3, <1>4, <2>2 DEF MarketInv, MarketAlone, Handles, MarketAt, MarketTyped, MarketConstants, MarketWhole, Named
  <2>3. ASSUME NEW d \in k.client, MarketAt(d, {"fork"}, j)' PROVE tOp'[d].steps = templates'[j].steps
    BY <1>1, <1>2, <1>0, <1>3, <1>4, <2>3 DEF MarketInv, MarketAlone, Handles, MarketAt, MarketTyped, MarketConstants, MarketWhole, Named
  <2>4. (templates[j].steps = given[j].steps)'
    BY <1>1, <1>2, <1>0, <1>3, <1>4 DEF MarketInv, MarketAlone, Handles, MarketAt, MarketTyped, MarketConstants, MarketWhole, Named
  <2> QED
    BY <2>1, <2>2, <2>3, <2>4
<1>9. MarketRated(k)'
  <2>1. \A j \in k.id \ tUsed' : reviews'[j] = <<>>
    BY <1>1, <1>2, <1>0, <1>3, <1>4 DEF MarketInv, MarketRated, MarketTyped
  <2> SUFFICES ASSUME NEW j \in DOMAIN templates' \ clashed'
               PROVE  (/\ reviews[j] # <<>> /\ (\A d \in k.client : ~MarketAt(d, {"average", "rate"}, j))
                            => templates[j].rating = Market(k)!Averaged(j)
                       /\ \A d \in k.client : MarketAt(d, {"rate"}, j) => tOp[d].rating = Market(k)!Averaged(j))'
    BY <2>1 DEF MarketRated
  <2>a. Market(k)!Averaged(j)' = Market(k)!Averaged(j)
    BY <1>4 DEF Market!Averaged
  <2>2. (reviews[j] # <<>> /\ (\A d \in k.client : ~MarketAt(d, {"average", "rate"}, j))
           => templates[j].rating = Market(k)!Averaged(j))'
    BY <1>1, <1>2, <1>0, <1>3, <1>4, <2>a, SMTT(30) DEF MarketInv, MarketAlone, Handles, MarketAt, MarketTyped, MarketConstants, MarketRated
  <2>3. ASSUME NEW d \in k.client, MarketAt(d, {"rate"}, j)' PROVE tOp'[d].rating = Market(k)!Averaged(j)'
    BY <1>1, <1>2, <1>0, <1>3, <1>4, <2>3, <2>a, SMTT(30) DEF MarketInv, MarketAlone, Handles, MarketAt, MarketTyped, MarketConstants, MarketRated
  <2> QED
    BY <2>2, <2>3
<1>10. MarketCounted(k)'
  <2>1. \A j \in DOMAIN listings' \ clashed' : listings'[j].installs = installs'[j]
    BY <1>1, <1>2, <1>0, <1>3, <1>4 DEF MarketInv, MarketAlone, Handles, MarketAt, MarketTyped, MarketConstants, MarketCounted
  <2>2. ASSUME NEW d \in k.client, NEW j \in k.id \ clashed', MarketAt(d, {"edit", "original", "fork", "count"}, j)'
        PROVE  tOp'[d].copy.installs = installs'[j]
    BY <1>1, <1>2, <1>0, <1>3, <1>4, <2>2 DEF MarketInv, MarketAlone, Handles, MarketAt, MarketTyped, MarketConstants, MarketCounted
  <2> QED
    BY <2>1, <2>2 DEF MarketCounted
<1> QED
  BY <1>5, <1>6, <1>7, <1>8, <1>9, <1>10 DEF MarketInv

LEMMA MarketUpdateSteps ==
  ASSUME NEW k, MarketConstants(k), MarketInv(k), NEW c \in k.client, NEW public, Market(k)!UpdateSteps(c, public)
  PROVE  MarketInv(k)'
<1>0. MarketTyped(k) /\ Market(k)!Idle.call = "idle"
  BY MarketIdle DEF MarketInv
<1>1. PICK id \in tUsed : id = tOp[c].id /\ tOp[c].call = "updateSteps"
  BY <1>0 DEF Market!UpdateSteps, MarketTyped, MarketCalls
<1>2. /\ DOMAIN tOp' = k.client /\ tOp'[c] = Market(k)!Idle /\ tOp'[c].call = "idle"
      /\ \A d \in k.client \ {c} : tOp'[d] = tOp[d]
  BY <1>0, <1>1, MarketSet DEF Market!Done, Market!UpdateSteps, MarketTyped
<1>3. /\ DOMAIN templates' = DOMAIN templates /\ (\A j \in DOMAIN templates \ {id} : templates'[j] = templates[j])
      /\ (id \in DOMAIN templates => /\ DOMAIN templates'[id] = DOMAIN templates[id]
                                     /\ templates'[id].name = templates[id].name
                                     /\ templates'[id].steps = (IF "steps" \in tOp[c].fields THEN c ELSE templates[id].steps)
                                     /\ templates'[id].rating = templates[id].rating)
      /\ DOMAIN given' = k.id /\ (\A j \in k.id \ {id} : given'[j] = given[j])
      /\ given'[id].name = (IF "name" \in tOp[c].fields THEN c ELSE given[id].name)
      /\ given'[id].steps = (IF "steps" \in tOp[c].fields THEN c ELSE given[id].steps)
  BY <1>0, <1>1 DEF Market!UpdateSteps, MarketTyped, MarketConstants, Market!Live
<1>4. UNCHANGED <<listings, reviews, recorder, tUsed, installs, clashed>>
  BY DEF Market!UpdateSteps
<1>5. MarketTyped(k)'
  BY <1>1, <1>2, <1>0, <1>3, <1>4, MarketIdle DEF MarketTyped, MarketCalls, MarketConstants
<1>6. MarketAlone(k)'
  BY <1>1, <1>2, <1>0, <1>4 DEF MarketInv, MarketAlone, Handles
<1>7. MarketRecorder(k)'
  BY <1>1, <1>2, <1>0, <1>4 DEF MarketInv, MarketRecorder, Handles, MarketConstants, MarketTyped
<1>8. MarketWhole(k)'
  <2> SUFFICES ASSUME NEW j \in DOMAIN templates' \ clashed'
               PROVE  (/\ (\A d \in k.client : ~MarketAt(d, {"updateSteps"}, j)) => templates[j].name = given[j].name
                       /\ \A d \in k.client : MarketAt(d, {"updateSteps"}, j) => templates[j].name = Named(d, j)
                       /\ \A d \in k.client : MarketAt(d, {"fork"}, j) => tOp[d].steps = templates[j].steps
                       /\ templates[j].steps = given[j].steps)'
    BY DEF MarketWhole
  <2>1. ((\A d \in k.client : ~MarketAt(d, {"updateSteps"}, j)) => templates[j].name = given[j].name)'
    BY <1>1, <1>2, <1>0, <1>3, <1>4 DEF MarketInv, MarketAlone, Handles, MarketAt, MarketTyped, MarketConstants, MarketWhole, Named
  <2>2. ASSUME NEW d \in k.client, MarketAt(d, {"updateSteps"}, j)' PROVE templates'[j].name = Named(d, j)'
    BY <1>1, <1>2, <1>0, <1>3, <1>4, <2>2 DEF MarketInv, MarketAlone, Handles, MarketAt, MarketTyped, MarketConstants, MarketWhole, Named
  <2>3. ASSUME NEW d \in k.client, MarketAt(d, {"fork"}, j)' PROVE tOp'[d].steps = templates'[j].steps
    BY <1>1, <1>2, <1>0, <1>3, <1>4, <2>3 DEF MarketInv, MarketAlone, Handles, MarketAt, MarketTyped, MarketConstants, MarketWhole, Named
  <2>4. (templates[j].steps = given[j].steps)'
    BY <1>1, <1>2, <1>0, <1>3, <1>4 DEF MarketInv, MarketAlone, Handles, MarketAt, MarketTyped, MarketConstants, MarketWhole, Named
  <2> QED
    BY <2>1, <2>2, <2>3, <2>4
<1>9. MarketRated(k)'
  <2>1. \A j \in k.id \ tUsed' : reviews'[j] = <<>>
    BY <1>1, <1>2, <1>0, <1>3, <1>4 DEF MarketInv, MarketRated, MarketTyped
  <2> SUFFICES ASSUME NEW j \in DOMAIN templates' \ clashed'
               PROVE  (/\ reviews[j] # <<>> /\ (\A d \in k.client : ~MarketAt(d, {"average", "rate"}, j))
                            => templates[j].rating = Market(k)!Averaged(j)
                       /\ \A d \in k.client : MarketAt(d, {"rate"}, j) => tOp[d].rating = Market(k)!Averaged(j))'
    BY <2>1 DEF MarketRated
  <2>a. Market(k)!Averaged(j)' = Market(k)!Averaged(j)
    BY <1>4 DEF Market!Averaged
  <2>2. (reviews[j] # <<>> /\ (\A d \in k.client : ~MarketAt(d, {"average", "rate"}, j))
           => templates[j].rating = Market(k)!Averaged(j))'
    BY <1>1, <1>2, <1>0, <1>3, <1>4, <2>a, SMTT(30) DEF MarketInv, MarketAlone, Handles, MarketAt, MarketTyped, MarketConstants, MarketRated
  <2>3. ASSUME NEW d \in k.client, MarketAt(d, {"rate"}, j)' PROVE tOp'[d].rating = Market(k)!Averaged(j)'
    BY <1>1, <1>2, <1>0, <1>3, <1>4, <2>3, <2>a, SMTT(30) DEF MarketInv, MarketAlone, Handles, MarketAt, MarketTyped, MarketConstants, MarketRated
  <2> QED
    BY <2>2, <2>3
<1>10. MarketCounted(k)'
  <2>1. \A j \in DOMAIN listings' \ clashed' : listings'[j].installs = installs'[j]
    BY <1>1, <1>2, <1>0, <1>3, <1>4 DEF MarketInv, MarketAlone, Handles, MarketAt, MarketTyped, MarketConstants, MarketCounted
  <2>2. ASSUME NEW d \in k.client, NEW j \in k.id \ clashed', MarketAt(d, {"edit", "original", "fork", "count"}, j)'
        PROVE  tOp'[d].copy.installs = installs'[j]
    BY <1>1, <1>2, <1>0, <1>3, <1>4, <2>2 DEF MarketInv, MarketAlone, Handles, MarketAt, MarketTyped, MarketConstants, MarketCounted
  <2> QED
    BY <2>1, <2>2 DEF MarketCounted
<1> QED
  BY <1>5, <1>6, <1>7, <1>8, <1>9, <1>10 DEF MarketInv

LEMMA MarketDelete ==
  ASSUME NEW k, MarketConstants(k), MarketInv(k), NEW c \in k.client, NEW id \in k.id, Market(k)!Delete(c, id)
  PROVE  MarketInv(k)'
<1>0. MarketTyped(k) /\ Market(k)!Idle.call = "idle"
  BY MarketIdle DEF MarketInv
<1>3. /\ DOMAIN templates' = DOMAIN templates \ {id} /\ (\A j \in DOMAIN templates' : templates'[j] = templates[j])
  BY <1>0 DEF Market!Delete, MarketTyped, MarketConstants, Market!Live, Market!Minus
<1>4. UNCHANGED <<listings, reviews, recorder, tOp, tUsed, installs, clashed, given>>
  BY DEF Market!Delete
<1>5. MarketTyped(k)'
  BY <1>0, <1>3, <1>4, MarketIdle DEF MarketTyped, MarketCalls, MarketConstants
<1>6. MarketAlone(k)'
  BY <1>0, <1>4 DEF MarketInv, MarketAlone, Handles
<1>7. MarketRecorder(k)'
  BY <1>0, <1>4 DEF MarketInv, MarketRecorder, Handles, MarketConstants, MarketTyped
<1>8. MarketWhole(k)'
  <2> SUFFICES ASSUME NEW j \in DOMAIN templates' \ clashed'
               PROVE  (/\ (\A d \in k.client : ~MarketAt(d, {"updateSteps"}, j)) => templates[j].name = given[j].name
                       /\ \A d \in k.client : MarketAt(d, {"updateSteps"}, j) => templates[j].name = Named(d, j)
                       /\ \A d \in k.client : MarketAt(d, {"fork"}, j) => tOp[d].steps = templates[j].steps
                       /\ templates[j].steps = given[j].steps)'
    BY DEF MarketWhole
  <2>1. ((\A d \in k.client : ~MarketAt(d, {"updateSteps"}, j)) => templates[j].name = given[j].name)'
    BY <1>0, <1>3, <1>4 DEF MarketInv, MarketAlone, Handles, MarketAt, MarketTyped, MarketConstants, MarketWhole, Named
  <2>2. ASSUME NEW d \in k.client, MarketAt(d, {"updateSteps"}, j)' PROVE templates'[j].name = Named(d, j)'
    BY <1>0, <1>3, <1>4, <2>2 DEF MarketInv, MarketAlone, Handles, MarketAt, MarketTyped, MarketConstants, MarketWhole, Named
  <2>3. ASSUME NEW d \in k.client, MarketAt(d, {"fork"}, j)' PROVE tOp'[d].steps = templates'[j].steps
    BY <1>0, <1>3, <1>4, <2>3 DEF MarketInv, MarketAlone, Handles, MarketAt, MarketTyped, MarketConstants, MarketWhole, Named
  <2>4. (templates[j].steps = given[j].steps)'
    BY <1>0, <1>3, <1>4 DEF MarketInv, MarketAlone, Handles, MarketAt, MarketTyped, MarketConstants, MarketWhole, Named
  <2> QED
    BY <2>1, <2>2, <2>3, <2>4
<1>9. MarketRated(k)'
  <2>1. \A j \in k.id \ tUsed' : reviews'[j] = <<>>
    BY <1>0, <1>3, <1>4 DEF MarketInv, MarketRated, MarketTyped
  <2> SUFFICES ASSUME NEW j \in DOMAIN templates' \ clashed'
               PROVE  (/\ reviews[j] # <<>> /\ (\A d \in k.client : ~MarketAt(d, {"average", "rate"}, j))
                            => templates[j].rating = Market(k)!Averaged(j)
                       /\ \A d \in k.client : MarketAt(d, {"rate"}, j) => tOp[d].rating = Market(k)!Averaged(j))'
    BY <2>1 DEF MarketRated
  <2>a. Market(k)!Averaged(j)' = Market(k)!Averaged(j)
    BY <1>4 DEF Market!Averaged
  <2>2. (reviews[j] # <<>> /\ (\A d \in k.client : ~MarketAt(d, {"average", "rate"}, j))
           => templates[j].rating = Market(k)!Averaged(j))'
    BY <1>0, <1>3, <1>4, <2>a, SMTT(30) DEF MarketInv, MarketAlone, Handles, MarketAt, MarketTyped, MarketConstants, MarketRated
  <2>3. ASSUME NEW d \in k.client, MarketAt(d, {"rate"}, j)' PROVE tOp'[d].rating = Market(k)!Averaged(j)'
    BY <1>0, <1>3, <1>4, <2>3, <2>a, SMTT(30) DEF MarketInv, MarketAlone, Handles, MarketAt, MarketTyped, MarketConstants, MarketRated
  <2> QED
    BY <2>2, <2>3
<1>10. MarketCounted(k)'
  <2>1. \A j \in DOMAIN listings' \ clashed' : listings'[j].installs = installs'[j]
    BY <1>0, <1>3, <1>4 DEF MarketInv, MarketAlone, Handles, MarketAt, MarketTyped, MarketConstants, MarketCounted
  <2>2. ASSUME NEW d \in k.client, NEW j \in k.id \ clashed', MarketAt(d, {"edit", "original", "fork", "count"}, j)'
        PROVE  tOp'[d].copy.installs = installs'[j]
    BY <1>0, <1>3, <1>4, <2>2 DEF MarketInv, MarketAlone, Handles, MarketAt, MarketTyped, MarketConstants, MarketCounted
  <2> QED
    BY <2>1, <2>2 DEF MarketCounted
<1> QED
  BY <1>5, <1>6, <1>7, <1>8, <1>9, <1>10 DEF MarketInv

LEMMA MarketBeginPublish ==
  ASSUME NEW k, MarketConstants(k), MarketInv(k), NEW c \in k.client, NEW id \in k.id, Market(k)!BeginPublish(c, id)
  PROVE  MarketInv(k)'
<1>0. MarketTyped(k) /\ Market(k)!Idle.call = "idle"
  BY MarketIdle DEF MarketInv
<1>1. tOp[c].call = "idle" /\ id \in tUsed
  BY <1>0 DEF Market!BeginPublish, Market!Live, Market!Listed, MarketTyped
<1>2. /\ DOMAIN tOp' = k.client /\ {"call", "id"} \subseteq DOMAIN tOp'[c]
      /\ tOp'[c].call = "publish" /\ tOp'[c].id = id
      /\ \A d \in k.client \ {c} : tOp'[d] = tOp[d]
  BY <1>0, MarketSet DEF Market!Begin, Market!BeginPublish, MarketTyped
<1>3. /\ clashed \subseteq clashed' /\ (id \notin clashed' => \A d \in k.client : ~Handles(d, id))
      /\ (0 \notin clashed' <=> 0 \notin clashed)
      /\ UNCHANGED <<templates, listings, reviews, recorder, tUsed, installs, given>>
  BY <1>0, <1>1, MarketOnIt DEF Market!BeginPublish, MarketTyped, MarketConstants, Market!Meet
<1>4. MarketTyped(k)'
  BY <1>1, <1>2, <1>0, <1>3, MarketIdle DEF MarketTyped, MarketCalls, MarketConstants
<1>5. MarketAlone(k)'
  BY <1>1, <1>2, <1>0, <1>3 DEF MarketInv, MarketAlone, Handles
<1>6. MarketRecorder(k)'
  BY <1>1, <1>2, <1>0, <1>3 DEF MarketInv, MarketRecorder, Handles, MarketConstants, MarketTyped
<1>7. MarketWhole(k)'
  <2> SUFFICES ASSUME NEW j \in DOMAIN templates' \ clashed'
               PROVE  (/\ (\A d \in k.client : ~MarketAt(d, {"updateSteps"}, j)) => templates[j].name = given[j].name
                       /\ \A d \in k.client : MarketAt(d, {"updateSteps"}, j) => templates[j].name = Named(d, j)
                       /\ \A d \in k.client : MarketAt(d, {"fork"}, j) => tOp[d].steps = templates[j].steps
                       /\ templates[j].steps = given[j].steps)'
    BY DEF MarketWhole
  <2>1. ((\A d \in k.client : ~MarketAt(d, {"updateSteps"}, j)) => templates[j].name = given[j].name)'
    BY <1>1, <1>2, <1>0, <1>3 DEF MarketInv, MarketAlone, Handles, MarketAt, MarketTyped, MarketConstants, MarketWhole, Named
  <2>2. ASSUME NEW d \in k.client, MarketAt(d, {"updateSteps"}, j)' PROVE templates'[j].name = Named(d, j)'
    BY <1>1, <1>2, <1>0, <1>3, <2>2 DEF MarketInv, MarketAlone, Handles, MarketAt, MarketTyped, MarketConstants, MarketWhole, Named
  <2>3. ASSUME NEW d \in k.client, MarketAt(d, {"fork"}, j)' PROVE tOp'[d].steps = templates'[j].steps
    BY <1>1, <1>2, <1>0, <1>3, <2>3 DEF MarketInv, MarketAlone, Handles, MarketAt, MarketTyped, MarketConstants, MarketWhole, Named
  <2>4. (templates[j].steps = given[j].steps)'
    BY <1>1, <1>2, <1>0, <1>3 DEF MarketInv, MarketAlone, Handles, MarketAt, MarketTyped, MarketConstants, MarketWhole, Named
  <2> QED
    BY <2>1, <2>2, <2>3, <2>4
<1>8. MarketRated(k)'
  <2>1. \A j \in k.id \ tUsed' : reviews'[j] = <<>>
    BY <1>1, <1>2, <1>0, <1>3 DEF MarketInv, MarketRated, MarketTyped
  <2> SUFFICES ASSUME NEW j \in DOMAIN templates' \ clashed'
               PROVE  (/\ reviews[j] # <<>> /\ (\A d \in k.client : ~MarketAt(d, {"average", "rate"}, j))
                            => templates[j].rating = Market(k)!Averaged(j)
                       /\ \A d \in k.client : MarketAt(d, {"rate"}, j) => tOp[d].rating = Market(k)!Averaged(j))'
    BY <2>1 DEF MarketRated
  <2>a. Market(k)!Averaged(j)' = Market(k)!Averaged(j)
    BY <1>3 DEF Market!Averaged
  <2>2. (reviews[j] # <<>> /\ (\A d \in k.client : ~MarketAt(d, {"average", "rate"}, j))
           => templates[j].rating = Market(k)!Averaged(j))'
    BY <1>1, <1>2, <1>0, <1>3, <2>a, SMTT(30) DEF MarketInv, MarketAlone, Handles, MarketAt, MarketTyped, MarketConstants, MarketRated
  <2>3. ASSUME NEW d \in k.client, MarketAt(d, {"rate"}, j)' PROVE tOp'[d].rating = Market(k)!Averaged(j)'
    BY <1>1, <1>2, <1>0, <1>3, <2>3, <2>a, SMTT(30) DEF MarketInv, MarketAlone, Handles, MarketAt, MarketTyped, MarketConstants, MarketRated
  <2> QED
    BY <2>2, <2>3
<1>9. MarketCounted(k)'
  <2>1. \A j \in DOMAIN listings' \ clashed' : listings'[j].installs = installs'[j]
    BY <1>1, <1>2, <1>0, <1>3 DEF MarketInv, MarketAlone, Handles, MarketAt, MarketTyped, MarketConstants, MarketCounted
  <2>2. ASSUME NEW d \in k.client, NEW j \in k.id \ clashed', MarketAt(d, {"edit", "original", "fork", "count"}, j)'
        PROVE  tOp'[d].copy.installs = installs'[j]
    BY <1>1, <1>2, <1>0, <1>3, <2>2 DEF MarketInv, MarketAlone, Handles, MarketAt, MarketTyped, MarketConstants, MarketCounted
  <2> QED
    BY <2>1, <2>2 DEF MarketCounted
<1> QED
  BY <1>4, <1>5, <1>6, <1>7, <1>8, <1>9 DEF MarketInv

LEMMA MarketMakePublic ==
  ASSUME NEW k, MarketConstants(k), MarketInv(k), NEW c \in k.client, Market(k)!MakePublic(c)
  PROVE  MarketInv(k)'
<1>0. MarketTyped(k) /\ Market(k)!Idle.call = "idle"
  BY MarketIdle DEF MarketInv
<1>1. PICK id \in tUsed : id = tOp[c].id /\ tOp[c].call = "publish"
  BY <1>0 DEF Market!MakePublic, MarketTyped, MarketCalls
<1>2. IF id \in DOMAIN templates
      THEN /\ DOMAIN tOp' = k.client /\ {"call", "id"} \subseteq DOMAIN tOp'[c]
           /\ tOp'[c].call = "list" /\ tOp'[c].id = id
           /\ \A d \in k.client \ {c} : tOp'[d] = tOp[d]
      ELSE /\ DOMAIN tOp' = k.client /\ tOp'[c] = Market(k)!Idle /\ tOp'[c].call = "idle"
           /\ \A d \in k.client \ {c} : tOp'[d] = tOp[d]
  BY <1>0, <1>1, MarketSet, MarketMoves DEF Market!MakePublic, Market!Done, Market!Live, MarketTyped
<1>C. tOp'[c].call \in {"list", "idle"} /\ \A d \in k.client \ {c} : tOp'[d] = tOp[d]
  BY <1>0, <1>2
<1>3. /\ DOMAIN templates' = DOMAIN templates /\ (\A j \in DOMAIN templates \ {id} : templates'[j] = templates[j])
      /\ (id \in DOMAIN templates => /\ DOMAIN templates'[id] = DOMAIN templates[id]
                                     /\ templates'[id].name = templates[id].name
                                     /\ templates'[id].steps = templates[id].steps
                                     /\ templates'[id].rating = templates[id].rating)
  BY <1>0, <1>1 DEF Market!MakePublic, MarketTyped, MarketConstants, Market!Assign, Market!Live
<1>4. UNCHANGED <<listings, reviews, recorder, tUsed, installs, clashed, given>>
  BY DEF Market!MakePublic
<1>5. MarketTyped(k)'
  BY <1>1, <1>2, <1>0, <1>C, <1>3, <1>4, MarketIdle DEF MarketTyped, MarketCalls, MarketConstants
<1>6. MarketAlone(k)'
  BY <1>1, <1>2, <1>0, <1>4 DEF MarketInv, MarketAlone, Handles
<1>7. MarketRecorder(k)'
  BY <1>1, <1>2, <1>0, <1>4 DEF MarketInv, MarketRecorder, Handles, MarketConstants, MarketTyped
<1>8. MarketWhole(k)'
  <2> SUFFICES ASSUME NEW j \in DOMAIN templates' \ clashed'
               PROVE  (/\ (\A d \in k.client : ~MarketAt(d, {"updateSteps"}, j)) => templates[j].name = given[j].name
                       /\ \A d \in k.client : MarketAt(d, {"updateSteps"}, j) => templates[j].name = Named(d, j)
                       /\ \A d \in k.client : MarketAt(d, {"fork"}, j) => tOp[d].steps = templates[j].steps
                       /\ templates[j].steps = given[j].steps)'
    BY DEF MarketWhole
  <2>1. ((\A d \in k.client : ~MarketAt(d, {"updateSteps"}, j)) => templates[j].name = given[j].name)'
    BY <1>1, <1>2, <1>0, <1>3, <1>4 DEF MarketInv, MarketAlone, Handles, MarketAt, MarketTyped, MarketConstants, MarketWhole, Named
  <2>2. ASSUME NEW d \in k.client, MarketAt(d, {"updateSteps"}, j)' PROVE templates'[j].name = Named(d, j)'
    BY <1>1, <1>2, <1>0, <1>3, <1>4, <2>2 DEF MarketInv, MarketAlone, Handles, MarketAt, MarketTyped, MarketConstants, MarketWhole, Named
  <2>3. ASSUME NEW d \in k.client, MarketAt(d, {"fork"}, j)' PROVE tOp'[d].steps = templates'[j].steps
    BY <1>1, <1>2, <1>0, <1>3, <1>4, <2>3 DEF MarketInv, MarketAlone, Handles, MarketAt, MarketTyped, MarketConstants, MarketWhole, Named
  <2>4. (templates[j].steps = given[j].steps)'
    BY <1>1, <1>2, <1>0, <1>3, <1>4 DEF MarketInv, MarketAlone, Handles, MarketAt, MarketTyped, MarketConstants, MarketWhole, Named
  <2> QED
    BY <2>1, <2>2, <2>3, <2>4
<1>9. MarketRated(k)'
  <2>1. \A j \in k.id \ tUsed' : reviews'[j] = <<>>
    BY <1>1, <1>2, <1>0, <1>3, <1>4 DEF MarketInv, MarketRated, MarketTyped
  <2> SUFFICES ASSUME NEW j \in DOMAIN templates' \ clashed'
               PROVE  (/\ reviews[j] # <<>> /\ (\A d \in k.client : ~MarketAt(d, {"average", "rate"}, j))
                            => templates[j].rating = Market(k)!Averaged(j)
                       /\ \A d \in k.client : MarketAt(d, {"rate"}, j) => tOp[d].rating = Market(k)!Averaged(j))'
    BY <2>1 DEF MarketRated
  <2>a. Market(k)!Averaged(j)' = Market(k)!Averaged(j)
    BY <1>4 DEF Market!Averaged
  <2>2. (reviews[j] # <<>> /\ (\A d \in k.client : ~MarketAt(d, {"average", "rate"}, j))
           => templates[j].rating = Market(k)!Averaged(j))'
    BY <1>1, <1>2, <1>0, <1>3, <1>4, <2>a, SMTT(30) DEF MarketInv, MarketAlone, Handles, MarketAt, MarketTyped, MarketConstants, MarketRated
  <2>3. ASSUME NEW d \in k.client, MarketAt(d, {"rate"}, j)' PROVE tOp'[d].rating = Market(k)!Averaged(j)'
    BY <1>0, <1>1, <1>C, <1>3, <1>4, <2>3, <2>a, SMTT(30) DEF MarketInv, MarketAlone, Handles, MarketAt, MarketTyped, MarketConstants, MarketRated
  <2> QED
    BY <2>2, <2>3
<1>10. MarketCounted(k)'
  <2>1. \A j \in DOMAIN listings' \ clashed' : listings'[j].installs = installs'[j]
    BY <1>1, <1>2, <1>0, <1>3, <1>4 DEF MarketInv, MarketAlone, Handles, MarketAt, MarketTyped, MarketConstants, MarketCounted
  <2>2. ASSUME NEW d \in k.client, NEW j \in k.id \ clashed', MarketAt(d, {"edit", "original", "fork", "count"}, j)'
        PROVE  tOp'[d].copy.installs = installs'[j]
    BY <1>1, <1>2, <1>0, <1>3, <1>4, <2>2, <1>C DEF MarketInv, MarketAlone, Handles, MarketAt, MarketTyped, MarketConstants, MarketCounted
  <2> QED
    BY <2>1, <2>2 DEF MarketCounted
<1> QED
  BY <1>5, <1>6, <1>7, <1>8, <1>9, <1>10 DEF MarketInv

LEMMA MarketList ==
  ASSUME NEW k, MarketConstants(k), MarketInv(k), NEW c \in k.client, Market(k)!List(c)
  PROVE  MarketInv(k)'
<1>0. MarketTyped(k) /\ Market(k)!Idle.call = "idle"
  BY MarketIdle DEF MarketInv
<1>1. PICK id \in tUsed : id = tOp[c].id /\ tOp[c].call = "list"
  BY <1>0 DEF Market!List, MarketTyped, MarketCalls
<1>2. /\ DOMAIN tOp' = k.client /\ tOp'[c] = Market(k)!Idle /\ tOp'[c].call = "idle"
      /\ \A d \in k.client \ {c} : tOp'[d] = tOp[d]
  BY <1>0, <1>1, MarketSet DEF Market!Done, Market!List, MarketTyped
<1>3. /\ DOMAIN listings' = DOMAIN listings \cup {id} /\ DOMAIN installs' = DOMAIN installs
      /\ (\A j \in DOMAIN listings : listings'[j] = listings[j] /\ installs'[j] = installs[j])
      /\ (\A j \in k.id \ {id} : installs'[j] = installs[j])
      /\ {"version", "featured", "installs"} \subseteq DOMAIN listings'[id]
      /\ (id \notin DOMAIN listings => listings'[id].installs = installs'[id])
  <2>1. CASE id \in DOMAIN listings
    BY <1>0, <1>1, <2>1 DEF Market!List, MarketTyped, Market!Listed
  <2>2. CASE id \notin DOMAIN listings
    <3>1. listings' = Market(k)!With(listings, id, Market(k)!Listing(c)) /\ installs' = [installs EXCEPT ![id] = 0]
      BY <1>1, <2>2 DEF Market!List, Market!Listed
    <3>2. {"version", "featured", "installs"} \subseteq DOMAIN Market(k)!Listing(c) /\ Market(k)!Listing(c).installs = 0
      BY DEF Market!Listing
    <3>3. /\ DOMAIN listings' = DOMAIN listings \cup {id} /\ listings'[id] = Market(k)!Listing(c)
          /\ \A j \in DOMAIN listings : listings'[j] = listings[j]
      BY <2>2, <3>1 DEF Market!With
    <3>4. /\ DOMAIN installs' = DOMAIN installs /\ installs'[id] = 0
          /\ \A j \in k.id \ {id} : installs'[j] = installs[j]
      BY <1>0, <1>1, <3>1 DEF MarketTyped
    <3> QED
      BY <1>0, <2>2, <3>2, <3>3, <3>4 DEF MarketTyped
  <2> QED
    BY <2>1, <2>2
<1>4. UNCHANGED <<templates, reviews, recorder, tUsed, clashed, given>>
  BY DEF Market!List
<1>5. MarketTyped(k)'
  BY <1>1, <1>2, <1>0, <1>3, <1>4, MarketIdle DEF MarketTyped, MarketCalls, MarketConstants
<1>6. MarketAlone(k)'
  BY <1>1, <1>2, <1>0, <1>4 DEF MarketInv, MarketAlone, Handles
<1>7. MarketRecorder(k)'
  BY <1>1, <1>2, <1>0, <1>4 DEF MarketInv, MarketRecorder, Handles, MarketConstants, MarketTyped
<1>8. MarketWhole(k)'
  <2> SUFFICES ASSUME NEW j \in DOMAIN templates' \ clashed'
               PROVE  (/\ (\A d \in k.client : ~MarketAt(d, {"updateSteps"}, j)) => templates[j].name = given[j].name
                       /\ \A d \in k.client : MarketAt(d, {"updateSteps"}, j) => templates[j].name = Named(d, j)
                       /\ \A d \in k.client : MarketAt(d, {"fork"}, j) => tOp[d].steps = templates[j].steps
                       /\ templates[j].steps = given[j].steps)'
    BY DEF MarketWhole
  <2>1. ((\A d \in k.client : ~MarketAt(d, {"updateSteps"}, j)) => templates[j].name = given[j].name)'
    BY <1>1, <1>2, <1>0, <1>3, <1>4 DEF MarketInv, MarketAlone, Handles, MarketAt, MarketTyped, MarketConstants, MarketWhole, Named
  <2>2. ASSUME NEW d \in k.client, MarketAt(d, {"updateSteps"}, j)' PROVE templates'[j].name = Named(d, j)'
    BY <1>1, <1>2, <1>0, <1>3, <1>4, <2>2 DEF MarketInv, MarketAlone, Handles, MarketAt, MarketTyped, MarketConstants, MarketWhole, Named
  <2>3. ASSUME NEW d \in k.client, MarketAt(d, {"fork"}, j)' PROVE tOp'[d].steps = templates'[j].steps
    BY <1>1, <1>2, <1>0, <1>3, <1>4, <2>3 DEF MarketInv, MarketAlone, Handles, MarketAt, MarketTyped, MarketConstants, MarketWhole, Named
  <2>4. (templates[j].steps = given[j].steps)'
    BY <1>1, <1>2, <1>0, <1>3, <1>4 DEF MarketInv, MarketAlone, Handles, MarketAt, MarketTyped, MarketConstants, MarketWhole, Named
  <2> QED
    BY <2>1, <2>2, <2>3, <2>4
<1>9. MarketRated(k)'
  <2>1. \A j \in k.id \ tUsed' : reviews'[j] = <<>>
    BY <1>1, <1>2, <1>0, <1>3, <1>4 DEF MarketInv, MarketRated, MarketTyped
  <2> SUFFICES ASSUME NEW j \in DOMAIN templates' \ clashed'
               PROVE  (/\ reviews[j] # <<>> /\ (\A d \in k.client : ~MarketAt(d, {"average", "rate"}, j))
                            => templates[j].rating = Market(k)!Averaged(j)
                       /\ \A d \in k.client : MarketAt(d, {"rate"}, j) => tOp[d].rating = Market(k)!Averaged(j))'
    BY <2>1 DEF MarketRated
  <2>a. Market(k)!Averaged(j)' = Market(k)!Averaged(j)
    BY <1>4 DEF Market!Averaged
  <2>2. (reviews[j] # <<>> /\ (\A d \in k.client : ~MarketAt(d, {"average", "rate"}, j))
           => templates[j].rating = Market(k)!Averaged(j))'
    BY <1>1, <1>2, <1>0, <1>3, <1>4, <2>a, SMTT(30) DEF MarketInv, MarketAlone, Handles, MarketAt, MarketTyped, MarketConstants, MarketRated
  <2>3. ASSUME NEW d \in k.client, MarketAt(d, {"rate"}, j)' PROVE tOp'[d].rating = Market(k)!Averaged(j)'
    BY <1>1, <1>2, <1>0, <1>3, <1>4, <2>3, <2>a, SMTT(30) DEF MarketInv, MarketAlone, Handles, MarketAt, MarketTyped, MarketConstants, MarketRated
  <2> QED
    BY <2>2, <2>3
<1>10. MarketCounted(k)'
  <2>1. \A j \in DOMAIN listings' \ clashed' : listings'[j].installs = installs'[j]
    BY <1>1, <1>2, <1>0, <1>3, <1>4 DEF MarketInv, MarketAlone, Handles, MarketAt, MarketTyped, MarketConstants, MarketCounted
  <2>2. ASSUME NEW d \in k.client, NEW j \in k.id \ clashed', MarketAt(d, {"edit", "original", "fork", "count"}, j)'
        PROVE  tOp'[d].copy.installs = installs'[j]
    BY <1>1, <1>2, <1>0, <1>3, <1>4, <2>2 DEF MarketInv, MarketAlone, Handles, MarketAt, MarketTyped, MarketConstants, MarketCounted
  <2> QED
    BY <2>1, <2>2 DEF MarketCounted
<1> QED
  BY <1>5, <1>6, <1>7, <1>8, <1>9, <1>10 DEF MarketInv

LEMMA MarketUnpublish ==
  ASSUME NEW k, MarketConstants(k), MarketInv(k), NEW c \in k.client, NEW id \in k.id, Market(k)!Unpublish(c, id)
  PROVE  MarketInv(k)'
<1>0. MarketTyped(k) /\ Market(k)!Idle.call = "idle"
  BY MarketIdle DEF MarketInv
<1>3. /\ DOMAIN listings' = DOMAIN listings \ {id} /\ (\A j \in DOMAIN listings' : listings'[j] = listings[j])
      /\ clashed \subseteq clashed' /\ (0 \notin clashed' <=> 0 \notin clashed)
      /\ UNCHANGED <<templates, reviews, recorder, tOp, tUsed, installs, given>>
  BY <1>0 DEF Market!Unpublish, MarketTyped, MarketConstants, Market!Listed, Market!Minus
<1>4. MarketTyped(k)'
  BY <1>0, <1>3, MarketIdle DEF MarketTyped, MarketCalls, MarketConstants
<1>5. MarketAlone(k)'
  BY <1>0, <1>3 DEF MarketInv, MarketAlone, Handles
<1>6. MarketRecorder(k)'
  BY <1>0, <1>3 DEF MarketInv, MarketRecorder, Handles, MarketConstants, MarketTyped
<1>7. MarketWhole(k)'
  <2> SUFFICES ASSUME NEW j \in DOMAIN templates' \ clashed'
               PROVE  (/\ (\A d \in k.client : ~MarketAt(d, {"updateSteps"}, j)) => templates[j].name = given[j].name
                       /\ \A d \in k.client : MarketAt(d, {"updateSteps"}, j) => templates[j].name = Named(d, j)
                       /\ \A d \in k.client : MarketAt(d, {"fork"}, j) => tOp[d].steps = templates[j].steps
                       /\ templates[j].steps = given[j].steps)'
    BY DEF MarketWhole
  <2>1. ((\A d \in k.client : ~MarketAt(d, {"updateSteps"}, j)) => templates[j].name = given[j].name)'
    BY <1>0, <1>3 DEF MarketInv, MarketAlone, Handles, MarketAt, MarketTyped, MarketConstants, MarketWhole, Named
  <2>2. ASSUME NEW d \in k.client, MarketAt(d, {"updateSteps"}, j)' PROVE templates'[j].name = Named(d, j)'
    BY <1>0, <1>3, <2>2 DEF MarketInv, MarketAlone, Handles, MarketAt, MarketTyped, MarketConstants, MarketWhole, Named
  <2>3. ASSUME NEW d \in k.client, MarketAt(d, {"fork"}, j)' PROVE tOp'[d].steps = templates'[j].steps
    BY <1>0, <1>3, <2>3 DEF MarketInv, MarketAlone, Handles, MarketAt, MarketTyped, MarketConstants, MarketWhole, Named
  <2>4. (templates[j].steps = given[j].steps)'
    BY <1>0, <1>3 DEF MarketInv, MarketAlone, Handles, MarketAt, MarketTyped, MarketConstants, MarketWhole, Named
  <2> QED
    BY <2>1, <2>2, <2>3, <2>4
<1>8. MarketRated(k)'
  <2>1. \A j \in k.id \ tUsed' : reviews'[j] = <<>>
    BY <1>0, <1>3 DEF MarketInv, MarketRated, MarketTyped
  <2> SUFFICES ASSUME NEW j \in DOMAIN templates' \ clashed'
               PROVE  (/\ reviews[j] # <<>> /\ (\A d \in k.client : ~MarketAt(d, {"average", "rate"}, j))
                            => templates[j].rating = Market(k)!Averaged(j)
                       /\ \A d \in k.client : MarketAt(d, {"rate"}, j) => tOp[d].rating = Market(k)!Averaged(j))'
    BY <2>1 DEF MarketRated
  <2>a. Market(k)!Averaged(j)' = Market(k)!Averaged(j)
    BY <1>3 DEF Market!Averaged
  <2>2. (reviews[j] # <<>> /\ (\A d \in k.client : ~MarketAt(d, {"average", "rate"}, j))
           => templates[j].rating = Market(k)!Averaged(j))'
    BY <1>0, <1>3, <2>a, SMTT(30) DEF MarketInv, MarketAlone, Handles, MarketAt, MarketTyped, MarketConstants, MarketRated
  <2>3. ASSUME NEW d \in k.client, MarketAt(d, {"rate"}, j)' PROVE tOp'[d].rating = Market(k)!Averaged(j)'
    BY <1>0, <1>3, <2>3, <2>a, SMTT(30) DEF MarketInv, MarketAlone, Handles, MarketAt, MarketTyped, MarketConstants, MarketRated
  <2> QED
    BY <2>2, <2>3
<1>9. MarketCounted(k)'
  <2>1. \A j \in DOMAIN listings' \ clashed' : listings'[j].installs = installs'[j]
    BY <1>0, <1>3 DEF MarketInv, MarketAlone, Handles, MarketAt, MarketTyped, MarketConstants, MarketCounted
  <2>2. ASSUME NEW d \in k.client, NEW j \in k.id \ clashed', MarketAt(d, {"edit", "original", "fork", "count"}, j)'
        PROVE  tOp'[d].copy.installs = installs'[j]
    BY <1>0, <1>3, <2>2 DEF MarketInv, MarketAlone, Handles, MarketAt, MarketTyped, MarketConstants, MarketCounted
  <2> QED
    BY <2>1, <2>2 DEF MarketCounted
<1> QED
  BY <1>4, <1>5, <1>6, <1>7, <1>8, <1>9 DEF MarketInv

LEMMA MarketBeginEdit ==
  ASSUME NEW k, MarketConstants(k), MarketInv(k), NEW c \in k.client, NEW id \in k.id, NEW field \in {"version", "featured"}, Market(k)!BeginEdit(c, id, field)
  PROVE  MarketInv(k)'
<1>0. MarketTyped(k) /\ Market(k)!Idle.call = "idle"
  BY MarketIdle DEF MarketInv
<1>1. tOp[c].call = "idle" /\ id \in tUsed
  BY <1>0 DEF Market!BeginEdit, Market!Live, Market!Listed, MarketTyped
<1>2. /\ DOMAIN tOp' = k.client /\ {"call", "id"} \subseteq DOMAIN tOp'[c]
      /\ tOp'[c].call = "edit" /\ tOp'[c].id = id
      /\ \A d \in k.client \ {c} : tOp'[d] = tOp[d]
  BY <1>0, MarketSet DEF Market!Begin, Market!BeginEdit, MarketTyped, Market!Listed
<1>C. "copy" \in DOMAIN tOp'[c] /\ {"version", "featured", "installs"} \subseteq DOMAIN tOp'[c].copy
      /\ tOp'[c].copy.installs = listings[id].installs
  BY <1>1, <1>0, MarketSet DEF Market!Begin, Market!BeginEdit, MarketTyped, Market!Listed
<1>3. /\ clashed \subseteq clashed' /\ (id \notin clashed' => \A d \in k.client : ~Handles(d, id))
      /\ (0 \notin clashed' <=> 0 \notin clashed)
      /\ id \in DOMAIN listings /\ UNCHANGED <<templates, listings, reviews, recorder, tUsed, installs, given>>
  BY <1>0, <1>1, MarketOnIt DEF Market!BeginEdit, MarketTyped, MarketConstants, Market!Meet, Market!Listed
<1>4. MarketTyped(k)'
  BY <1>1, <1>2, <1>0, <1>C, <1>3, MarketIdle DEF MarketTyped, MarketCalls, MarketConstants
<1>5. MarketAlone(k)'
  BY <1>1, <1>2, <1>0, <1>3 DEF MarketInv, MarketAlone, Handles
<1>6. MarketRecorder(k)'
  BY <1>1, <1>2, <1>0, <1>3 DEF MarketInv, MarketRecorder, Handles, MarketConstants, MarketTyped
<1>7. MarketWhole(k)'
  <2> SUFFICES ASSUME NEW j \in DOMAIN templates' \ clashed'
               PROVE  (/\ (\A d \in k.client : ~MarketAt(d, {"updateSteps"}, j)) => templates[j].name = given[j].name
                       /\ \A d \in k.client : MarketAt(d, {"updateSteps"}, j) => templates[j].name = Named(d, j)
                       /\ \A d \in k.client : MarketAt(d, {"fork"}, j) => tOp[d].steps = templates[j].steps
                       /\ templates[j].steps = given[j].steps)'
    BY DEF MarketWhole
  <2>1. ((\A d \in k.client : ~MarketAt(d, {"updateSteps"}, j)) => templates[j].name = given[j].name)'
    BY <1>1, <1>2, <1>0, <1>3 DEF MarketInv, MarketAlone, Handles, MarketAt, MarketTyped, MarketConstants, MarketWhole, Named
  <2>2. ASSUME NEW d \in k.client, MarketAt(d, {"updateSteps"}, j)' PROVE templates'[j].name = Named(d, j)'
    BY <1>1, <1>2, <1>0, <1>3, <2>2 DEF MarketInv, MarketAlone, Handles, MarketAt, MarketTyped, MarketConstants, MarketWhole, Named
  <2>3. ASSUME NEW d \in k.client, MarketAt(d, {"fork"}, j)' PROVE tOp'[d].steps = templates'[j].steps
    BY <1>1, <1>2, <1>0, <1>3, <2>3 DEF MarketInv, MarketAlone, Handles, MarketAt, MarketTyped, MarketConstants, MarketWhole, Named
  <2>4. (templates[j].steps = given[j].steps)'
    BY <1>1, <1>2, <1>0, <1>3 DEF MarketInv, MarketAlone, Handles, MarketAt, MarketTyped, MarketConstants, MarketWhole, Named
  <2> QED
    BY <2>1, <2>2, <2>3, <2>4
<1>8. MarketRated(k)'
  <2>1. \A j \in k.id \ tUsed' : reviews'[j] = <<>>
    BY <1>1, <1>2, <1>0, <1>3 DEF MarketInv, MarketRated, MarketTyped
  <2> SUFFICES ASSUME NEW j \in DOMAIN templates' \ clashed'
               PROVE  (/\ reviews[j] # <<>> /\ (\A d \in k.client : ~MarketAt(d, {"average", "rate"}, j))
                            => templates[j].rating = Market(k)!Averaged(j)
                       /\ \A d \in k.client : MarketAt(d, {"rate"}, j) => tOp[d].rating = Market(k)!Averaged(j))'
    BY <2>1 DEF MarketRated
  <2>a. Market(k)!Averaged(j)' = Market(k)!Averaged(j)
    BY <1>3 DEF Market!Averaged
  <2>2. (reviews[j] # <<>> /\ (\A d \in k.client : ~MarketAt(d, {"average", "rate"}, j))
           => templates[j].rating = Market(k)!Averaged(j))'
    BY <1>1, <1>2, <1>0, <1>3, <2>a, SMTT(30) DEF MarketInv, MarketAlone, Handles, MarketAt, MarketTyped, MarketConstants, MarketRated
  <2>3. ASSUME NEW d \in k.client, MarketAt(d, {"rate"}, j)' PROVE tOp'[d].rating = Market(k)!Averaged(j)'
    BY <1>1, <1>2, <1>0, <1>3, <2>3, <2>a, SMTT(30) DEF MarketInv, MarketAlone, Handles, MarketAt, MarketTyped, MarketConstants, MarketRated
  <2> QED
    BY <2>2, <2>3
<1>9. MarketCounted(k)'
  <2>1. \A j \in DOMAIN listings' \ clashed' : listings'[j].installs = installs'[j]
    BY <1>1, <1>2, <1>0, <1>3 DEF MarketInv, MarketAlone, Handles, MarketAt, MarketTyped, MarketConstants, MarketCounted
  <2>2. ASSUME NEW d \in k.client, NEW j \in k.id \ clashed', MarketAt(d, {"edit", "original", "fork", "count"}, j)'
        PROVE  tOp'[d].copy.installs = installs'[j]
    BY <1>1, <1>2, <1>0, <1>3, <2>2, <1>C DEF MarketInv, MarketAlone, Handles, MarketAt, MarketTyped, MarketConstants, MarketCounted
  <2> QED
    BY <2>1, <2>2 DEF MarketCounted
<1> QED
  BY <1>4, <1>5, <1>6, <1>7, <1>8, <1>9 DEF MarketInv

LEMMA MarketEdit ==
  ASSUME NEW k, MarketConstants(k), MarketInv(k), NEW c \in k.client, Market(k)!Edit(c)
  PROVE  MarketInv(k)'
<1>0. MarketTyped(k) /\ Market(k)!Idle.call = "idle"
  BY MarketIdle DEF MarketInv
<1>1. PICK id \in tUsed : id = tOp[c].id /\ tOp[c].call = "edit"
  BY <1>0 DEF Market!Edit, MarketTyped, MarketCalls
<1>2. /\ DOMAIN tOp' = k.client /\ tOp'[c] = Market(k)!Idle /\ tOp'[c].call = "idle"
      /\ \A d \in k.client \ {c} : tOp'[d] = tOp[d]
  BY <1>0, <1>1, MarketSet DEF Market!Done, Market!Edit, MarketTyped
<1>3. /\ DOMAIN listings' = DOMAIN listings /\ (\A j \in DOMAIN listings \ {id} : listings'[j] = listings[j])
      /\ (id \in DOMAIN listings => listings'[id] = tOp[c].copy)
  BY <1>0, <1>1 DEF Market!Edit, MarketTyped, MarketConstants, Market!PutBack, Market!Listed
<1>4. UNCHANGED <<templates, reviews, recorder, tUsed, installs, clashed, given>>
  BY DEF Market!Edit
<1>5. MarketTyped(k)'
  BY <1>1, <1>2, <1>0, <1>3, <1>4, MarketIdle DEF MarketTyped, MarketCalls, MarketConstants
<1>6. MarketAlone(k)'
  BY <1>1, <1>2, <1>0, <1>4 DEF MarketInv, MarketAlone, Handles
<1>7. MarketRecorder(k)'
  BY <1>1, <1>2, <1>0, <1>4 DEF MarketInv, MarketRecorder, Handles, MarketConstants, MarketTyped
<1>8. MarketWhole(k)'
  <2> SUFFICES ASSUME NEW j \in DOMAIN templates' \ clashed'
               PROVE  (/\ (\A d \in k.client : ~MarketAt(d, {"updateSteps"}, j)) => templates[j].name = given[j].name
                       /\ \A d \in k.client : MarketAt(d, {"updateSteps"}, j) => templates[j].name = Named(d, j)
                       /\ \A d \in k.client : MarketAt(d, {"fork"}, j) => tOp[d].steps = templates[j].steps
                       /\ templates[j].steps = given[j].steps)'
    BY DEF MarketWhole
  <2>1. ((\A d \in k.client : ~MarketAt(d, {"updateSteps"}, j)) => templates[j].name = given[j].name)'
    BY <1>1, <1>2, <1>0, <1>3, <1>4 DEF MarketInv, MarketAlone, Handles, MarketAt, MarketTyped, MarketConstants, MarketWhole, Named
  <2>2. ASSUME NEW d \in k.client, MarketAt(d, {"updateSteps"}, j)' PROVE templates'[j].name = Named(d, j)'
    BY <1>1, <1>2, <1>0, <1>3, <1>4, <2>2 DEF MarketInv, MarketAlone, Handles, MarketAt, MarketTyped, MarketConstants, MarketWhole, Named
  <2>3. ASSUME NEW d \in k.client, MarketAt(d, {"fork"}, j)' PROVE tOp'[d].steps = templates'[j].steps
    BY <1>1, <1>2, <1>0, <1>3, <1>4, <2>3 DEF MarketInv, MarketAlone, Handles, MarketAt, MarketTyped, MarketConstants, MarketWhole, Named
  <2>4. (templates[j].steps = given[j].steps)'
    BY <1>1, <1>2, <1>0, <1>3, <1>4 DEF MarketInv, MarketAlone, Handles, MarketAt, MarketTyped, MarketConstants, MarketWhole, Named
  <2> QED
    BY <2>1, <2>2, <2>3, <2>4
<1>9. MarketRated(k)'
  <2>1. \A j \in k.id \ tUsed' : reviews'[j] = <<>>
    BY <1>1, <1>2, <1>0, <1>3, <1>4 DEF MarketInv, MarketRated, MarketTyped
  <2> SUFFICES ASSUME NEW j \in DOMAIN templates' \ clashed'
               PROVE  (/\ reviews[j] # <<>> /\ (\A d \in k.client : ~MarketAt(d, {"average", "rate"}, j))
                            => templates[j].rating = Market(k)!Averaged(j)
                       /\ \A d \in k.client : MarketAt(d, {"rate"}, j) => tOp[d].rating = Market(k)!Averaged(j))'
    BY <2>1 DEF MarketRated
  <2>a. Market(k)!Averaged(j)' = Market(k)!Averaged(j)
    BY <1>4 DEF Market!Averaged
  <2>2. (reviews[j] # <<>> /\ (\A d \in k.client : ~MarketAt(d, {"average", "rate"}, j))
           => templates[j].rating = Market(k)!Averaged(j))'
    BY <1>1, <1>2, <1>0, <1>3, <1>4, <2>a, SMTT(30) DEF MarketInv, MarketAlone, Handles, MarketAt, MarketTyped, MarketConstants, MarketRated
  <2>3. ASSUME NEW d \in k.client, MarketAt(d, {"rate"}, j)' PROVE tOp'[d].rating = Market(k)!Averaged(j)'
    BY <1>1, <1>2, <1>0, <1>3, <1>4, <2>3, <2>a, SMTT(30) DEF MarketInv, MarketAlone, Handles, MarketAt, MarketTyped, MarketConstants, MarketRated
  <2> QED
    BY <2>2, <2>3
<1>10. MarketCounted(k)'
  <2>1. \A j \in DOMAIN listings' \ clashed' : listings'[j].installs = installs'[j]
    BY <1>1, <1>2, <1>0, <1>3, <1>4 DEF MarketInv, MarketAlone, Handles, MarketAt, MarketTyped, MarketConstants, MarketCounted
  <2>2. ASSUME NEW d \in k.client, NEW j \in k.id \ clashed', MarketAt(d, {"edit", "original", "fork", "count"}, j)'
        PROVE  tOp'[d].copy.installs = installs'[j]
    BY <1>1, <1>2, <1>0, <1>3, <1>4, <2>2 DEF MarketInv, MarketAlone, Handles, MarketAt, MarketTyped, MarketConstants, MarketCounted
  <2> QED
    BY <2>1, <2>2 DEF MarketCounted
<1> QED
  BY <1>5, <1>6, <1>7, <1>8, <1>9, <1>10 DEF MarketInv

LEMMA MarketBeginInstall ==
  ASSUME NEW k, MarketConstants(k), MarketInv(k), NEW c \in k.client, NEW id \in k.id, NEW user, Market(k)!BeginInstall(c, id, user)
  PROVE  MarketInv(k)'
<1>0. MarketTyped(k) /\ Market(k)!Idle.call = "idle"
  BY MarketIdle DEF MarketInv
<1>1. tOp[c].call = "idle" /\ id \in tUsed
  BY <1>0 DEF Market!BeginInstall, Market!Live, Market!Listed, MarketTyped
<1>2. /\ DOMAIN tOp' = k.client /\ {"call", "id"} \subseteq DOMAIN tOp'[c]
      /\ tOp'[c].call = "original" /\ tOp'[c].id = id
      /\ \A d \in k.client \ {c} : tOp'[d] = tOp[d]
  BY <1>0, MarketSet DEF Market!Begin, Market!BeginInstall, MarketTyped, Market!Listed
<1>C. "copy" \in DOMAIN tOp'[c] /\ {"version", "featured", "installs"} \subseteq DOMAIN tOp'[c].copy
      /\ tOp'[c].copy.installs = listings[id].installs
  BY <1>1, <1>0, MarketSet DEF Market!Begin, Market!BeginInstall, MarketTyped, Market!Listed
<1>3. /\ clashed \subseteq clashed' /\ (id \notin clashed' => \A d \in k.client : ~Handles(d, id))
      /\ (0 \notin clashed' <=> 0 \notin clashed)
      /\ id \in DOMAIN listings /\ UNCHANGED <<templates, listings, reviews, recorder, tUsed, installs, given>>
  BY <1>0, <1>1, MarketOnIt DEF Market!BeginInstall, MarketTyped, MarketConstants, Market!Meet, Market!Listed
<1>4. MarketTyped(k)'
  BY <1>1, <1>2, <1>0, <1>C, <1>3, MarketIdle DEF MarketTyped, MarketCalls, MarketConstants
<1>5. MarketAlone(k)'
  BY <1>1, <1>2, <1>0, <1>3 DEF MarketInv, MarketAlone, Handles
<1>6. MarketRecorder(k)'
  BY <1>1, <1>2, <1>0, <1>3 DEF MarketInv, MarketRecorder, Handles, MarketConstants, MarketTyped
<1>7. MarketWhole(k)'
  <2> SUFFICES ASSUME NEW j \in DOMAIN templates' \ clashed'
               PROVE  (/\ (\A d \in k.client : ~MarketAt(d, {"updateSteps"}, j)) => templates[j].name = given[j].name
                       /\ \A d \in k.client : MarketAt(d, {"updateSteps"}, j) => templates[j].name = Named(d, j)
                       /\ \A d \in k.client : MarketAt(d, {"fork"}, j) => tOp[d].steps = templates[j].steps
                       /\ templates[j].steps = given[j].steps)'
    BY DEF MarketWhole
  <2>1. ((\A d \in k.client : ~MarketAt(d, {"updateSteps"}, j)) => templates[j].name = given[j].name)'
    BY <1>1, <1>2, <1>0, <1>3 DEF MarketInv, MarketAlone, Handles, MarketAt, MarketTyped, MarketConstants, MarketWhole, Named
  <2>2. ASSUME NEW d \in k.client, MarketAt(d, {"updateSteps"}, j)' PROVE templates'[j].name = Named(d, j)'
    BY <1>1, <1>2, <1>0, <1>3, <2>2 DEF MarketInv, MarketAlone, Handles, MarketAt, MarketTyped, MarketConstants, MarketWhole, Named
  <2>3. ASSUME NEW d \in k.client, MarketAt(d, {"fork"}, j)' PROVE tOp'[d].steps = templates'[j].steps
    BY <1>1, <1>2, <1>0, <1>3, <2>3 DEF MarketInv, MarketAlone, Handles, MarketAt, MarketTyped, MarketConstants, MarketWhole, Named
  <2>4. (templates[j].steps = given[j].steps)'
    BY <1>1, <1>2, <1>0, <1>3 DEF MarketInv, MarketAlone, Handles, MarketAt, MarketTyped, MarketConstants, MarketWhole, Named
  <2> QED
    BY <2>1, <2>2, <2>3, <2>4
<1>8. MarketRated(k)'
  <2>1. \A j \in k.id \ tUsed' : reviews'[j] = <<>>
    BY <1>1, <1>2, <1>0, <1>3 DEF MarketInv, MarketRated, MarketTyped
  <2> SUFFICES ASSUME NEW j \in DOMAIN templates' \ clashed'
               PROVE  (/\ reviews[j] # <<>> /\ (\A d \in k.client : ~MarketAt(d, {"average", "rate"}, j))
                            => templates[j].rating = Market(k)!Averaged(j)
                       /\ \A d \in k.client : MarketAt(d, {"rate"}, j) => tOp[d].rating = Market(k)!Averaged(j))'
    BY <2>1 DEF MarketRated
  <2>a. Market(k)!Averaged(j)' = Market(k)!Averaged(j)
    BY <1>3 DEF Market!Averaged
  <2>2. (reviews[j] # <<>> /\ (\A d \in k.client : ~MarketAt(d, {"average", "rate"}, j))
           => templates[j].rating = Market(k)!Averaged(j))'
    BY <1>1, <1>2, <1>0, <1>3, <2>a, SMTT(30) DEF MarketInv, MarketAlone, Handles, MarketAt, MarketTyped, MarketConstants, MarketRated
  <2>3. ASSUME NEW d \in k.client, MarketAt(d, {"rate"}, j)' PROVE tOp'[d].rating = Market(k)!Averaged(j)'
    BY <1>1, <1>2, <1>0, <1>3, <2>3, <2>a, SMTT(30) DEF MarketInv, MarketAlone, Handles, MarketAt, MarketTyped, MarketConstants, MarketRated
  <2> QED
    BY <2>2, <2>3
<1>9. MarketCounted(k)'
  <2>1. \A j \in DOMAIN listings' \ clashed' : listings'[j].installs = installs'[j]
    BY <1>1, <1>2, <1>0, <1>3 DEF MarketInv, MarketAlone, Handles, MarketAt, MarketTyped, MarketConstants, MarketCounted
  <2>2. ASSUME NEW d \in k.client, NEW j \in k.id \ clashed', MarketAt(d, {"edit", "original", "fork", "count"}, j)'
        PROVE  tOp'[d].copy.installs = installs'[j]
    BY <1>1, <1>2, <1>0, <1>3, <2>2, <1>C DEF MarketInv, MarketAlone, Handles, MarketAt, MarketTyped, MarketConstants, MarketCounted
  <2> QED
    BY <2>1, <2>2 DEF MarketCounted
<1> QED
  BY <1>4, <1>5, <1>6, <1>7, <1>8, <1>9 DEF MarketInv

LEMMA MarketOriginal ==
  ASSUME NEW k, MarketConstants(k), MarketInv(k), NEW c \in k.client, Market(k)!Original(c)
  PROVE  MarketInv(k)'
<1>0. MarketTyped(k) /\ Market(k)!Idle.call = "idle"
  BY MarketIdle DEF MarketInv
<1>1. PICK id \in tUsed : id = tOp[c].id /\ tOp[c].call = "original"
  BY <1>0 DEF Market!Original, MarketTyped, MarketCalls
<1>2. /\ DOMAIN tOp' = k.client
      /\ \/ tOp'[c] = Market(k)!Idle
         \/ /\ {"call", "id"} \subseteq DOMAIN tOp'[c] /\ tOp'[c].call = "fork" /\ tOp'[c].id = id
            /\ "copy" \in DOMAIN tOp'[c] /\ tOp'[c].copy = tOp[c].copy
            /\ id \in DOMAIN templates /\ tOp'[c].name = templates[id].name /\ tOp'[c].steps = templates[id].steps
      /\ \A d \in k.client \ {c} : tOp'[d] = tOp[d]
  BY <1>0, <1>1, MarketSet DEF Market!Original, Market!Done, Market!Live
<1>3. UNCHANGED <<templates, listings, reviews, recorder, tUsed, installs, clashed, given>>
  BY <1>0, <1>1 DEF Market!Original, MarketTyped, MarketConstants
<1>4. MarketTyped(k)'
  BY <1>1, <1>2, <1>0, <1>3, MarketIdle DEF MarketTyped, MarketCalls, MarketConstants
<1>5. MarketAlone(k)'
  BY <1>1, <1>2, <1>0, <1>3 DEF MarketInv, MarketAlone, Handles
<1>6. MarketRecorder(k)'
  BY <1>1, <1>2, <1>0, <1>3 DEF MarketInv, MarketRecorder, Handles, MarketConstants, MarketTyped
<1>7. MarketWhole(k)'
  <2> SUFFICES ASSUME NEW j \in DOMAIN templates' \ clashed'
               PROVE  (/\ (\A d \in k.client : ~MarketAt(d, {"updateSteps"}, j)) => templates[j].name = given[j].name
                       /\ \A d \in k.client : MarketAt(d, {"updateSteps"}, j) => templates[j].name = Named(d, j)
                       /\ \A d \in k.client : MarketAt(d, {"fork"}, j) => tOp[d].steps = templates[j].steps
                       /\ templates[j].steps = given[j].steps)'
    BY DEF MarketWhole
  <2>1. ((\A d \in k.client : ~MarketAt(d, {"updateSteps"}, j)) => templates[j].name = given[j].name)'
    BY <1>1, <1>2, <1>0, <1>3 DEF MarketInv, MarketAlone, Handles, MarketAt, MarketTyped, MarketConstants, MarketWhole, Named
  <2>2. ASSUME NEW d \in k.client, MarketAt(d, {"updateSteps"}, j)' PROVE templates'[j].name = Named(d, j)'
    BY <1>1, <1>2, <1>0, <1>3, <2>2 DEF MarketInv, MarketAlone, Handles, MarketAt, MarketTyped, MarketConstants, MarketWhole, Named
  <2>3. ASSUME NEW d \in k.client, MarketAt(d, {"fork"}, j)' PROVE tOp'[d].steps = templates'[j].steps
    BY <1>1, <1>2, <1>0, <1>3, <2>3 DEF MarketInv, MarketAlone, Handles, MarketAt, MarketTyped, MarketConstants, MarketWhole, Named
  <2>4. (templates[j].steps = given[j].steps)'
    BY <1>1, <1>2, <1>0, <1>3 DEF MarketInv, MarketAlone, Handles, MarketAt, MarketTyped, MarketConstants, MarketWhole, Named
  <2> QED
    BY <2>1, <2>2, <2>3, <2>4
<1>8. MarketRated(k)'
  <2>1. \A j \in k.id \ tUsed' : reviews'[j] = <<>>
    BY <1>1, <1>2, <1>0, <1>3 DEF MarketInv, MarketRated, MarketTyped
  <2> SUFFICES ASSUME NEW j \in DOMAIN templates' \ clashed'
               PROVE  (/\ reviews[j] # <<>> /\ (\A d \in k.client : ~MarketAt(d, {"average", "rate"}, j))
                            => templates[j].rating = Market(k)!Averaged(j)
                       /\ \A d \in k.client : MarketAt(d, {"rate"}, j) => tOp[d].rating = Market(k)!Averaged(j))'
    BY <2>1 DEF MarketRated
  <2>a. Market(k)!Averaged(j)' = Market(k)!Averaged(j)
    BY <1>3 DEF Market!Averaged
  <2>2. (reviews[j] # <<>> /\ (\A d \in k.client : ~MarketAt(d, {"average", "rate"}, j))
           => templates[j].rating = Market(k)!Averaged(j))'
    BY <1>1, <1>2, <1>0, <1>3, <2>a, SMTT(30) DEF MarketInv, MarketAlone, Handles, MarketAt, MarketTyped, MarketConstants, MarketRated
  <2>3. ASSUME NEW d \in k.client, MarketAt(d, {"rate"}, j)' PROVE tOp'[d].rating = Market(k)!Averaged(j)'
    BY <1>1, <1>2, <1>0, <1>3, <2>3, <2>a, SMTT(30) DEF MarketInv, MarketAlone, Handles, MarketAt, MarketTyped, MarketConstants, MarketRated
  <2> QED
    BY <2>2, <2>3
<1>9. MarketCounted(k)'
  <2>1. \A j \in DOMAIN listings' \ clashed' : listings'[j].installs = installs'[j]
    BY <1>1, <1>2, <1>0, <1>3 DEF MarketInv, MarketAlone, Handles, MarketAt, MarketTyped, MarketConstants, MarketCounted
  <2>2. ASSUME NEW d \in k.client, NEW j \in k.id \ clashed', MarketAt(d, {"edit", "original", "fork", "count"}, j)'
        PROVE  tOp'[d].copy.installs = installs'[j]
    BY <1>1, <1>2, <1>0, <1>3, <2>2 DEF MarketInv, MarketAlone, Handles, MarketAt, MarketTyped, MarketConstants, MarketCounted
  <2> QED
    BY <2>1, <2>2 DEF MarketCounted
<1> QED
  BY <1>4, <1>5, <1>6, <1>7, <1>8, <1>9 DEF MarketInv

LEMMA MarketFork ==
  ASSUME NEW k, MarketConstants(k), MarketInv(k), NEW c \in k.client, Market(k)!Fork(c)
  PROVE  MarketInv(k)'
<1>0. MarketTyped(k) /\ Market(k)!Idle.call = "idle"
  BY MarketIdle DEF MarketInv
<1>1. PICK id \in tUsed : id = tOp[c].id /\ tOp[c].call = "fork"
  BY <1>0 DEF Market!Fork, MarketTyped, MarketCalls
<1>2. /\ DOMAIN tOp' = k.client /\ {"call", "id"} \subseteq DOMAIN tOp'[c]
      /\ tOp'[c].call = "count" /\ tOp'[c].id = id /\ "copy" \in DOMAIN tOp'[c] /\ tOp'[c].copy = tOp[c].copy
      /\ \A d \in k.client \ {c} : tOp'[d] = tOp[d]
  BY <1>0, <1>1, MarketMoves DEF Market!Fork, MarketTyped
<1>3. PICK new \in k.id \ tUsed :
        /\ tUsed' = tUsed \cup {new} /\ DOMAIN templates' = DOMAIN templates \cup {new}
        /\ (\A j \in DOMAIN templates : templates'[j] = templates[j])
        /\ {"name", "steps", "public", "rating"} \subseteq DOMAIN templates'[new]
        /\ templates'[new].name = tOp[c].name
        /\ (id \in DOMAIN templates => templates'[new].steps = templates[id].steps)
        /\ (id \notin DOMAIN templates => templates'[new].steps = tOp[c].steps)
        /\ DOMAIN given' = k.id /\ (\A j \in k.id \ {new} : given'[j] = given[j])
        /\ given'[new].name = tOp[c].name /\ given'[new].steps = tOp[c].steps
        /\ clashed \subseteq clashed' /\ (id \in clashed => new \in clashed') /\ (0 \notin clashed' <=> 0 \notin clashed)
        /\ UNCHANGED <<listings, reviews, recorder, installs>>
  BY <1>0, <1>1 DEF Market!Fork, MarketTyped, MarketConstants, Market!Fresh, Market!With, Market!Template, Market!Live
<1>4. MarketTyped(k)'
  BY <1>1, <1>2, <1>0, <1>3, MarketIdle DEF MarketTyped, MarketCalls, MarketConstants
<1>5. MarketAlone(k)'
  BY <1>1, <1>2, <1>0, <1>3 DEF MarketInv, MarketAlone, Handles
<1>6. MarketRecorder(k)'
  BY <1>1, <1>2, <1>0, <1>3 DEF MarketInv, MarketRecorder, Handles, MarketConstants, MarketTyped
<1>7. MarketWhole(k)'
  <2> SUFFICES ASSUME NEW j \in DOMAIN templates' \ clashed'
               PROVE  (/\ (\A d \in k.client : ~MarketAt(d, {"updateSteps"}, j)) => templates[j].name = given[j].name
                       /\ \A d \in k.client : MarketAt(d, {"updateSteps"}, j) => templates[j].name = Named(d, j)
                       /\ \A d \in k.client : MarketAt(d, {"fork"}, j) => tOp[d].steps = templates[j].steps
                       /\ templates[j].steps = given[j].steps)'
    BY DEF MarketWhole
  <2>1. ((\A d \in k.client : ~MarketAt(d, {"updateSteps"}, j)) => templates[j].name = given[j].name)'
    BY <1>1, <1>2, <1>0, <1>3 DEF MarketInv, MarketAlone, Handles, MarketAt, MarketTyped, MarketConstants, MarketWhole, Named
  <2>2. ASSUME NEW d \in k.client, MarketAt(d, {"updateSteps"}, j)' PROVE templates'[j].name = Named(d, j)'
    BY <1>1, <1>2, <1>0, <1>3, <2>2 DEF MarketInv, MarketAlone, Handles, MarketAt, MarketTyped, MarketConstants, MarketWhole, Named
  <2>3. ASSUME NEW d \in k.client, MarketAt(d, {"fork"}, j)' PROVE tOp'[d].steps = templates'[j].steps
    BY <1>1, <1>2, <1>0, <1>3, <2>3 DEF MarketInv, MarketAlone, Handles, MarketAt, MarketTyped, MarketConstants, MarketWhole, Named
  <2>4. (templates[j].steps = given[j].steps)'
    BY <1>1, <1>2, <1>0, <1>3 DEF MarketInv, MarketAlone, Handles, MarketAt, MarketTyped, MarketConstants, MarketWhole, Named
  <2> QED
    BY <2>1, <2>2, <2>3, <2>4
<1>8. MarketRated(k)'
  <2>1. \A j \in k.id \ tUsed' : reviews'[j] = <<>>
    BY <1>1, <1>2, <1>0, <1>3 DEF MarketInv, MarketRated, MarketTyped
  <2> SUFFICES ASSUME NEW j \in DOMAIN templates' \ clashed'
               PROVE  (/\ reviews[j] # <<>> /\ (\A d \in k.client : ~MarketAt(d, {"average", "rate"}, j))
                            => templates[j].rating = Market(k)!Averaged(j)
                       /\ \A d \in k.client : MarketAt(d, {"rate"}, j) => tOp[d].rating = Market(k)!Averaged(j))'
    BY <2>1 DEF MarketRated
  <2>a. Market(k)!Averaged(j)' = Market(k)!Averaged(j)
    BY <1>3 DEF Market!Averaged
  <2>2. (reviews[j] # <<>> /\ (\A d \in k.client : ~MarketAt(d, {"average", "rate"}, j))
           => templates[j].rating = Market(k)!Averaged(j))'
    BY <1>1, <1>2, <1>0, <1>3, <2>a, SMTT(30) DEF MarketInv, MarketAlone, Handles, MarketAt, MarketTyped, MarketConstants, MarketRated
  <2>3. ASSUME NEW d \in k.client, MarketAt(d, {"rate"}, j)' PROVE tOp'[d].rating = Market(k)!Averaged(j)'
    BY <1>1, <1>2, <1>0, <1>3, <2>3, <2>a, SMTT(30) DEF MarketInv, MarketAlone, Handles, MarketAt, MarketTyped, MarketConstants, MarketRated
  <2> QED
    BY <2>2, <2>3
<1>9. MarketCounted(k)'
  <2>1. \A j \in DOMAIN listings' \ clashed' : listings'[j].installs = installs'[j]
    BY <1>1, <1>2, <1>0, <1>3 DEF MarketInv, MarketAlone, Handles, MarketAt, MarketTyped, MarketConstants, MarketCounted
  <2>2. ASSUME NEW d \in k.client, NEW j \in k.id \ clashed', MarketAt(d, {"edit", "original", "fork", "count"}, j)'
        PROVE  tOp'[d].copy.installs = installs'[j]
    BY <1>1, <1>2, <1>0, <1>3, <2>2 DEF MarketInv, MarketAlone, Handles, MarketAt, MarketTyped, MarketConstants, MarketCounted
  <2> QED
    BY <2>1, <2>2 DEF MarketCounted
<1> QED
  BY <1>4, <1>5, <1>6, <1>7, <1>8, <1>9 DEF MarketInv

LEMMA MarketCount ==
  ASSUME NEW k, MarketConstants(k), MarketInv(k), NEW c \in k.client, Market(k)!Count(c)
  PROVE  MarketInv(k)'
<1>0. MarketTyped(k) /\ Market(k)!Idle.call = "idle"
  BY MarketIdle DEF MarketInv
<1>1. PICK id \in tUsed : id = tOp[c].id /\ tOp[c].call = "count"
  BY <1>0 DEF Market!Count, MarketTyped, MarketCalls
<1>2. /\ DOMAIN tOp' = k.client /\ tOp'[c] = Market(k)!Idle /\ tOp'[c].call = "idle"
      /\ \A d \in k.client \ {c} : tOp'[d] = tOp[d]
  BY <1>0, <1>1, MarketSet DEF Market!Count, Market!Done, MarketTyped
<1>3. /\ DOMAIN listings' = DOMAIN listings /\ (\A j \in DOMAIN listings \ {id} : listings'[j] = listings[j])
      /\ {"version", "featured", "installs"} \subseteq DOMAIN tOp[c].copy
      /\ DOMAIN installs' = DOMAIN installs /\ (\A j \in k.id \ {id} : installs'[j] = installs[j])
      /\ (id \in DOMAIN listings => /\ {"version", "featured", "installs"} \subseteq DOMAIN listings'[id]
                                    /\ listings'[id].installs = tOp[c].copy.installs + 1
                                    /\ installs'[id] = installs[id] + 1)
  BY <1>0, <1>1 DEF Market!Count, MarketTyped, MarketConstants, Market!PutBack, Market!Listed
<1>4. UNCHANGED <<templates, reviews, recorder, tUsed, clashed, given>>
  BY DEF Market!Count
<1>5. MarketTyped(k)'
  BY <1>1, <1>2, <1>0, <1>3, <1>4, MarketIdle DEF MarketTyped, MarketCalls, MarketConstants
<1>6. MarketAlone(k)'
  BY <1>1, <1>2, <1>0, <1>4 DEF MarketInv, MarketAlone, Handles
<1>7. MarketRecorder(k)'
  BY <1>1, <1>2, <1>0, <1>4 DEF MarketInv, MarketRecorder, Handles, MarketConstants, MarketTyped
<1>8. MarketWhole(k)'
  <2> SUFFICES ASSUME NEW j \in DOMAIN templates' \ clashed'
               PROVE  (/\ (\A d \in k.client : ~MarketAt(d, {"updateSteps"}, j)) => templates[j].name = given[j].name
                       /\ \A d \in k.client : MarketAt(d, {"updateSteps"}, j) => templates[j].name = Named(d, j)
                       /\ \A d \in k.client : MarketAt(d, {"fork"}, j) => tOp[d].steps = templates[j].steps
                       /\ templates[j].steps = given[j].steps)'
    BY DEF MarketWhole
  <2>1. ((\A d \in k.client : ~MarketAt(d, {"updateSteps"}, j)) => templates[j].name = given[j].name)'
    BY <1>1, <1>2, <1>0, <1>3, <1>4 DEF MarketInv, MarketAlone, Handles, MarketAt, MarketTyped, MarketConstants, MarketWhole, Named
  <2>2. ASSUME NEW d \in k.client, MarketAt(d, {"updateSteps"}, j)' PROVE templates'[j].name = Named(d, j)'
    BY <1>1, <1>2, <1>0, <1>3, <1>4, <2>2 DEF MarketInv, MarketAlone, Handles, MarketAt, MarketTyped, MarketConstants, MarketWhole, Named
  <2>3. ASSUME NEW d \in k.client, MarketAt(d, {"fork"}, j)' PROVE tOp'[d].steps = templates'[j].steps
    BY <1>1, <1>2, <1>0, <1>3, <1>4, <2>3 DEF MarketInv, MarketAlone, Handles, MarketAt, MarketTyped, MarketConstants, MarketWhole, Named
  <2>4. (templates[j].steps = given[j].steps)'
    BY <1>1, <1>2, <1>0, <1>3, <1>4 DEF MarketInv, MarketAlone, Handles, MarketAt, MarketTyped, MarketConstants, MarketWhole, Named
  <2> QED
    BY <2>1, <2>2, <2>3, <2>4
<1>9. MarketRated(k)'
  <2>1. \A j \in k.id \ tUsed' : reviews'[j] = <<>>
    BY <1>1, <1>2, <1>0, <1>3, <1>4 DEF MarketInv, MarketRated, MarketTyped
  <2> SUFFICES ASSUME NEW j \in DOMAIN templates' \ clashed'
               PROVE  (/\ reviews[j] # <<>> /\ (\A d \in k.client : ~MarketAt(d, {"average", "rate"}, j))
                            => templates[j].rating = Market(k)!Averaged(j)
                       /\ \A d \in k.client : MarketAt(d, {"rate"}, j) => tOp[d].rating = Market(k)!Averaged(j))'
    BY <2>1 DEF MarketRated
  <2>a. Market(k)!Averaged(j)' = Market(k)!Averaged(j)
    BY <1>4 DEF Market!Averaged
  <2>2. (reviews[j] # <<>> /\ (\A d \in k.client : ~MarketAt(d, {"average", "rate"}, j))
           => templates[j].rating = Market(k)!Averaged(j))'
    BY <1>1, <1>2, <1>0, <1>3, <1>4, <2>a, SMTT(30) DEF MarketInv, MarketAlone, Handles, MarketAt, MarketTyped, MarketConstants, MarketRated
  <2>3. ASSUME NEW d \in k.client, MarketAt(d, {"rate"}, j)' PROVE tOp'[d].rating = Market(k)!Averaged(j)'
    BY <1>1, <1>2, <1>0, <1>3, <1>4, <2>3, <2>a, SMTT(30) DEF MarketInv, MarketAlone, Handles, MarketAt, MarketTyped, MarketConstants, MarketRated
  <2> QED
    BY <2>2, <2>3
<1>10. MarketCounted(k)'
  <2>1. \A j \in DOMAIN listings' \ clashed' : listings'[j].installs = installs'[j]
    BY <1>1, <1>2, <1>0, <1>3, <1>4 DEF MarketInv, MarketAlone, Handles, MarketAt, MarketTyped, MarketConstants, MarketCounted
  <2>2. ASSUME NEW d \in k.client, NEW j \in k.id \ clashed', MarketAt(d, {"edit", "original", "fork", "count"}, j)'
        PROVE  tOp'[d].copy.installs = installs'[j]
    BY <1>1, <1>2, <1>0, <1>3, <1>4, <2>2 DEF MarketInv, MarketAlone, Handles, MarketAt, MarketTyped, MarketConstants, MarketCounted
  <2> QED
    BY <2>1, <2>2 DEF MarketCounted
<1> QED
  BY <1>5, <1>6, <1>7, <1>8, <1>9, <1>10 DEF MarketInv

LEMMA MarketAddReview ==
  ASSUME NEW k, MarketConstants(k), MarketInv(k), NEW c \in k.client, NEW id \in k.id, NEW rating, Market(k)!AddReview(c, id, rating)
  PROVE  MarketInv(k)'
<1>0. MarketTyped(k) /\ Market(k)!Idle.call = "idle"
  BY MarketIdle DEF MarketInv
<1>1. tOp[c].call = "idle" /\ id \in tUsed
  BY <1>0 DEF Market!AddReview, Market!Live, Market!Listed, MarketTyped
<1>2. /\ DOMAIN tOp' = k.client /\ {"call", "id"} \subseteq DOMAIN tOp'[c]
      /\ tOp'[c].call = "average" /\ tOp'[c].id = id
      /\ \A d \in k.client \ {c} : tOp'[d] = tOp[d]
  BY <1>0, MarketSet DEF Market!Begin, Market!AddReview, MarketTyped
<1>3. /\ clashed \subseteq clashed' /\ (id \notin clashed' => \A d \in k.client : ~Handles(d, id))
      /\ (0 \notin clashed' <=> 0 \notin clashed)
      /\ DOMAIN reviews' = DOMAIN reviews /\ (\A j \in k.id \ {id} : reviews'[j] = reviews[j])
      /\ id \in DOMAIN listings /\ UNCHANGED <<templates, listings, recorder, tUsed, installs, given>>
  BY <1>0, <1>1, MarketOnIt DEF Market!AddReview, MarketTyped, MarketConstants, Market!Meet, Market!Listed
<1>4. MarketTyped(k)'
  BY <1>1, <1>2, <1>0, <1>3, MarketIdle DEF MarketTyped, MarketCalls, MarketConstants
<1>5. MarketAlone(k)'
  BY <1>1, <1>2, <1>0, <1>3 DEF MarketInv, MarketAlone, Handles
<1>6. MarketRecorder(k)'
  BY <1>1, <1>2, <1>0, <1>3 DEF MarketInv, MarketRecorder, Handles, MarketConstants, MarketTyped
<1>7. MarketWhole(k)'
  <2> SUFFICES ASSUME NEW j \in DOMAIN templates' \ clashed'
               PROVE  (/\ (\A d \in k.client : ~MarketAt(d, {"updateSteps"}, j)) => templates[j].name = given[j].name
                       /\ \A d \in k.client : MarketAt(d, {"updateSteps"}, j) => templates[j].name = Named(d, j)
                       /\ \A d \in k.client : MarketAt(d, {"fork"}, j) => tOp[d].steps = templates[j].steps
                       /\ templates[j].steps = given[j].steps)'
    BY DEF MarketWhole
  <2>1. ((\A d \in k.client : ~MarketAt(d, {"updateSteps"}, j)) => templates[j].name = given[j].name)'
    BY <1>1, <1>2, <1>0, <1>3 DEF MarketInv, MarketAlone, Handles, MarketAt, MarketTyped, MarketConstants, MarketWhole, Named
  <2>2. ASSUME NEW d \in k.client, MarketAt(d, {"updateSteps"}, j)' PROVE templates'[j].name = Named(d, j)'
    BY <1>1, <1>2, <1>0, <1>3, <2>2 DEF MarketInv, MarketAlone, Handles, MarketAt, MarketTyped, MarketConstants, MarketWhole, Named
  <2>3. ASSUME NEW d \in k.client, MarketAt(d, {"fork"}, j)' PROVE tOp'[d].steps = templates'[j].steps
    BY <1>1, <1>2, <1>0, <1>3, <2>3 DEF MarketInv, MarketAlone, Handles, MarketAt, MarketTyped, MarketConstants, MarketWhole, Named
  <2>4. (templates[j].steps = given[j].steps)'
    BY <1>1, <1>2, <1>0, <1>3 DEF MarketInv, MarketAlone, Handles, MarketAt, MarketTyped, MarketConstants, MarketWhole, Named
  <2> QED
    BY <2>1, <2>2, <2>3, <2>4
<1>8. MarketRated(k)'
  <2>1. \A j \in k.id \ tUsed' : reviews'[j] = <<>>
    BY <1>1, <1>2, <1>0, <1>3 DEF MarketInv, MarketRated, MarketTyped
  <2> SUFFICES ASSUME NEW j \in DOMAIN templates' \ clashed'
               PROVE  (/\ reviews[j] # <<>> /\ (\A d \in k.client : ~MarketAt(d, {"average", "rate"}, j))
                            => templates[j].rating = Market(k)!Averaged(j)
                       /\ \A d \in k.client : MarketAt(d, {"rate"}, j) => tOp[d].rating = Market(k)!Averaged(j))'
    BY <2>1 DEF MarketRated
  <2>a. j # id => Market(k)!Averaged(j)' = Market(k)!Averaged(j)
    BY <1>3, <1>0, <1>1 DEF MarketTyped, Market!Averaged
  <2>2. (reviews[j] # <<>> /\ (\A d \in k.client : ~MarketAt(d, {"average", "rate"}, j))
           => templates[j].rating = Market(k)!Averaged(j))'
    BY <1>1, <1>2, <1>0, <1>3, <2>a, SMTT(30) DEF MarketInv, MarketAlone, Handles, MarketAt, MarketTyped, MarketConstants, MarketRated
  <2>3. ASSUME NEW d \in k.client, MarketAt(d, {"rate"}, j)' PROVE tOp'[d].rating = Market(k)!Averaged(j)'
    BY <1>1, <1>2, <1>0, <1>3, <2>3, <2>a, SMTT(30) DEF MarketInv, MarketAlone, Handles, MarketAt, MarketTyped, MarketConstants, MarketRated
  <2> QED
    BY <2>2, <2>3
<1>9. MarketCounted(k)'
  <2>1. \A j \in DOMAIN listings' \ clashed' : listings'[j].installs = installs'[j]
    BY <1>1, <1>2, <1>0, <1>3 DEF MarketInv, MarketAlone, Handles, MarketAt, MarketTyped, MarketConstants, MarketCounted
  <2>2. ASSUME NEW d \in k.client, NEW j \in k.id \ clashed', MarketAt(d, {"edit", "original", "fork", "count"}, j)'
        PROVE  tOp'[d].copy.installs = installs'[j]
    BY <1>1, <1>2, <1>0, <1>3, <2>2 DEF MarketInv, MarketAlone, Handles, MarketAt, MarketTyped, MarketConstants, MarketCounted
  <2> QED
    BY <2>1, <2>2 DEF MarketCounted
<1> QED
  BY <1>4, <1>5, <1>6, <1>7, <1>8, <1>9 DEF MarketInv

LEMMA MarketAverage ==
  ASSUME NEW k, MarketConstants(k), MarketInv(k), NEW c \in k.client, Market(k)!Average(c)
  PROVE  MarketInv(k)'
<1>0. MarketTyped(k) /\ Market(k)!Idle.call = "idle"
  BY MarketIdle DEF MarketInv
<1>1. PICK id \in tUsed : id = tOp[c].id /\ tOp[c].call = "average"
  BY <1>0 DEF Market!Average, MarketTyped, MarketCalls
<1>2. /\ DOMAIN tOp' = k.client
      /\ \/ tOp'[c] = Market(k)!Idle /\ id \notin DOMAIN templates
         \/ /\ {"call", "id"} \subseteq DOMAIN tOp'[c] /\ tOp'[c].call = "rate" /\ tOp'[c].id = id
            /\ tOp'[c].rating = Market(k)!Averaged(id)
      /\ \A d \in k.client \ {c} : tOp'[d] = tOp[d]
  BY <1>0, <1>1, MarketSet DEF Market!Average, Market!Done, Market!Live
<1>3. UNCHANGED <<templates, listings, reviews, recorder, tUsed, installs, clashed, given>>
  BY <1>0, <1>1 DEF Market!Average, MarketTyped, MarketConstants
<1>4. MarketTyped(k)'
  BY <1>1, <1>2, <1>0, <1>3, MarketIdle DEF MarketTyped, MarketCalls, MarketConstants
<1>5. MarketAlone(k)'
  BY <1>1, <1>2, <1>0, <1>3 DEF MarketInv, MarketAlone, Handles
<1>6. MarketRecorder(k)'
  BY <1>1, <1>2, <1>0, <1>3 DEF MarketInv, MarketRecorder, Handles, MarketConstants, MarketTyped
<1>7. MarketWhole(k)'
  <2> SUFFICES ASSUME NEW j \in DOMAIN templates' \ clashed'
               PROVE  (/\ (\A d \in k.client : ~MarketAt(d, {"updateSteps"}, j)) => templates[j].name = given[j].name
                       /\ \A d \in k.client : MarketAt(d, {"updateSteps"}, j) => templates[j].name = Named(d, j)
                       /\ \A d \in k.client : MarketAt(d, {"fork"}, j) => tOp[d].steps = templates[j].steps
                       /\ templates[j].steps = given[j].steps)'
    BY DEF MarketWhole
  <2>1. ((\A d \in k.client : ~MarketAt(d, {"updateSteps"}, j)) => templates[j].name = given[j].name)'
    BY <1>1, <1>2, <1>0, <1>3 DEF MarketInv, MarketAlone, Handles, MarketAt, MarketTyped, MarketConstants, MarketWhole, Named
  <2>2. ASSUME NEW d \in k.client, MarketAt(d, {"updateSteps"}, j)' PROVE templates'[j].name = Named(d, j)'
    BY <1>1, <1>2, <1>0, <1>3, <2>2 DEF MarketInv, MarketAlone, Handles, MarketAt, MarketTyped, MarketConstants, MarketWhole, Named
  <2>3. ASSUME NEW d \in k.client, MarketAt(d, {"fork"}, j)' PROVE tOp'[d].steps = templates'[j].steps
    BY <1>1, <1>2, <1>0, <1>3, <2>3 DEF MarketInv, MarketAlone, Handles, MarketAt, MarketTyped, MarketConstants, MarketWhole, Named
  <2>4. (templates[j].steps = given[j].steps)'
    BY <1>1, <1>2, <1>0, <1>3 DEF MarketInv, MarketAlone, Handles, MarketAt, MarketTyped, MarketConstants, MarketWhole, Named
  <2> QED
    BY <2>1, <2>2, <2>3, <2>4
<1>8. MarketRated(k)'
  <2>1. \A j \in k.id \ tUsed' : reviews'[j] = <<>>
    BY <1>1, <1>2, <1>0, <1>3 DEF MarketInv, MarketRated, MarketTyped
  <2> SUFFICES ASSUME NEW j \in DOMAIN templates' \ clashed'
               PROVE  (/\ reviews[j] # <<>> /\ (\A d \in k.client : ~MarketAt(d, {"average", "rate"}, j))
                            => templates[j].rating = Market(k)!Averaged(j)
                       /\ \A d \in k.client : MarketAt(d, {"rate"}, j) => tOp[d].rating = Market(k)!Averaged(j))'
    BY <2>1 DEF MarketRated
  <2>a. Market(k)!Averaged(j)' = Market(k)!Averaged(j)
    BY <1>3 DEF Market!Averaged
  <2>2. (reviews[j] # <<>> /\ (\A d \in k.client : ~MarketAt(d, {"average", "rate"}, j))
           => templates[j].rating = Market(k)!Averaged(j))'
    BY <1>1, <1>2, <1>0, <1>3, <2>a, SMTT(30) DEF MarketInv, MarketAlone, Handles, MarketAt, MarketTyped, MarketConstants, MarketRated
  <2>3. ASSUME NEW d \in k.client, MarketAt(d, {"rate"}, j)' PROVE tOp'[d].rating = Market(k)!Averaged(j)'
    BY <1>1, <1>2, <1>0, <1>3, <2>3, <2>a, SMTT(30) DEF MarketInv, MarketAlone, Handles, MarketAt, MarketTyped, MarketConstants, MarketRated
  <2> QED
    BY <2>2, <2>3
<1>9. MarketCounted(k)'
  <2>1. \A j \in DOMAIN listings' \ clashed' : listings'[j].installs = installs'[j]
    BY <1>1, <1>2, <1>0, <1>3 DEF MarketInv, MarketAlone, Handles, MarketAt, MarketTyped, MarketConstants, MarketCounted
  <2>2. ASSUME NEW d \in k.client, NEW j \in k.id \ clashed', MarketAt(d, {"edit", "original", "fork", "count"}, j)'
        PROVE  tOp'[d].copy.installs = installs'[j]
    BY <1>1, <1>2, <1>0, <1>3, <2>2 DEF MarketInv, MarketAlone, Handles, MarketAt, MarketTyped, MarketConstants, MarketCounted
  <2> QED
    BY <2>1, <2>2 DEF MarketCounted
<1> QED
  BY <1>4, <1>5, <1>6, <1>7, <1>8, <1>9 DEF MarketInv

LEMMA MarketSetRating ==
  ASSUME NEW k, MarketConstants(k), MarketInv(k), NEW c \in k.client, Market(k)!SetRating(c)
  PROVE  MarketInv(k)'
<1>0. MarketTyped(k) /\ Market(k)!Idle.call = "idle"
  BY MarketIdle DEF MarketInv
<1>1. PICK id \in tUsed : id = tOp[c].id /\ tOp[c].call = "rate"
  BY <1>0 DEF Market!SetRating, MarketTyped, MarketCalls
<1>2. /\ DOMAIN tOp' = k.client /\ tOp'[c] = Market(k)!Idle /\ tOp'[c].call = "idle"
      /\ \A d \in k.client \ {c} : tOp'[d] = tOp[d]
  BY <1>0, <1>1, MarketSet DEF Market!Done, Market!SetRating, MarketTyped
<1>3. /\ DOMAIN templates' = DOMAIN templates /\ (\A j \in DOMAIN templates \ {id} : templates'[j] = templates[j])
      /\ (id \in DOMAIN templates => /\ DOMAIN templates'[id] = DOMAIN templates[id]
                                     /\ templates'[id].name = templates[id].name
                                     /\ templates'[id].steps = templates[id].steps
                                     /\ templates'[id].rating = tOp[c].rating)
  BY <1>0, <1>1 DEF Market!SetRating, MarketTyped, MarketConstants, Market!Assign, Market!Live
<1>4. UNCHANGED <<listings, reviews, recorder, tUsed, installs, clashed, given>>
  BY DEF Market!SetRating
<1>5. MarketTyped(k)'
  BY <1>1, <1>2, <1>0, <1>3, <1>4, MarketIdle DEF MarketTyped, MarketCalls, MarketConstants
<1>6. MarketAlone(k)'
  BY <1>1, <1>2, <1>0, <1>4 DEF MarketInv, MarketAlone, Handles
<1>7. MarketRecorder(k)'
  BY <1>1, <1>2, <1>0, <1>4 DEF MarketInv, MarketRecorder, Handles, MarketConstants, MarketTyped
<1>8. MarketWhole(k)'
  <2> SUFFICES ASSUME NEW j \in DOMAIN templates' \ clashed'
               PROVE  (/\ (\A d \in k.client : ~MarketAt(d, {"updateSteps"}, j)) => templates[j].name = given[j].name
                       /\ \A d \in k.client : MarketAt(d, {"updateSteps"}, j) => templates[j].name = Named(d, j)
                       /\ \A d \in k.client : MarketAt(d, {"fork"}, j) => tOp[d].steps = templates[j].steps
                       /\ templates[j].steps = given[j].steps)'
    BY DEF MarketWhole
  <2>1. ((\A d \in k.client : ~MarketAt(d, {"updateSteps"}, j)) => templates[j].name = given[j].name)'
    BY <1>1, <1>2, <1>0, <1>3, <1>4 DEF MarketInv, MarketAlone, Handles, MarketAt, MarketTyped, MarketConstants, MarketWhole, Named
  <2>2. ASSUME NEW d \in k.client, MarketAt(d, {"updateSteps"}, j)' PROVE templates'[j].name = Named(d, j)'
    BY <1>1, <1>2, <1>0, <1>3, <1>4, <2>2 DEF MarketInv, MarketAlone, Handles, MarketAt, MarketTyped, MarketConstants, MarketWhole, Named
  <2>3. ASSUME NEW d \in k.client, MarketAt(d, {"fork"}, j)' PROVE tOp'[d].steps = templates'[j].steps
    BY <1>1, <1>2, <1>0, <1>3, <1>4, <2>3 DEF MarketInv, MarketAlone, Handles, MarketAt, MarketTyped, MarketConstants, MarketWhole, Named
  <2>4. (templates[j].steps = given[j].steps)'
    BY <1>1, <1>2, <1>0, <1>3, <1>4 DEF MarketInv, MarketAlone, Handles, MarketAt, MarketTyped, MarketConstants, MarketWhole, Named
  <2> QED
    BY <2>1, <2>2, <2>3, <2>4
<1>9. MarketRated(k)'
  <2>1. \A j \in k.id \ tUsed' : reviews'[j] = <<>>
    BY <1>1, <1>2, <1>0, <1>3, <1>4 DEF MarketInv, MarketRated, MarketTyped
  <2> SUFFICES ASSUME NEW j \in DOMAIN templates' \ clashed'
               PROVE  (/\ reviews[j] # <<>> /\ (\A d \in k.client : ~MarketAt(d, {"average", "rate"}, j))
                            => templates[j].rating = Market(k)!Averaged(j)
                       /\ \A d \in k.client : MarketAt(d, {"rate"}, j) => tOp[d].rating = Market(k)!Averaged(j))'
    BY <2>1 DEF MarketRated
  <2>a. Market(k)!Averaged(j)' = Market(k)!Averaged(j)
    BY <1>4 DEF Market!Averaged
  <2>2. (reviews[j] # <<>> /\ (\A d \in k.client : ~MarketAt(d, {"average", "rate"}, j))
           => templates[j].rating = Market(k)!Averaged(j))'
    BY <1>1, <1>2, <1>0, <1>3, <1>4, <2>a, SMTT(30) DEF MarketInv, MarketAlone, Handles, MarketAt, MarketTyped, MarketConstants, MarketRated
  <2>3. ASSUME NEW d \in k.client, MarketAt(d, {"rate"}, j)' PROVE tOp'[d].rating = Market(k)!Averaged(j)'
    BY <1>1, <1>2, <1>0, <1>3, <1>4, <2>3, <2>a, SMTT(30) DEF MarketInv, MarketAlone, Handles, MarketAt, MarketTyped, MarketConstants, MarketRated
  <2> QED
    BY <2>2, <2>3
<1>10. MarketCounted(k)'
  <2>1. \A j \in DOMAIN listings' \ clashed' : listings'[j].installs = installs'[j]
    BY <1>1, <1>2, <1>0, <1>3, <1>4 DEF MarketInv, MarketAlone, Handles, MarketAt, MarketTyped, MarketConstants, MarketCounted
  <2>2. ASSUME NEW d \in k.client, NEW j \in k.id \ clashed', MarketAt(d, {"edit", "original", "fork", "count"}, j)'
        PROVE  tOp'[d].copy.installs = installs'[j]
    BY <1>1, <1>2, <1>0, <1>3, <1>4, <2>2 DEF MarketInv, MarketAlone, Handles, MarketAt, MarketTyped, MarketConstants, MarketCounted
  <2> QED
    BY <2>1, <2>2 DEF MarketCounted
<1> QED
  BY <1>5, <1>6, <1>7, <1>8, <1>9, <1>10 DEF MarketInv

LEMMA MarketStartRecording ==
  ASSUME NEW k, MarketConstants(k), MarketInv(k), NEW c \in k.client, NEW user, Market(k)!StartRecording(c, user)
  PROVE  MarketInv(k)'
<1>0. MarketTyped(k) /\ Market(k)!Idle.call = "idle"
  BY MarketIdle DEF MarketInv
<1>3. /\ {"on", "name", "steps"} \subseteq DOMAIN recorder' /\ recorder'.name = c /\ recorder'.steps = c
      /\ clashed \subseteq clashed' /\ (0 \notin clashed' => 0 \notin clashed /\ \A d \in k.client : ~Handles(d, 0))
      /\ UNCHANGED <<templates, listings, reviews, tOp, tUsed, installs, given>>
  BY <1>0, MarketOnIt DEF Market!StartRecording, MarketTyped, MarketConstants, Market!Recorder
<1>4. MarketTyped(k)'
  BY <1>0, <1>3, MarketIdle DEF MarketTyped, MarketCalls, MarketConstants
<1>5. MarketAlone(k)'
  BY <1>0, <1>3 DEF MarketInv, MarketAlone, Handles
<1>6. MarketRecorder(k)'
  BY <1>0, <1>3 DEF MarketInv, MarketRecorder, Handles, MarketConstants, MarketTyped
<1>7. MarketWhole(k)'
  <2> SUFFICES ASSUME NEW j \in DOMAIN templates' \ clashed'
               PROVE  (/\ (\A d \in k.client : ~MarketAt(d, {"updateSteps"}, j)) => templates[j].name = given[j].name
                       /\ \A d \in k.client : MarketAt(d, {"updateSteps"}, j) => templates[j].name = Named(d, j)
                       /\ \A d \in k.client : MarketAt(d, {"fork"}, j) => tOp[d].steps = templates[j].steps
                       /\ templates[j].steps = given[j].steps)'
    BY DEF MarketWhole
  <2>1. ((\A d \in k.client : ~MarketAt(d, {"updateSteps"}, j)) => templates[j].name = given[j].name)'
    BY <1>0, <1>3 DEF MarketInv, MarketAlone, Handles, MarketAt, MarketTyped, MarketConstants, MarketWhole, Named
  <2>2. ASSUME NEW d \in k.client, MarketAt(d, {"updateSteps"}, j)' PROVE templates'[j].name = Named(d, j)'
    BY <1>0, <1>3, <2>2 DEF MarketInv, MarketAlone, Handles, MarketAt, MarketTyped, MarketConstants, MarketWhole, Named
  <2>3. ASSUME NEW d \in k.client, MarketAt(d, {"fork"}, j)' PROVE tOp'[d].steps = templates'[j].steps
    BY <1>0, <1>3, <2>3 DEF MarketInv, MarketAlone, Handles, MarketAt, MarketTyped, MarketConstants, MarketWhole, Named
  <2>4. (templates[j].steps = given[j].steps)'
    BY <1>0, <1>3 DEF MarketInv, MarketAlone, Handles, MarketAt, MarketTyped, MarketConstants, MarketWhole, Named
  <2> QED
    BY <2>1, <2>2, <2>3, <2>4
<1>8. MarketRated(k)'
  <2>1. \A j \in k.id \ tUsed' : reviews'[j] = <<>>
    BY <1>0, <1>3 DEF MarketInv, MarketRated, MarketTyped
  <2> SUFFICES ASSUME NEW j \in DOMAIN templates' \ clashed'
               PROVE  (/\ reviews[j] # <<>> /\ (\A d \in k.client : ~MarketAt(d, {"average", "rate"}, j))
                            => templates[j].rating = Market(k)!Averaged(j)
                       /\ \A d \in k.client : MarketAt(d, {"rate"}, j) => tOp[d].rating = Market(k)!Averaged(j))'
    BY <2>1 DEF MarketRated
  <2>a. Market(k)!Averaged(j)' = Market(k)!Averaged(j)
    BY <1>3 DEF Market!Averaged
  <2>2. (reviews[j] # <<>> /\ (\A d \in k.client : ~MarketAt(d, {"average", "rate"}, j))
           => templates[j].rating = Market(k)!Averaged(j))'
    BY <1>0, <1>3, <2>a, SMTT(30) DEF MarketInv, MarketAlone, Handles, MarketAt, MarketTyped, MarketConstants, MarketRated
  <2>3. ASSUME NEW d \in k.client, MarketAt(d, {"rate"}, j)' PROVE tOp'[d].rating = Market(k)!Averaged(j)'
    BY <1>0, <1>3, <2>3, <2>a, SMTT(30) DEF MarketInv, MarketAlone, Handles, MarketAt, MarketTyped, MarketConstants, MarketRated
  <2> QED
    BY <2>2, <2>3
<1>9. MarketCounted(k)'
  <2>1. \A j \in DOMAIN listings' \ clashed' : listings'[j].installs = installs'[j]
    BY <1>0, <1>3 DEF MarketInv, MarketAlone, Handles, MarketAt, MarketTyped, MarketConstants, MarketCounted
  <2>2. ASSUME NEW d \in k.client, NEW j \in k.id \ clashed', MarketAt(d, {"edit", "original", "fork", "count"}, j)'
        PROVE  tOp'[d].copy.installs = installs'[j]
    BY <1>0, <1>3, <2>2 DEF MarketInv, MarketAlone, Handles, MarketAt, MarketTyped, MarketConstants, MarketCounted
  <2> QED
    BY <2>1, <2>2 DEF MarketCounted
<1> QED
  BY <1>4, <1>5, <1>6, <1>7, <1>8, <1>9 DEF MarketInv

LEMMA MarketStopRecording ==
  ASSUME NEW k, MarketConstants(k), MarketInv(k), NEW c \in k.client, Market(k)!StopRecording(c)
  PROVE  MarketInv(k)'
<1>0. MarketTyped(k) /\ Market(k)!Idle.call = "idle"
  BY MarketIdle DEF MarketInv
<1>2. /\ DOMAIN tOp' = k.client /\ {"call", "id"} \subseteq DOMAIN tOp'[c]
      /\ tOp'[c].call = "recorded" /\ tOp'[c].id = 0 /\ tOp'[c].steps = recorder.steps
      /\ \A d \in k.client \ {c} : tOp'[d] = tOp[d]
  BY <1>0, MarketSet DEF Market!StopRecording, Market!Begin, Market!Recorder, MarketTyped
<1>3. /\ tOp[c].call = "idle" /\ recorder.on /\ recorder'.name = recorder.name /\ recorder'.steps = recorder.steps
      /\ DOMAIN recorder' = DOMAIN recorder /\ (~recorder'.on)
      /\ UNCHANGED <<templates, listings, reviews, tUsed, installs, clashed, given>>
  BY <1>0 DEF Market!StopRecording, MarketTyped, MarketConstants, MarketRecorder, MarketInv
<1>4. MarketTyped(k)'
  BY <1>2, <1>0, <1>3, MarketIdle DEF MarketTyped, MarketCalls, MarketConstants
<1>5. MarketAlone(k)'
  BY <1>2, <1>0, <1>3 DEF MarketInv, MarketAlone, Handles, MarketRecorder
<1>6. MarketRecorder(k)'
  BY <1>2, <1>0, <1>3 DEF MarketInv, MarketRecorder, Handles, MarketConstants, MarketTyped
<1>7. MarketWhole(k)'
  <2> SUFFICES ASSUME NEW j \in DOMAIN templates' \ clashed'
               PROVE  (/\ (\A d \in k.client : ~MarketAt(d, {"updateSteps"}, j)) => templates[j].name = given[j].name
                       /\ \A d \in k.client : MarketAt(d, {"updateSteps"}, j) => templates[j].name = Named(d, j)
                       /\ \A d \in k.client : MarketAt(d, {"fork"}, j) => tOp[d].steps = templates[j].steps
                       /\ templates[j].steps = given[j].steps)'
    BY DEF MarketWhole
  <2>1. ((\A d \in k.client : ~MarketAt(d, {"updateSteps"}, j)) => templates[j].name = given[j].name)'
    BY <1>2, <1>0, <1>3 DEF MarketInv, MarketAlone, Handles, MarketAt, MarketTyped, MarketConstants, MarketWhole, Named
  <2>2. ASSUME NEW d \in k.client, MarketAt(d, {"updateSteps"}, j)' PROVE templates'[j].name = Named(d, j)'
    BY <1>2, <1>0, <1>3, <2>2 DEF MarketInv, MarketAlone, Handles, MarketAt, MarketTyped, MarketConstants, MarketWhole, Named
  <2>3. ASSUME NEW d \in k.client, MarketAt(d, {"fork"}, j)' PROVE tOp'[d].steps = templates'[j].steps
    BY <1>2, <1>0, <1>3, <2>3 DEF MarketInv, MarketAlone, Handles, MarketAt, MarketTyped, MarketConstants, MarketWhole, Named
  <2>4. (templates[j].steps = given[j].steps)'
    BY <1>2, <1>0, <1>3 DEF MarketInv, MarketAlone, Handles, MarketAt, MarketTyped, MarketConstants, MarketWhole, Named
  <2> QED
    BY <2>1, <2>2, <2>3, <2>4
<1>8. MarketRated(k)'
  <2>1. \A j \in k.id \ tUsed' : reviews'[j] = <<>>
    BY <1>2, <1>0, <1>3 DEF MarketInv, MarketRated, MarketTyped
  <2> SUFFICES ASSUME NEW j \in DOMAIN templates' \ clashed'
               PROVE  (/\ reviews[j] # <<>> /\ (\A d \in k.client : ~MarketAt(d, {"average", "rate"}, j))
                            => templates[j].rating = Market(k)!Averaged(j)
                       /\ \A d \in k.client : MarketAt(d, {"rate"}, j) => tOp[d].rating = Market(k)!Averaged(j))'
    BY <2>1 DEF MarketRated
  <2>a. Market(k)!Averaged(j)' = Market(k)!Averaged(j)
    BY <1>3 DEF Market!Averaged
  <2>2. (reviews[j] # <<>> /\ (\A d \in k.client : ~MarketAt(d, {"average", "rate"}, j))
           => templates[j].rating = Market(k)!Averaged(j))'
    BY <1>2, <1>0, <1>3, <2>a, SMTT(30) DEF MarketInv, MarketAlone, Handles, MarketAt, MarketTyped, MarketConstants, MarketRated
  <2>3. ASSUME NEW d \in k.client, MarketAt(d, {"rate"}, j)' PROVE tOp'[d].rating = Market(k)!Averaged(j)'
    BY <1>2, <1>0, <1>3, <2>3, <2>a, SMTT(30) DEF MarketInv, MarketAlone, Handles, MarketAt, MarketTyped, MarketConstants, MarketRated
  <2> QED
    BY <2>2, <2>3
<1>9. MarketCounted(k)'
  <2>1. \A j \in DOMAIN listings' \ clashed' : listings'[j].installs = installs'[j]
    BY <1>2, <1>0, <1>3 DEF MarketInv, MarketAlone, Handles, MarketAt, MarketTyped, MarketConstants, MarketCounted
  <2>2. ASSUME NEW d \in k.client, NEW j \in k.id \ clashed', MarketAt(d, {"edit", "original", "fork", "count"}, j)'
        PROVE  tOp'[d].copy.installs = installs'[j]
    BY <1>2, <1>0, <1>3, <2>2 DEF MarketInv, MarketAlone, Handles, MarketAt, MarketTyped, MarketConstants, MarketCounted
  <2> QED
    BY <2>1, <2>2 DEF MarketCounted
<1> QED
  BY <1>4, <1>5, <1>6, <1>7, <1>8, <1>9 DEF MarketInv

LEMMA MarketRecorded ==
  ASSUME NEW k, MarketConstants(k), MarketInv(k), NEW c \in k.client, Market(k)!Recorded(c)
  PROVE  MarketInv(k)'
<1>0. MarketTyped(k) /\ Market(k)!Idle.call = "idle"
  BY MarketIdle DEF MarketInv
<1>2. /\ DOMAIN tOp' = k.client /\ tOp'[c] = Market(k)!Idle /\ tOp'[c].call = "idle"
      /\ \A d \in k.client \ {c} : tOp'[d] = tOp[d]
  BY <1>0, MarketSet DEF Market!Recorded, Market!Done, MarketTyped
<1>3. PICK new \in k.id \ tUsed :
        /\ tUsed' = tUsed \cup {new} /\ DOMAIN templates' = DOMAIN templates \cup {new}
        /\ (\A j \in DOMAIN templates : templates'[j] = templates[j])
        /\ {"name", "steps", "public", "rating"} \subseteq DOMAIN templates'[new]
        /\ templates'[new].name = recorder.name /\ templates'[new].steps = tOp[c].steps
        /\ DOMAIN given' = k.id /\ (\A j \in k.id \ {new} : given'[j] = given[j])
        /\ given'[new].name = tOp[c].steps /\ given'[new].steps = tOp[c].steps
        /\ tOp[c].call = "recorded" /\ clashed \subseteq clashed' /\ (0 \in clashed => new \in clashed')
        /\ (0 \notin clashed' <=> 0 \notin clashed)
        /\ UNCHANGED <<listings, reviews, recorder, installs>>
  BY <1>0 DEF Market!Recorded, MarketTyped, MarketConstants, Market!Fresh, Market!With, Market!Template, Market!Recorder
<1>4. MarketTyped(k)'
  BY <1>2, <1>0, <1>3, MarketIdle DEF MarketTyped, MarketCalls, MarketConstants
<1>5. MarketAlone(k)'
  BY <1>2, <1>0, <1>3 DEF MarketInv, MarketAlone, Handles
<1>6. MarketRecorder(k)'
  BY <1>2, <1>0, <1>3 DEF MarketInv, MarketRecorder, Handles, MarketConstants, MarketTyped
<1>7. MarketWhole(k)'
  <2> SUFFICES ASSUME NEW j \in DOMAIN templates' \ clashed'
               PROVE  (/\ (\A d \in k.client : ~MarketAt(d, {"updateSteps"}, j)) => templates[j].name = given[j].name
                       /\ \A d \in k.client : MarketAt(d, {"updateSteps"}, j) => templates[j].name = Named(d, j)
                       /\ \A d \in k.client : MarketAt(d, {"fork"}, j) => tOp[d].steps = templates[j].steps
                       /\ templates[j].steps = given[j].steps)'
    BY DEF MarketWhole
  <2>1. ((\A d \in k.client : ~MarketAt(d, {"updateSteps"}, j)) => templates[j].name = given[j].name)'
    BY <1>2, <1>0, <1>3 DEF MarketInv, MarketAlone, Handles, MarketAt, MarketTyped, MarketConstants, MarketWhole, Named, MarketRecorder
  <2>2. ASSUME NEW d \in k.client, MarketAt(d, {"updateSteps"}, j)' PROVE templates'[j].name = Named(d, j)'
    BY <1>2, <1>0, <1>3, <2>2 DEF MarketInv, MarketAlone, Handles, MarketAt, MarketTyped, MarketConstants, MarketWhole, Named
  <2>3. ASSUME NEW d \in k.client, MarketAt(d, {"fork"}, j)' PROVE tOp'[d].steps = templates'[j].steps
    BY <1>2, <1>0, <1>3, <2>3 DEF MarketInv, MarketAlone, Handles, MarketAt, MarketTyped, MarketConstants, MarketWhole, Named
  <2>4. (templates[j].steps = given[j].steps)'
    BY <1>2, <1>0, <1>3 DEF MarketInv, MarketAlone, Handles, MarketAt, MarketTyped, MarketConstants, MarketWhole, Named
  <2> QED
    BY <2>1, <2>2, <2>3, <2>4
<1>8. MarketRated(k)'
  <2>1. \A j \in k.id \ tUsed' : reviews'[j] = <<>>
    BY <1>2, <1>0, <1>3 DEF MarketInv, MarketRated, MarketTyped
  <2> SUFFICES ASSUME NEW j \in DOMAIN templates' \ clashed'
               PROVE  (/\ reviews[j] # <<>> /\ (\A d \in k.client : ~MarketAt(d, {"average", "rate"}, j))
                            => templates[j].rating = Market(k)!Averaged(j)
                       /\ \A d \in k.client : MarketAt(d, {"rate"}, j) => tOp[d].rating = Market(k)!Averaged(j))'
    BY <2>1 DEF MarketRated
  <2>a. Market(k)!Averaged(j)' = Market(k)!Averaged(j)
    BY <1>3 DEF Market!Averaged
  <2>2. (reviews[j] # <<>> /\ (\A d \in k.client : ~MarketAt(d, {"average", "rate"}, j))
           => templates[j].rating = Market(k)!Averaged(j))'
    <3>1. CASE j = new
      <4>1. reviews'[j] = <<>>
        BY <1>3, <3>1 DEF MarketInv, MarketRated
      <4> QED
        BY <4>1
    <3>2. CASE j # new
      <4>1. j \in DOMAIN templates \ clashed /\ templates'[j] = templates[j] /\ reviews'[j] = reviews[j]
        BY <1>3, <3>2
      <4>2. \A d \in k.client : MarketAt(d, {"average", "rate"}, j) => MarketAt(d, {"average", "rate"}, j)'
        BY <1>2, <1>3 DEF MarketAt
      <4> QED
        BY <2>a, <4>1, <4>2 DEF MarketInv, MarketRated
    <3> QED
      BY <3>1, <3>2
  <2>3. ASSUME NEW d \in k.client, MarketAt(d, {"rate"}, j)' PROVE tOp'[d].rating = Market(k)!Averaged(j)'
    BY <1>2, <1>0, <1>3, <2>3, <2>a, SMTT(30) DEF MarketInv, MarketAlone, Handles, MarketAt, MarketTyped, MarketConstants, MarketRated
  <2> QED
    BY <2>2, <2>3
<1>9. MarketCounted(k)'
  <2>1. \A j \in DOMAIN listings' \ clashed' : listings'[j].installs = installs'[j]
    BY <1>2, <1>0, <1>3 DEF MarketInv, MarketAlone, Handles, MarketAt, MarketTyped, MarketConstants, MarketCounted
  <2>2. ASSUME NEW d \in k.client, NEW j \in k.id \ clashed', MarketAt(d, {"edit", "original", "fork", "count"}, j)'
        PROVE  tOp'[d].copy.installs = installs'[j]
    BY <1>2, <1>0, <1>3, <2>2 DEF MarketInv, MarketAlone, Handles, MarketAt, MarketTyped, MarketConstants, MarketCounted
  <2> QED
    BY <2>1, <2>2 DEF MarketCounted
<1> QED
  BY <1>4, <1>5, <1>6, <1>7, <1>8, <1>9 DEF MarketInv

LEMMA MarketInit == ASSUME NEW k, MarketConstants(k), Market(k)!Init PROVE MarketInv(k)
<1>0. /\ DOMAIN tOp = k.client /\ (\A c \in k.client : tOp[c] = Market(k)!Idle /\ tOp[c].call = "idle")
      /\ DOMAIN templates = {} /\ DOMAIN listings = {} /\ tUsed = {} /\ clashed = {}
      /\ DOMAIN reviews = k.id /\ DOMAIN installs = k.id /\ DOMAIN given = k.id /\ (\A id \in k.id : reviews[id] = <<>>)
  BY MarketIdle DEF Market!Init
<1>1. {"on", "name", "steps"} \subseteq DOMAIN recorder /\ recorder.name = recorder.steps
  BY DEF Market!Init
<1>2. MarketTyped(k)
  BY <1>0 DEF MarketTyped
<1>3. MarketAlone(k)
  BY <1>0 DEF MarketAlone, Handles
<1>4. MarketRecorder(k)
  BY <1>0, <1>1 DEF MarketRecorder, Handles
<1>5. MarketWhole(k)
  BY <1>0 DEF MarketWhole
<1>6. MarketRated(k)
  BY <1>0 DEF MarketRated
<1>7. MarketCounted(k)
  BY <1>0 DEF MarketCounted, MarketAt
<1> QED
  BY <1>2, <1>3, <1>4, <1>5, <1>6, <1>7 DEF MarketInv

LEMMA MarketStep == ASSUME NEW k, MarketConstants(k), MarketInv(k), Market(k)!Next PROVE MarketInv(k)'
<1>1. PICK c \in k.client :
        \/ \E user \in User : Market(k)!Create(c, user) \/ Market(k)!StartRecording(c, user)
        \/ \E id \in k.id :
             \/ Market(k)!Delete(c, id)
             \/ \E fields \in k.fields : Market(k)!BeginUpdate(c, id, fields)
             \/ Market(k)!BeginPublish(c, id) \/ Market(k)!Unpublish(c, id)
             \/ \E field \in {"version", "featured"} : Market(k)!BeginEdit(c, id, field)
             \/ \E user \in User : Market(k)!BeginInstall(c, id, user)
             \/ \E rating \in k.rating : Market(k)!AddReview(c, id, rating)
        \/ Market(k)!UpdateName(c) \/ (\E public \in BOOLEAN : Market(k)!UpdateSteps(c, public))
        \/ Market(k)!MakePublic(c) \/ Market(k)!List(c) \/ Market(k)!Edit(c)
        \/ Market(k)!Original(c) \/ Market(k)!Fork(c) \/ Market(k)!Count(c)
        \/ Market(k)!Average(c) \/ Market(k)!SetRating(c)
        \/ Market(k)!StopRecording(c) \/ Market(k)!Recorded(c)
  BY DEF Market!Next
<1> QED
  BY <1>1, MarketCreate, MarketStartRecording, MarketBeginUpdate, MarketDelete, MarketBeginPublish, MarketUnpublish, MarketBeginEdit, MarketBeginInstall,
     MarketAddReview, MarketUpdateName, MarketUpdateSteps, MarketMakePublic, MarketList, MarketEdit, MarketOriginal, MarketFork, MarketCount, MarketAverage, MarketSetRating, MarketStopRecording, MarketRecorded

LEMMA MarketSame == ASSUME NEW k, MarketInv(k), UNCHANGED marketVars PROVE MarketInv(k)'
BY DEF marketVars, MarketInv, MarketTyped, MarketAlone, MarketRecorder, MarketWhole, MarketRated, MarketCounted,
       Market!Averaged, Handles, MarketAt, Named

LEMMA MarketGives ==
  ASSUME NEW k, MarketInv(k)
  PROVE  Market(k)!InstallsExact /\ Market(k)!RatingExact /\ Market(k)!TemplateWhole
<1>0. MarketTyped(k)
  BY DEF MarketInv
<1>1. \A id : Market(k)!Settled(id) => id \notin clashed /\ \A c \in k.client : ~Handles(c, id)
  BY <1>0, MarketOnIt DEF Market!Settled
<1>3. Market(k)!InstallsExact
  BY <1>1 DEF Market!InstallsExact, MarketInv, MarketCounted
<1>4. Market(k)!RatingExact
  BY <1>1 DEF Market!RatingExact, MarketInv, MarketRated, MarketAt, Handles
<1>5. Market(k)!TemplateWhole
  BY <1>1 DEF Market!TemplateWhole, MarketInv, MarketWhole, MarketAt, Handles
<1> QED
  BY <1>3, <1>4, <1>5

-----------------------------------------------------------------------------
(* TaskDecomposer: a goal becomes a chain of subtasks, all of which can be   *)
(* run but the second of a goal about files; the chain is worked off from    *)
(* its beginning (GoalTask).                                                 *)
Goals == INSTANCE TaskDecomposer

\* What a goal is made into, by the first kind that fits.
Fits(goal, i) == Goals!initRules[i].keywords \cap goal # {}
Stuck(goal) == Fits(goal, 3) /\ ~Fits(goal, 1) /\ ~Fits(goal, 2)
Runs(action) == Goals!Execute(action)

\* A chain of subtasks in the state `pending`, all of which can be run.
Chained(subtasks) ==
  \E n \in Nat \ {0} :
    /\ DOMAIN subtasks = 1..n
    /\ \A i \in 1..n : {"action", "state", "dependsOn"} \subseteq DOMAIN subtasks[i] /\ subtasks[i].dependsOn = {i - 1} \ {0}

LEMMA GoalsKinds ==
  /\ DOMAIN Goals!initRules = 1..6 /\ Len(Goals!initRules) = 6
  /\ Goals!initRules[1].kind = "deploy" /\ Goals!initRules[2].kind = "test"
  /\ Goals!initRules[3].kind = "file" /\ Goals!initRules[4].kind = "browser"
  /\ Goals!initRules[5].kind = "api" /\ Goals!initRules[6].kind = "database"
BY DEF Goals!initRules

LEMMA GoalsAbout ==
  ASSUME NEW goal
  PROVE  /\ Goals!About(goal, "deploy") <=> Fits(goal, 1)
         /\ Goals!About(goal, "test") <=> Fits(goal, 2)
         /\ Goals!About(goal, "file") <=> Fits(goal, 3)
<1>1. Goals!ToSet(Goals!initRules) = {Goals!initRules[i] : i \in 1..6}
  BY GoalsKinds DEF Goals!ToSet
<1> QED
  BY <1>1, GoalsKinds DEF Goals!About, Fits

LEMMA GoalsChoice ==
  ASSUME NEW goal
  PROVE  \/ (\A i \in 1..6 : ~Fits(goal, i)) /\ Goals!Decompose(goal) = Goals!decomposeDefault
         \/ \E i \in 1..6 : /\ Fits(goal, i) /\ (\A j \in 1..6 : Fits(goal, j) => i <= j)
                            /\ Goals!Decompose(goal) = Goals!Handler(Goals!initRules[i].kind)
<1> DEFINE I == {i \in 1..Len(Goals!initRules) : Fits(goal, i)}
           first == IF I # {} THEN Goals!Min(I) ELSE 0
<1>1. Goals!Decompose(goal) = IF first = 0 THEN Goals!decomposeDefault ELSE Goals!Handler(Goals!initRules[first].kind)
  BY DEF Goals!Decompose, Goals!SelectInSeq, Fits
<1>2. I = {i \in 1..6 : Fits(goal, i)}
  BY GoalsKinds
<1>3. CASE I = {}
  BY <1>1, <1>2, <1>3
<1>4. CASE I # {}
  <2>1. PICK i \in I : \A j \in I : i <= j
    BY <1>2, <1>4, LeastNatural
  <2>2. Goals!Min(I) \in I /\ \A j \in I : Goals!Min(I) <= j
    BY <2>1 DEF Goals!Min
  <2> HIDE DEF I
  <2> QED
    BY <1>1, <1>2, <1>4, <2>2
<1> QED
  BY <1>3, <1>4

LEMMA GoalsAct ==
  ASSUME NEW type, NEW name, NEW value
  PROVE  Goals!Act(type, name, value).type = type /\ Goals!Param(Goals!Act(type, name, value), name) = {value}
<1>1. Goals!Act(type, name, value).type = type /\ Goals!Act(type, name, value).params = {<<name, value>>}
  BY DEF Goals!Act
<1>2. {q \in {<<name, value>>} : q[1] = name} = {<<name, value>>}
  OBVIOUS
<1>3. {p[2] : p \in {<<name, value>>}} = {value}
  OBVIOUS
<1> QED
  BY <1>1, <1>2, <1>3 DEF Goals!Param

LEMMA GoalsEcho ==
  /\ Runs(Goals!Act("terminal", "command", "echo"))
  /\ Runs(Goals!Act("browser", "action", "launch")) /\ Runs(Goals!Act("browser", "action", "navigate"))
  /\ Runs(Goals!Act("browser", "action", "extract"))
  /\ Runs(Goals!Act("api", "action", "prepare")) /\ Runs(Goals!Act("api", "action", "execute"))
<1>2. Runs(Goals!Act("terminal", "command", "echo"))
  <2> DEFINE a == Goals!Act("terminal", "command", "echo")
  <2>1. a.type = "terminal" /\ Goals!Param(a, "command") = {"echo"}
    BY GoalsAct
  <2> HIDE DEF a
  <2>2. Runs(a)
    BY <2>1 DEF Runs, Goals!Execute, Goals!TerminalActionExecutor
  <2> QED
    BY <2>2 DEF a
<1>3. ASSUME NEW what \in {"launch", "navigate", "extract"} PROVE Runs(Goals!Act("browser", "action", what))
  <2> DEFINE a == Goals!Act("browser", "action", what)
  <2>1. a.type = "browser" /\ Goals!Param(a, "action") = {what}
    BY GoalsAct
  <2> HIDE DEF a
  <2>2. Runs(a)
    BY <2>1 DEF Runs, Goals!Execute, Goals!BrowserActionExecutor
  <2> QED
    BY <2>2 DEF a
<1>4. ASSUME NEW what \in {"prepare", "execute"} PROVE Runs(Goals!Act("api", "action", what))
  <2> DEFINE a == Goals!Act("api", "action", what)
  <2>1. a.type = "api" /\ Goals!Param(a, "action") = {what}
    BY GoalsAct
  <2> HIDE DEF a
  <2>2. Runs(a)
    BY <2>1 DEF Runs, Goals!Execute, Goals!APIActionExecutor
  <2> QED
    BY <2>2 DEF a
<1> QED
  BY <1>2, <1>3, <1>4

LEMMA GoalsFile ==
  /\ Runs([type |-> "file", params |-> {<<"operation", "list">>, <<"path", ".">>}])
  /\ ~Runs(Goals!Act("file", "operation", "process"))
<1>3. Runs([type |-> "file", params |-> {<<"operation", "list">>, <<"path", ".">>}])
  <2> DEFINE a == [type |-> "file", params |-> {<<"operation", "list">>, <<"path", ".">>}]
  <2>1. a.type = "file" /\ a.params = {<<"operation", "list">>, <<"path", ".">>}
    OBVIOUS
  <2> HIDE DEF a
  <2>2. <<"operation", "list">>[1] = "operation" /\ <<"operation", "list">>[2] = "list"
    OBVIOUS
  <2>3. <<"operation", "list">> \in {q \in a.params : q[1] = "operation"}
    BY <2>1, <2>2
  <2>4. <<"operation", "list">>[2] \in Goals!Param(a, "operation")
    BY <2>3 DEF Goals!Param
  <2>5. "list" \in Goals!Param(a, "operation")
    BY <2>2, <2>4
  <2>6. Runs(a)
    BY <2>1, <2>5 DEF Runs, Goals!Execute, Goals!FileActionExecutor
  <2> QED
    BY <2>6 DEF a
<1>4. ~Runs(Goals!Act("file", "operation", "process"))
  <2> DEFINE a == Goals!Act("file", "operation", "process")
  <2>1. a.type = "file" /\ Goals!Param(a, "operation") = {"process"}
    BY GoalsAct
  <2> HIDE DEF a
  <2>2. ~Runs(a)
    BY <2>1 DEF Runs, Goals!Execute, Goals!FileActionExecutor
  <2> QED
    BY <2>2 DEF a
<1> QED
  BY <1>3, <1>4

LEMMA GoalsChain ==
  ASSUME NEW n \in Nat \ {0}, NEW actions, DOMAIN actions = 1..n
  PROVE  /\ Chained(Goals!Chain(actions)) /\ DOMAIN Goals!Chain(actions) = 1..n
         /\ \A i \in 1..n : /\ Goals!Chain(actions)[i].action = actions[i]
                            /\ Goals!Chain(actions)[i].state = "pending"
BY DEF Goals!Chain, Chained

\* What a goal is made into begins with everything waiting, and can all be run
\* but for the second action of a goal about files.
Waiting(subtasks) == \A i \in DOMAIN subtasks : subtasks[i].state = "pending"
Runnable(goal, subtasks) ==
  /\ Chained(subtasks)
  /\ ~Stuck(goal) => \A i \in DOMAIN subtasks : Runs(subtasks[i].action)
  /\ Stuck(goal) => DOMAIN subtasks = 1..2 /\ Runs(subtasks[1].action) /\ ~Runs(subtasks[2].action)

LEMMA GoalsEchoes ==
  ASSUME NEW n \in Nat \ {0}
  PROVE  LET s == Goals!Echoes(n) IN Chained(s) /\ Waiting(s) /\ \A i \in DOMAIN s : Runs(s[i].action)
<1> DEFINE a == [i \in 1..n |-> Goals!Act("terminal", "command", "echo")]
<1>1. DOMAIN a = 1..n /\ \A i \in 1..n : Runs(a[i])
  BY GoalsEcho
<1>2. Goals!Echoes(n) = Goals!Chain(a)
  BY DEF Goals!Echoes
<1> HIDE DEF a
<1> QED
  BY <1>1, <1>2, GoalsChain DEF Waiting

LEMMA GoalsDecomposed ==
  ASSUME NEW goal
  PROVE  Runnable(goal, Goals!Decompose(goal)) /\ Waiting(Goals!Decompose(goal))
<1> DEFINE All(s) == Chained(s) /\ Waiting(s) /\ \A i \in DOMAIN s : Runs(s[i].action)
<1>1. All(Goals!decomposeDefault) /\ All(Goals!decomposeDeploy) /\ All(Goals!decomposeTest) /\ All(Goals!decomposeDatabase)
  BY GoalsEchoes DEF Goals!decomposeDefault, Goals!decomposeDeploy, Goals!decomposeTest, Goals!decomposeDatabase
<1>2. All(Goals!decomposeBrowser)
  <2> DEFINE a == <<Goals!Act("browser", "action", "launch"), Goals!Act("browser", "action", "navigate"),
                    Goals!Act("browser", "action", "extract")>>
  <2>1. DOMAIN a = 1..3 /\ \A i \in 1..3 : Runs(a[i])
    BY GoalsEcho
  <2>2. Goals!decomposeBrowser = Goals!Chain(a)
    BY DEF Goals!decomposeBrowser
  <2> HIDE DEF a
  <2>3. 3 \in Nat \ {0}
    OBVIOUS
  <2>4. /\ Chained(Goals!Chain(a)) /\ DOMAIN Goals!Chain(a) = 1..3
        /\ \A i \in 1..3 : Goals!Chain(a)[i].action = a[i] /\ Goals!Chain(a)[i].state = "pending"
    BY <2>1, <2>3, GoalsChain
  <2> QED
    BY <2>1, <2>2, <2>4 DEF Waiting
<1>3. All(Goals!decomposeAPI)
  <2> DEFINE a == <<Goals!Act("api", "action", "prepare"), Goals!Act("api", "action", "execute")>>
  <2>1. DOMAIN a = 1..2 /\ \A i \in 1..2 : Runs(a[i])
    BY GoalsEcho
  <2>2. Goals!decomposeAPI = Goals!Chain(a)
    BY DEF Goals!decomposeAPI
  <2> HIDE DEF a
  <2>3. 2 \in Nat \ {0}
    OBVIOUS
  <2>4. /\ Chained(Goals!Chain(a)) /\ DOMAIN Goals!Chain(a) = 1..2
        /\ \A i \in 1..2 : Goals!Chain(a)[i].action = a[i] /\ Goals!Chain(a)[i].state = "pending"
    BY <2>1, <2>3, GoalsChain
  <2> QED
    BY <2>1, <2>2, <2>4 DEF Waiting
<1>4. LET s == Goals!decomposeFileOp
      IN Chained(s) /\ Waiting(s) /\ DOMAIN s = 1..2 /\ Runs(s[1].action) /\ ~Runs(s[2].action)
  <2> DEFINE a == <<[type |-> "file", params |-> {<<"operation", "list">>, <<"path", ".">>}],
                    Goals!Act("file", "operation", "process")>>
  <2>1. DOMAIN a = 1..2 /\ Runs(a[1]) /\ ~Runs(a[2])
    BY GoalsFile
  <2>2. Goals!decomposeFileOp = Goals!Chain(a)
    BY DEF Goals!decomposeFileOp
  <2> HIDE DEF a
  <2>3. 2 \in Nat \ {0}
    OBVIOUS
  <2>4. /\ Chained(Goals!Chain(a)) /\ DOMAIN Goals!Chain(a) = 1..2
        /\ \A i \in 1..2 : Goals!Chain(a)[i].action = a[i] /\ Goals!Chain(a)[i].state = "pending"
    BY <2>1, <2>3, GoalsChain
  <2> QED
    BY <2>1, <2>2, <2>4 DEF Waiting
<1>5. CASE \A i \in 1..6 : ~Fits(goal, i)
  BY <1>1, <1>5, GoalsChoice DEF Stuck, Runnable
<1>6. CASE ~\A i \in 1..6 : ~Fits(goal, i)
  <2>1. PICK i \in 1..6 : /\ Fits(goal, i) /\ (\A j \in 1..6 : Fits(goal, j) => i <= j)
                          /\ Goals!Decompose(goal) = Goals!Handler(Goals!initRules[i].kind)
    BY <1>6, GoalsChoice
  <2>2. Stuck(goal) <=> i = 3
    BY <2>1 DEF Stuck
  <2>3. /\ Goals!Handler("deploy") = Goals!decomposeDeploy /\ Goals!Handler("test") = Goals!decomposeTest
        /\ Goals!Handler("file") = Goals!decomposeFileOp /\ Goals!Handler("browser") = Goals!decomposeBrowser
        /\ Goals!Handler("api") = Goals!decomposeAPI /\ Goals!Handler("database") = Goals!decomposeDatabase
    BY DEF Goals!Handler
  <2>4. i = 3 => Goals!Decompose(goal) = Goals!decomposeFileOp
    BY <2>1, <2>3, GoalsKinds
  <2>5. i # 3 => All(Goals!Decompose(goal))
    BY <1>1, <1>2, <1>3, <2>1, <2>3, GoalsKinds
  <2> HIDE DEF All
  <2>6. CASE i = 3
    BY <1>4, <2>2, <2>4, <2>6 DEF Runnable
  <2>7. CASE i # 3
    BY <2>2, <2>5, <2>7 DEF Runnable, All
  <2> QED
    BY <2>6, <2>7
<1> QED
  BY <1>5, <1>6

\* A task runs its subtasks in their order, each to the end it must come to.
GoalTask(task) ==
  /\ {"goal", "state", "subtasks", "retries"} \subseteq DOMAIN task
  /\ Runnable(task.goal, task.subtasks)
  /\ task.state \in {"pending", "in_progress", "completed", "failed"}
  /\ \A i \in DOMAIN task.subtasks :
       /\ task.subtasks[i].state \in {"pending", "completed", "failed"}
       /\ task.subtasks[i].state = "completed" => Runs(task.subtasks[i].action)
       /\ task.subtasks[i].state = "failed" => ~Runs(task.subtasks[i].action)
       /\ task.subtasks[i].state # "pending" => \A k \in 1..(i - 1) : task.subtasks[k].state = "completed"
  /\ task.state = "pending" => Waiting(task.subtasks)
  /\ task.state = "completed" => \A i \in DOMAIN task.subtasks : task.subtasks[i].state = "completed"
  /\ task.state = "failed" =>
       Stuck(task.goal) /\ task.subtasks[1].state = "completed" /\ task.subtasks[2].state = "failed"
GoalsInv == (\E S : tasks \in Seq(S)) /\ \A t \in DOMAIN tasks : GoalTask(tasks[t])

\* A task goes on while it can; where it cannot, it is stuck.
LEMMA GoalsEnd ==
  ASSUME NEW task, GoalTask(task), Goals!Ready(task) = {},
         ~\A i \in DOMAIN task.subtasks : task.subtasks[i].state = "completed"
  PROVE  Stuck(task.goal) /\ task.subtasks[1].state = "completed" /\ task.subtasks[2].state = "failed"
<1> DEFINE s == task.subtasks
           Left == {i \in DOMAIN s : s[i].state # "completed"}
<1>1. PICK n \in Nat \ {0} : DOMAIN s = 1..n /\ \A i \in 1..n : s[i].dependsOn = {i - 1} \ {0}
  BY DEF GoalTask, Runnable, Chained
<1>2. PICK i \in Left : \A j \in Left : i <= j
  <2>1. Left # {} /\ Left \subseteq Nat
    BY <1>1
  <2> HIDE DEF Left
  <2> QED
    BY <2>1, LeastNatural
<1>3. i \in 1..n /\ s[i].state # "completed" /\ \A k \in 1..(i - 1) : s[k].state = "completed"
  BY <1>1, <1>2
<1>4. s[i].state \in {"pending", "failed"} /\ (s[i].state = "failed" => ~Runs(s[i].action))
  BY <1>1, <1>3 DEF GoalTask
<1>5. s[i].state # "pending"
  <2> SUFFICES ASSUME s[i].state = "pending" PROVE FALSE
    OBVIOUS
  <2>1. \A d \in s[i].dependsOn : d \in 1..(i - 1)
    BY <1>1, <1>3
  <2>2. i \in Goals!Ready(task)
    BY <1>1, <1>3, <2>1 DEF Goals!Ready
  <2> QED
    BY <2>2
<1>6. Stuck(task.goal) /\ DOMAIN s = 1..2 /\ Runs(s[1].action)
  BY <1>1, <1>3, <1>4, <1>5 DEF GoalTask, Runnable
<1>7. i = 2
  BY <1>1, <1>3, <1>4, <1>5, <1>6
<1> QED
  BY <1>3, <1>4, <1>5, <1>6, <1>7

LEMMA GoalsSet ==
  ASSUME GoalsInv, NEW t \in DOMAIN tasks, NEW task, GoalTask(task), tasks' = [tasks EXCEPT ![t] = task]
  PROVE  GoalsInv'
<1>1. PICK S : tasks \in Seq(S)
  BY DEF GoalsInv
<1>2. tasks \in Seq(S \cup {task})
  BY <1>1
<1>3. tasks' \in Seq(S \cup {task})
  BY <1>1, <1>2, ExceptSeq, LenProperties
<1>4. DOMAIN tasks' = DOMAIN tasks /\ tasks'[t] = task /\ \A u \in DOMAIN tasks \ {t} : tasks'[u] = tasks[u]
  OBVIOUS
<1>5. \A u \in DOMAIN tasks' : GoalTask(tasks'[u])
  BY <1>4 DEF GoalsInv
<1> QED
  BY <1>3, <1>5 DEF GoalsInv

LEMMA GoalsCreate ==
  ASSUME GoalsInv, NEW agent, NEW goal, Goals!Create(agent, goal)
  PROVE  GoalsInv'
<1> DEFINE task == [agent |-> agent, goal |-> goal, state |-> "pending",
                    subtasks |-> Goals!Decompose(goal), retries |-> 0]
<1>1. tasks' = Append(tasks, task)
  BY DEF Goals!Create
<1>2. /\ {"goal", "state", "subtasks", "retries"} \subseteq DOMAIN task
      /\ task.goal = goal /\ task.state = "pending" /\ task.subtasks = Goals!Decompose(goal)
  OBVIOUS
<1> HIDE DEF task
<1>3. GoalTask(task)
  BY <1>2, GoalsDecomposed DEF GoalTask, Waiting
<1>4. PICK S : tasks \in Seq(S)
  BY DEF GoalsInv
<1>5. tasks \in Seq(S \cup {task})
  BY <1>4
<1>6. /\ tasks' \in Seq(S \cup {task}) /\ Len(tasks') = Len(tasks) + 1
      /\ (\A u \in 1..Len(tasks) : tasks'[u] = tasks[u]) /\ tasks'[Len(tasks) + 1] = task
  BY <1>1, <1>5, AppendProperties
<1>7. Len(tasks) \in Nat /\ DOMAIN tasks = 1..Len(tasks) /\ DOMAIN tasks' = 1..Len(tasks')
  BY <1>5, <1>6, LenProperties
<1>8. \A u \in DOMAIN tasks' : GoalTask(tasks'[u])
  BY <1>3, <1>6, <1>7 DEF GoalsInv
<1> QED
  BY <1>6, <1>8 DEF GoalsInv

LEMMA GoalsStart ==
  ASSUME GoalsInv, NEW t \in DOMAIN tasks, Goals!Start(t)
  PROVE  GoalsInv'
<1> DEFINE task == [tasks[t] EXCEPT !.state = "in_progress"]
<1>1. GoalTask(tasks[t]) /\ tasks' = [tasks EXCEPT ![t] = task]
  BY DEF GoalsInv, Goals!Start
<1>2. DOMAIN task = DOMAIN tasks[t] /\ task.state = "in_progress" /\ task.goal = tasks[t].goal /\ task.subtasks = tasks[t].subtasks
  BY <1>1 DEF GoalTask
<1> HIDE DEF task
<1>3. GoalTask(task)
  BY <1>1, <1>2 DEF GoalTask
<1> QED
  BY <1>1, <1>3, GoalsSet

LEMMA GoalsRunSubtask ==
  ASSUME GoalsInv, NEW t \in DOMAIN tasks, Goals!RunSubtask(t)
  PROVE  GoalsInv'
<1>1. GoalTask(tasks[t]) /\ tasks[t].state = "in_progress"
  BY DEF GoalsInv, Goals!RunSubtask
<1>2. PICK i \in Goals!Ready(tasks[t]) :
        tasks' = [tasks EXCEPT ![t].subtasks[i].state =
                    IF Goals!Execute(tasks[t].subtasks[i].action) THEN "completed" ELSE "failed"]
  BY DEF Goals!RunSubtask
<1> DEFINE s == tasks[t].subtasks
           end == IF Runs(s[i].action) THEN "completed" ELSE "failed"
           new == [s EXCEPT ![i] = [@ EXCEPT !.state = end]]
           task == [tasks[t] EXCEPT !.subtasks = new]
<1>3. tasks' = [tasks EXCEPT ![t] = task]
  BY <1>2 DEF Runs
<1>4. PICK n \in Nat \ {0} :
        /\ DOMAIN s = 1..n
        /\ \A j \in 1..n : {"action", "state", "dependsOn"} \subseteq DOMAIN s[j] /\ s[j].dependsOn = {j - 1} \ {0}
  BY <1>1 DEF GoalTask, Runnable, Chained
<1>5. i \in 1..n /\ s[i].state = "pending" /\ \A d \in {i - 1} \ {0} : s[d].state = "completed"
  BY <1>2, <1>4 DEF Goals!Ready
<1>6. /\ DOMAIN new = 1..n /\ (\A j \in 1..n \ {i} : new[j] = s[j])
      /\ DOMAIN new[i] = DOMAIN s[i] /\ new[i].state = end /\ new[i].action = s[i].action
      /\ new[i].dependsOn = s[i].dependsOn
  BY <1>4, <1>5
<1>7. DOMAIN task = DOMAIN tasks[t] /\ task.subtasks = new /\ task.state = "in_progress" /\ task.goal = tasks[t].goal
  BY <1>1 DEF GoalTask
<1>8. \A j \in 1..n : s[j].state # "pending" => j < i
  BY <1>1, <1>4, <1>5 DEF GoalTask
<1>9. \A k \in 1..(i - 1) : s[k].state = "completed"
  <2>1. CASE i = 1
    BY <2>1
  <2>2. CASE i # 1
    <3>1. i - 1 \in 1..n /\ s[i - 1].state = "completed"
      BY <1>4, <1>5, <2>2
    <3>2. \A k \in 1..(i - 1) - 1 : s[k].state = "completed"
      BY <1>1, <1>4, <3>1 DEF GoalTask
    <3> QED
      BY <1>5, <3>1, <3>2
  <2> QED
    BY <2>1, <2>2
<1>10. /\ end \in {"completed", "failed"} /\ (end = "completed" => Runs(s[i].action))
       /\ (end = "failed" => ~Runs(s[i].action))
  OBVIOUS
<1> HIDE DEF task, new, end
<1>11. Runnable(task.goal, task.subtasks)
  <2>1. Chained(new)
    BY <1>4, <1>6 DEF Chained
  <2>2. \A j \in 1..n : new[j].action = s[j].action
    BY <1>6
  <2> QED
    BY <1>1, <1>4, <1>6, <1>7, <2>1, <2>2 DEF GoalTask, Runnable
<1>12. ASSUME NEW j \in 1..n
       PROVE  /\ new[j].state \in {"pending", "completed", "failed"}
              /\ new[j].state = "completed" => Runs(new[j].action)
              /\ new[j].state = "failed" => ~Runs(new[j].action)
              /\ new[j].state # "pending" => \A k \in 1..(j - 1) : new[k].state = "completed"
  <2>1. CASE j = i
    BY <1>4, <1>5, <1>6, <1>9, <1>10, <2>1
  <2>2. CASE j # i
    <3>1. new[j] = s[j]
      BY <1>6, <2>2
    <3>2. new[j].state # "pending" => \A k \in 1..(j - 1) : k # i /\ k \in 1..n /\ s[k].state = "completed"
      BY <1>1, <1>4, <1>5, <1>8, <3>1 DEF GoalTask
    <3>3. new[j].state # "pending" => \A k \in 1..(j - 1) : new[k].state = "completed"
      BY <1>6, <3>2
    <3>4. /\ new[j].state \in {"pending", "completed", "failed"}
          /\ new[j].state = "completed" => Runs(new[j].action)
          /\ new[j].state = "failed" => ~Runs(new[j].action)
      BY <1>1, <1>4, <3>1 DEF GoalTask
    <3> QED
      BY <3>3, <3>4
  <2> QED
    BY <2>1, <2>2
<1>13. GoalTask(task)
  BY <1>1, <1>6, <1>7, <1>11, <1>12 DEF GoalTask
<1> QED
  BY <1>3, <1>13, GoalsSet

LEMMA GoalsFinalize ==
  ASSUME GoalsInv, NEW t \in DOMAIN tasks, Goals!Finalize(t)
  PROVE  GoalsInv'
<1> DEFINE all == \A i \in DOMAIN tasks[t].subtasks : tasks[t].subtasks[i].state = "completed"
           end == IF all THEN "completed" ELSE "failed"
           task == [tasks[t] EXCEPT !.state = end]
<1>1. GoalTask(tasks[t]) /\ tasks' = [tasks EXCEPT ![t] = task] /\ Goals!Ready(tasks[t]) = {}
  BY DEF GoalsInv, Goals!Finalize
<1>2. DOMAIN task = DOMAIN tasks[t] /\ task.state = end /\ task.goal = tasks[t].goal /\ task.subtasks = tasks[t].subtasks
  BY <1>1 DEF GoalTask
<1>3. ~all => Stuck(task.goal) /\ task.subtasks[1].state = "completed" /\ task.subtasks[2].state = "failed"
  BY <1>1, <1>2, GoalsEnd
<1>4. CASE all
  <2>1. task.state = "completed"
    BY <1>2, <1>4
  <2> HIDE DEF task
  <2>2. all <=> \A i \in DOMAIN task.subtasks : task.subtasks[i].state = "completed"
    BY <1>2
  <2> HIDE DEF all
  <2>3. GoalTask(task)
    BY <1>1, <1>2, <1>4, <2>1, <2>2, SMTT(30) DEF GoalTask
  <2> QED
    BY <1>1, <2>3, GoalsSet
<1>5. CASE ~all
  <2>1. task.state = "failed"
    BY <1>2, <1>5
  <2> HIDE DEF task
  <2> QED
    <3>1. Stuck(task.goal) /\ task.subtasks[1].state = "completed" /\ task.subtasks[2].state = "failed"
      BY <1>3, <1>5
    <3> HIDE DEF all
    <3>2. GoalTask(task)
      BY <1>1, <1>2, <2>1, <3>1 DEF GoalTask
    <3> QED
      BY <1>1, <3>2, GoalsSet
<1> QED
  BY <1>4, <1>5

LEMMA GoalsRetry ==
  ASSUME GoalsInv, NEW t \in DOMAIN tasks, Goals!Retry(t)
  PROVE  GoalsInv'
<1> DEFINE s == tasks[t].subtasks
           new == [i \in DOMAIN s |-> [s[i] EXCEPT !.state = "pending"]]
           task == [tasks[t] EXCEPT !.state = "pending", !.retries = @ + 1, !.subtasks = new]
<1>1. GoalTask(tasks[t]) /\ tasks' = [tasks EXCEPT ![t] = task]
  BY DEF GoalsInv, Goals!Retry
<1>2. DOMAIN task = DOMAIN tasks[t] /\ task.state = "pending" /\ task.goal = tasks[t].goal /\ task.subtasks = new
  BY <1>1 DEF GoalTask
<1>3. PICK n \in Nat \ {0} :
        /\ DOMAIN s = 1..n
        /\ \A j \in 1..n : {"action", "state", "dependsOn"} \subseteq DOMAIN s[j] /\ s[j].dependsOn = {j - 1} \ {0}
  BY <1>1 DEF GoalTask, Runnable, Chained
<1>4. /\ DOMAIN new = 1..n
      /\ \A j \in 1..n : /\ DOMAIN new[j] = DOMAIN s[j] /\ new[j].state = "pending"
                         /\ new[j].action = s[j].action /\ new[j].dependsOn = s[j].dependsOn
  BY <1>3
<1> HIDE DEF task, new
<1>5. Chained(new) /\ Waiting(new)
  BY <1>3, <1>4 DEF Chained, Waiting
<1>6. Runnable(task.goal, task.subtasks)
  BY <1>1, <1>2, <1>3, <1>4, <1>5 DEF GoalTask, Runnable
<1>7. GoalTask(task)
  BY <1>1, <1>2, <1>4, <1>5, <1>6 DEF GoalTask, Waiting
<1> QED
  BY <1>1, <1>7, GoalsSet

LEMMA GoalsInit == ASSUME Goals!Init PROVE GoalsInv
BY DEF Goals!Init, GoalsInv

LEMMA GoalsStep == ASSUME GoalsInv, Goals!Next PROVE GoalsInv'
BY GoalsCreate, GoalsStart, GoalsRunSubtask, GoalsFinalize, GoalsRetry DEF Goals!Next, Goals!handleDecompose

LEMMA GoalsSame == ASSUME GoalsInv, UNCHANGED tasks PROVE GoalsInv'
BY DEF GoalsInv

LEMMA GoalsGives == ASSUME GoalsInv PROVE Goals!RunsOfGoals
<1> SUFFICES ASSUME NEW t \in DOMAIN tasks
             PROVE  LET task == tasks[t]
                        stuck == Goals!About(task.goal, "file") /\ ~Goals!About(task.goal, "deploy")
                                   /\ ~Goals!About(task.goal, "test")
                        states == [i \in DOMAIN task.subtasks |-> task.subtasks[i].state]
                    IN /\ task.state = "completed" => ~stuck /\ Goals!ToSet(states) = {"completed"}
                       /\ task.state = "failed" => stuck /\ states = <<"completed", "failed">>
                       /\ \A i \in DOMAIN states :
                            states[i] # "pending" => \A k \in 1..(i - 1) : states[k] = "completed"
  BY Zenon DEF Goals!RunsOfGoals
<1> DEFINE task == tasks[t]
           s == task.subtasks
           states == [i \in DOMAIN s |-> s[i].state]
<1>1. GoalTask(task)
  BY DEF GoalsInv
<1>2. (Goals!About(task.goal, "file") /\ ~Goals!About(task.goal, "deploy") /\ ~Goals!About(task.goal, "test"))
        <=> Stuck(task.goal)
  BY GoalsAbout DEF Stuck
<1>3. PICK n \in Nat \ {0} : DOMAIN s = 1..n
  BY <1>1 DEF GoalTask, Runnable, Chained
<1>4. DOMAIN states = 1..n /\ \A i \in 1..n : states[i] = s[i].state
  BY <1>3
<1> HIDE DEF task
<1>5. ASSUME task.state = "completed" PROVE ~Stuck(task.goal) /\ Goals!ToSet(states) = {"completed"}
  <2>1. \A i \in 1..n : states[i] = "completed" /\ Runs(s[i].action)
    BY <1>1, <1>3, <1>4, <1>5 DEF GoalTask
  <2>2. ~Stuck(task.goal)
    BY <1>1, <1>3, <2>1 DEF GoalTask, Runnable
  <2>3. Goals!ToSet(states) = {states[i] : i \in 1..n} /\ 1 \in 1..n
    BY <1>3, <1>4 DEF Goals!ToSet
  <2> HIDE DEF states
  <2>4. Goals!ToSet(states) = {"completed"}
    BY <2>1, <2>3
  <2> QED
    BY <2>2, <2>4
<1>6. ASSUME task.state = "failed" PROVE Stuck(task.goal) /\ states = <<"completed", "failed">>
  <2>1. Stuck(task.goal) /\ s[1].state = "completed" /\ s[2].state = "failed" /\ DOMAIN s = 1..2
    BY <1>1, <1>6 DEF GoalTask, Runnable
  <2>2. states = [i \in 1..2 |-> s[i].state]
    BY <2>1
  <2>3. states = <<"completed", "failed">>
    BY <2>1, <2>2
  <2> QED
    BY <2>1, <2>3
<1>7. \A i \in DOMAIN states : states[i] # "pending" => \A k \in 1..(i - 1) : states[k] = "completed"
  BY <1>1, <1>3, <1>4 DEF GoalTask
<1> QED
  BY <1>2, <1>5, <1>6, <1>7 DEF task

-----------------------------------------------------------------------------
(* RequestPipeline: what a request has passed held at some time since it     *)
(* came, whatever changes while it is under way; the table of the rules need *)
(* not be known for that.                                                    *)
Pipeline == INSTANCE RequestPipeline WITH op <- pOp, Request <- Asked, MaxRequests <- MaxAsked

PipeInside == {"auth", "authorize", "tenant", "handle"}
\* What a request has passed held at some time since it came.
PipeKnown(call) ==
  call.claims # "" => call.claims = call.request.token /\ \E e \in call.before : e.valid
PipeRuled(call) ==
  \E rule \in Pipeline!Table!Lookup(call.request.method, call.request.path) :
    \/ rule.public
    \/ /\ call.request.token # "" /\ \E e \in call.before : e.valid
       /\ \E e \in call.before : e.up /\ rule.action \in e.held
PipeScoped(call) == call.claims = "tenant" => \E e \in call.before : e.usable
PipeCall(call) ==
  \/ call = Pipeline!Idle
  \/ call.pc \in {"measure", "leave"} /\ "pc" \in DOMAIN call /\ "before" \notin DOMAIN call
  \/ /\ {"pc", "request", "before"} \subseteq DOMAIN call /\ call.pc \in PipeInside /\ env \in call.before
     /\ call.pc # "auth" => "claims" \in DOMAIN call /\ PipeKnown(call)
     /\ call.pc \in {"tenant", "handle"} => PipeRuled(call)
     /\ call.pc = "handle" => PipeScoped(call)
PipeInv == DOMAIN pOp = Client /\ \A c \in Client : PipeCall(pOp[c])

LEMMA PipeIdle == Pipeline!Idle.pc = "idle" /\ "before" \notin DOMAIN Pipeline!Idle
BY DEF Pipeline!Idle

LEMMA PipeGo ==
  ASSUME PipeInv, NEW c \in Client, NEW call, PipeCall(call), Pipeline!Go(c, call), UNCHANGED env
  PROVE  PipeInv'
<1>1. DOMAIN pOp' = Client /\ pOp'[c] = call /\ \A d \in Client \ {c} : pOp'[d] = pOp[d]
  BY DEF PipeInv, Pipeline!Go
<1>2. ASSUME NEW d \in Client, NEW a, a = pOp'[d], PipeCall(a) PROVE PipeCall(a)'
  BY <1>2 DEF PipeCall, PipeKnown, PipeRuled, PipeScoped
<1>3. ASSUME NEW d \in Client, NEW a, a = pOp'[d] PROVE PipeCall(a)
  BY <1>1, <1>3 DEF PipeInv
<1>4. ASSUME NEW d \in Client PROVE PipeCall(pOp[d])'
  BY <1>2, <1>3
<1> QED
  BY <1>1, <1>4 DEF PipeInv

LEMMA PipeWrite ==
  ASSUME PipeInv, NEW c \in Client, NEW status, NEW traced, NEW logged,
         Pipeline!WriteAnswer(c, status, traced, logged), UNCHANGED env
  PROVE  PipeInv'
<1> DEFINE call == [pc |-> "measure", request |-> pOp[c].request, status |-> status, traced |-> traced,
                    logged |-> logged]
<1>1. Pipeline!Go(c, call)
  BY DEF Pipeline!WriteAnswer
<1>2. call.pc = "measure" /\ "pc" \in DOMAIN call /\ "before" \notin DOMAIN call
  OBVIOUS
<1> HIDE DEF call
<1>3. PipeCall(call)
  BY <1>2 DEF PipeCall
<1> QED
  BY <1>1, <1>3, PipeGo

\* A call that goes on keeps what it is.
LEMMA PipeMoves ==
  ASSUME NEW call, "pc" \in DOMAIN call, NEW pc
  PROVE  LET new == [call EXCEPT !.pc = pc]
         IN DOMAIN new = DOMAIN call /\ new.pc = pc /\ \A f \in DOMAIN call \ {"pc"} : new[f] = call[f]
OBVIOUS

LEMMA PipeChange == ASSUME PipeInv, Pipeline!Change PROVE PipeInv'
<1>1. DOMAIN pOp' = Client
  BY DEF Pipeline!Change
<1>2. ASSUME NEW c \in Client, NEW old, old = pOp[c], NEW new, new = pOp'[c], NEW latest, latest = env'
      PROVE  PipeCall(new)'
  <2>1. PipeCall(old)
    BY <1>2 DEF PipeInv
  <2>2. new = IF "before" \in DOMAIN old THEN [old EXCEPT !.before = @ \cup {latest}] ELSE old
    BY <1>2 DEF Pipeline!Change
  <2>3. CASE "before" \notin DOMAIN old
    <3>1. new = old
      BY <2>2, <2>3
    <3> QED
      BY <2>1, <2>3, <3>1 DEF PipeCall
  <2>4. CASE "before" \in DOMAIN old
    <3>1. /\ {"pc", "request", "before"} \subseteq DOMAIN old /\ old.pc \in PipeInside
          /\ old.pc # "auth" => "claims" \in DOMAIN old /\ PipeKnown(old)
          /\ old.pc \in {"tenant", "handle"} => PipeRuled(old)
          /\ old.pc = "handle" => PipeScoped(old)
      BY <2>1, <2>4, PipeIdle DEF PipeCall
    <3>2. /\ DOMAIN new = DOMAIN old /\ new.before = old.before \cup {latest}
          /\ new.pc = old.pc /\ new.request = old.request /\ ("claims" \in DOMAIN old => new.claims = old.claims)
      BY <2>2, <2>4, <3>1
    <3>3. old.pc # "auth" => PipeKnown(new)
      BY <3>1, <3>2 DEF PipeKnown
    <3>4. old.pc \in {"tenant", "handle"} => PipeRuled(new)
      BY <3>1, <3>2 DEF PipeRuled
    <3>5. old.pc = "handle" => PipeScoped(new)
      BY <3>1, <3>2 DEF PipeScoped, PipeInside
    <3>6. PipeKnown(new)' <=> PipeKnown(new)
      BY DEF PipeKnown
    <3>7. PipeRuled(new)' <=> PipeRuled(new)
      BY DEF PipeRuled
    <3>8. PipeScoped(new)' <=> PipeScoped(new)
      BY DEF PipeScoped
    <3> QED
      BY <1>2, <3>1, <3>2, <3>3, <3>4, <3>5, <3>6, <3>7, <3>8 DEF PipeCall
  <2> QED
    BY <2>3, <2>4
<1>3. ASSUME NEW c \in Client PROVE PipeCall(pOp[c])'
  BY <1>2
<1> QED
  BY <1>1, <1>3 DEF PipeInv

LEMMA PipeArrive ==
  ASSUME PipeInv, NEW c \in Client, NEW request, Pipeline!Arrive(c, request) PROVE PipeInv'
<1> DEFINE call == [pc |-> "auth", request |-> request, before |-> {env}]
<1>1. Pipeline!Go(c, call) /\ UNCHANGED env
  BY DEF Pipeline!Arrive
<1>2. {"pc", "request", "before"} \subseteq DOMAIN call /\ call.pc = "auth" /\ env \in call.before
  OBVIOUS
<1> HIDE DEF call
<1>3. PipeCall(call)
  BY <1>2 DEF PipeCall, PipeInside
<1> QED
  BY <1>1, <1>3, PipeGo

LEMMA PipeOptionalAuth ==
  ASSUME PipeInv, NEW c \in Client, Pipeline!OptionalAuth(c) PROVE PipeInv'
<1> DEFINE old == pOp[c]
           call == [pc |-> "authorize", request |-> old.request, before |-> old.before,
                    claims |-> IF env.valid THEN old.request.token ELSE ""]
<1>1. Pipeline!Go(c, call) /\ UNCHANGED env /\ old.pc = "auth"
  BY DEF Pipeline!OptionalAuth
<1>2. /\ {"pc", "request", "before"} \subseteq DOMAIN call /\ "claims" \in DOMAIN call
      /\ call.pc = "authorize" /\ call.request = old.request
      /\ call.before = old.before /\ call.claims = (IF env.valid THEN old.request.token ELSE "")
  OBVIOUS
<1> HIDE DEF call
<1>3. env \in old.before
  BY <1>1, PipeIdle DEF PipeInv, PipeCall, PipeInside
<1>4. PipeKnown(call)
  BY <1>2, <1>3 DEF PipeKnown
<1>5. PipeCall(call)
  BY <1>2, <1>3, <1>4 DEF PipeCall, PipeInside
<1> QED
  BY <1>1, <1>5, PipeGo

LEMMA PipeAuthorize ==
  ASSUME PipeInv, NEW c \in Client, Pipeline!Authorize(c) PROVE PipeInv'
<1> DEFINE old == pOp[c]
           call == [old EXCEPT !.pc = "tenant"]
<1>1. old.pc = "authorize" /\ UNCHANGED env
  BY DEF Pipeline!Authorize
<1>2. CASE \E rule \in Pipeline!Table!Lookup(old.request.method, old.request.path) :
             /\ rule.public \/ (old.claims # "" /\ env.up /\ rule.action \in env.held)
             /\ Pipeline!Go(c, call)
  <2>1. PICK rule \in Pipeline!Table!Lookup(old.request.method, old.request.path) :
             /\ rule.public \/ (old.claims # "" /\ env.up /\ rule.action \in env.held)
             /\ Pipeline!Go(c, call)
    BY <1>2
  <2>2. /\ {"pc", "request", "before", "claims"} \subseteq DOMAIN old /\ env \in old.before /\ PipeKnown(old)
    BY <1>1, PipeIdle DEF PipeInv, PipeCall, PipeInside
  <2>3. /\ DOMAIN call = DOMAIN old /\ call.pc = "tenant" /\ call.request = old.request
        /\ call.before = old.before /\ call.claims = old.claims
    BY <2>2
  <2> HIDE DEF call, old
  <2>4. PipeKnown(call)
    BY <2>2, <2>3 DEF PipeKnown
  <2>5. PipeRuled(call)
    BY <2>1, <2>2, <2>3 DEF PipeRuled, PipeKnown
  <2>6. PipeCall(call)
    BY <2>2, <2>3, <2>4, <2>5 DEF PipeCall, PipeInside
  <2> QED
    BY <1>1, <2>1, <2>6, PipeGo
<1>3. CASE \E status : Pipeline!WriteAnswer(c, status, FALSE, FALSE)
  BY <1>1, <1>3, PipeWrite
<1> QED
  BY <1>2, <1>3, ZenonT(60) DEF Pipeline!Authorize

LEMMA PipeResolveScope ==
  ASSUME PipeInv, NEW c \in Client, Pipeline!ResolveScope(c) PROVE PipeInv'
<1> DEFINE old == pOp[c]
           call == [old EXCEPT !.pc = "handle"]
<1>1. old.pc = "tenant" /\ UNCHANGED env
  BY DEF Pipeline!ResolveScope
<1>2. CASE ~(old.claims = "tenant" /\ ~env.usable) /\ Pipeline!Go(c, call)
  <2>1. /\ {"pc", "request", "before", "claims"} \subseteq DOMAIN old /\ env \in old.before
        /\ PipeKnown(old) /\ PipeRuled(old)
    BY <1>1, PipeIdle DEF PipeInv, PipeCall, PipeInside
  <2>2. /\ DOMAIN call = DOMAIN old /\ call.pc = "handle" /\ call.request = old.request
        /\ call.before = old.before /\ call.claims = old.claims
    BY <2>1
  <2>3. old.claims = "tenant" => env.usable
    BY <1>2
  <2> HIDE DEF call, old
  <2>4. PipeKnown(call)
    BY <2>1, <2>2 DEF PipeKnown
  <2>5. PipeRuled(call)
    BY <2>1, <2>2 DEF PipeRuled
  <2>6. PipeScoped(call)
    BY <2>1, <2>2, <2>3 DEF PipeScoped
  <2>7. PipeCall(call)
    BY <2>1, <2>2, <2>4, <2>5, <2>6 DEF PipeCall, PipeInside
  <2> QED
    BY <1>1, <1>2, <2>7, PipeGo
<1>3. CASE \E status \in {404, 500, 503} : Pipeline!WriteAnswer(c, status, FALSE, FALSE)
  BY <1>1, <1>3, PipeWrite
<1> QED
  BY <1>2, <1>3 DEF Pipeline!ResolveScope

LEMMA PipeHandled ==
  ASSUME PipeInv, NEW c \in Client,
         Pipeline!Preflight(c) \/ Pipeline!Handle(c) \/ Pipeline!HandleWS(c) \/ Pipeline!Panic(c)
  PROVE  PipeInv'
<1>1. CASE Pipeline!Preflight(c)
  BY <1>1, PipeWrite DEF Pipeline!Preflight
<1>2. CASE Pipeline!Handle(c)
  <2>1. PICK status \in {200, 404} : Pipeline!WriteAnswer(c, status, TRUE, TRUE)
    BY <1>2 DEF Pipeline!Handle
  <2>2. UNCHANGED env
    BY <1>2 DEF Pipeline!Handle
  <2> QED
    BY <2>1, <2>2, PipeWrite
<1>3. CASE Pipeline!HandleWS(c)
  <2> DEFINE answer == IF "Hijack" \in Pipeline!StatusWriter(Pipeline!StatusWriter({"Hijack"})) THEN 101 ELSE 500
  <2>1. Pipeline!WriteAnswer(c, 401, TRUE, TRUE) \/ Pipeline!WriteAnswer(c, answer, TRUE, TRUE)
    BY <1>3 DEF Pipeline!HandleWS
  <2>2. UNCHANGED env
    BY <1>3 DEF Pipeline!HandleWS
  <2> HIDE DEF answer
  <2> QED
    BY <2>1, <2>2, PipeWrite
<1>4. CASE Pipeline!Panic(c)
  <2>1. PICK status \in {200, 500} : Pipeline!WriteAnswer(c, status, TRUE, FALSE)
    BY <1>4 DEF Pipeline!Panic
  <2>2. UNCHANGED env
    BY <1>4 DEF Pipeline!Panic
  <2> QED
    BY <2>1, <2>2, PipeWrite
<1> QED
  BY <1>1, <1>2, <1>3, <1>4

LEMMA PipeMeasure ==
  ASSUME PipeInv, NEW c \in Client, Pipeline!Measure(c) PROVE PipeInv'
<1> DEFINE old == pOp[c]
           call == [old EXCEPT !.pc = "leave"]
<1>1. Pipeline!Go(c, call) /\ UNCHANGED env /\ old.pc = "measure"
  BY DEF Pipeline!Measure
<1>2. "pc" \in DOMAIN old /\ "before" \notin DOMAIN old
  BY <1>1, PipeIdle DEF PipeInv, PipeCall, PipeInside
<1>3. DOMAIN call = DOMAIN old /\ call.pc = "leave"
  BY <1>2
<1> HIDE DEF call
<1>4. PipeCall(call)
  BY <1>2, <1>3 DEF PipeCall
<1> QED
  BY <1>1, <1>4, PipeGo

LEMMA PipeLeave == ASSUME PipeInv, NEW c \in Client, Pipeline!Leave(c) PROVE PipeInv'
<1>1. PipeCall(Pipeline!Idle)
  BY DEF PipeCall
<1> QED
  BY <1>1, PipeGo DEF Pipeline!Leave

LEMMA PipeInit == ASSUME Pipeline!Init PROVE PipeInv
BY DEF Pipeline!Init, PipeInv, PipeCall

LEMMA PipeStep == ASSUME PipeInv, Pipeline!Next PROVE PipeInv'
BY PipeChange, PipeArrive, PipeOptionalAuth, PipeAuthorize, PipeResolveScope, PipeHandled, PipeMeasure, PipeLeave
   DEF Pipeline!Next

LEMMA PipeSame == ASSUME PipeInv, UNCHANGED pipeVars PROVE PipeInv'
<1>1. UNCHANGED <<env, pOp>>
  BY DEF pipeVars
<1>2. ASSUME NEW call, PipeCall(call) PROVE PipeCall(call)'
  BY <1>1, <1>2 DEF PipeCall, PipeKnown, PipeRuled, PipeScoped
<1>3. ASSUME NEW c \in Client, NEW call, call = pOp'[c] PROVE PipeCall(call)'
  BY <1>1, <1>2, <1>3 DEF PipeInv
<1> QED
  BY <1>1, <1>3 DEF PipeInv

LEMMA PipeGives == ASSUME PipeInv PROVE Pipeline!EntryAuthorized
<1> SUFFICES ASSUME NEW c \in Client, pOp[c].pc = "handle"
    PROVE /\ \E rule \in Pipeline!Table!Lookup(pOp[c].request.method, pOp[c].request.path) :
               \/ rule.public
               \/ /\ pOp[c].request.token # "" /\ \E e \in pOp[c].before : e.valid
                  /\ \E e \in pOp[c].before : e.up /\ rule.action \in e.held
          /\ pOp[c].claims # "" => pOp[c].claims = pOp[c].request.token /\ \E e \in pOp[c].before : e.valid
          /\ pOp[c].claims = "tenant" => \E e \in pOp[c].before : e.usable
  BY Zenon DEF Pipeline!EntryAuthorized
<1>1. PipeKnown(pOp[c]) /\ PipeRuled(pOp[c]) /\ PipeScoped(pOp[c])
  BY PipeIdle DEF PipeInv, PipeCall, PipeInside
<1> QED
  BY <1>1 DEF PipeKnown, PipeRuled, PipeScoped

-----------------------------------------------------------------------------
(* Startup: an instance has the configuration it loaded, and its handles go  *)
(* with its phase; whoever is in a transaction has the next version, so that *)
(* the ledger grows without gaps, whichever instances start together.        *)
Starts(of) == INSTANCE Startup WITH used <- iUsed, Instance <- of.instance, File <- of.file,
           Environ <- of.environ, World <- of.world, MaxStarts <- of.starts, MaxRequests <- of.requests

\* The layers set secrets that the model tells apart, and no layer sets the
\* port of Redis to 0, which marks the development configuration.
Says(layer, f) == f \in DOMAIN layer /\ layer[f] # <<>>
Layer(layer) ==
  /\ Says(layer, "jwtSecret") => layer["jwtSecret"][1] \in {"", "placeholder", "short", "long"}
  /\ Says(layer, "dbPassword") => layer["dbPassword"][1] \in {"", "placeholder", "long"}
  /\ Says(layer, "redisPort") => layer["redisPort"][1] # 0
StartupConstants(k) ==
  /\ \A f \in k.file : Layer(f.values)
  /\ \A e \in k.environ : Layer(e)
  /\ \A w \in k.world : DOMAIN w = {"db", "redis", "disk", "port"}
ASSUME StartupAssumption ==
  /\ StartupConstants(StartupOfTwo) /\ StartupConstants(StartupOfOne)
  /\ IsFiniteSet(Version) /\ Version = 1..Cardinality(Version)
Versions == \E n \in Nat : Version = 1..n

\* What an instance has: a configuration that was loaded or is the development
\* one, and handles that go with the phase it is in.
Loaded(k) == Starts(k)!applyEnv(Starts(k)!applyFile(Starts(k)!Default, file), environ)
MayStart(k) ==
  /\ Starts(k)!FileRead(file) /\ Starts(k)!EnvRead(Starts(k)!applyFile(Starts(k)!Default, file), environ)
  /\ Starts(k)!Validate(Loaded(k))
Early == {"down", "loaded", "storage"}
Built == {"build", "serve", "stopping", "exited"}
Phase == Early \cup {"ledger", "migrate", "redis", "refused"} \cup Built

Shape(me) ==
  /\ DOMAIN me = {"phase", "cfg", "db", "redis", "read", "tx", "backends", "hub", "http", "failed", "metrics",
                  "signal", "handled", "active", "exit"}
  /\ DOMAIN me.backends = {1, 2}
  /\ me.phase \in Phase /\ me.active \in Nat
Configured(k, me) ==
  /\ me.phase \notin {"down", "refused"} => me.cfg = Starts(k)!DevelopmentDefault \/ (MayStart(k) /\ me.cfg = Loaded(k))
  /\ me.phase = "refused" /\ me.cfg = Starts(k)!DevelopmentDefault => ~world.disk
Migrating(me) ==
  /\ me.read \subseteq ledger
  /\ me.tx # 0 => me.phase = "migrate" /\ me.tx \in Version \ ledger /\ \A u \in Version : u < me.tx => u \in ledger
DatabaseKept(me) ==
  \/ me.backends[1] = "postgres" /\ me.db = "open" /\ ledger = Version
  \/ me.backends[1] = "memory" /\ me.db = "none" /\ (me.cfg.dbHost = "" \/ me.cfg.fallback)
RedisKept(me) ==
  \/ me.backends[2] = "redis" /\ me.redis = "open"
  \/ me.backends[2] = "memory" /\ me.redis = "none" /\ (me.cfg.redisHost = "" \/ me.cfg.fallback)
Backed(me) ==
  /\ me.phase \in Early => me.db = "none" /\ me.redis = "none"
  /\ me.phase \in {"ledger", "migrate"} => me.redis = "none" /\ me.db = "open" /\ me.cfg.dbHost # ""
  /\ me.phase = "redis" => DatabaseKept(me) /\ me.redis = "none"
  /\ me.phase \in Built => DatabaseKept(me) /\ RedisKept(me)
  /\ me.phase = "refused" => me.db # "open" /\ me.redis # "open"
Ending(me) ==
  /\ me.exit = 0 => me.signal
  /\ me.exit = 1 => me.failed \/ me.phase = "refused"
  /\ me.phase = "exited" => me.http = "closed"
InstanceInv(k, me) == Shape(me) /\ Configured(k, me) /\ Migrating(me) /\ Backed(me) /\ Ending(me)

StartupInv(k) ==
  /\ file \in k.file /\ environ \in k.environ /\ ledger \subseteq Version /\ DOMAIN inst = k.instance
  /\ DOMAIN world = {"db", "redis", "disk", "port"}
  /\ DOMAIN schema = Version /\ \A v \in Version : schema[v] = IF v \in ledger THEN 1 ELSE 0
  /\ \A v \in ledger, u \in Version : u < v => u \in ledger
  /\ \A i \in k.instance : InstanceInv(k, inst[i])
  /\ \A i, j \in k.instance : i # j /\ inst[i].tx # 0 => inst[i].tx # inst[j].tx

\* The versions are counted from 1.
LEMMA VersionsCount == Versions
BY StartupAssumption, FS_CardinalityType DEF Versions

\* An instance that is down.
LEMMA DownInv == ASSUME NEW k PROVE InstanceInv(k, Starts(k)!Down) /\ Starts(k)!Down.tx = 0
<1> DEFINE down == Starts(k)!Down
<1>1. /\ down.phase = "down" /\ down.db = "none" /\ down.redis = "none" /\ down.read = {} /\ down.tx = 0
      /\ down.backends = <<"", "">> /\ down.active = 0 /\ down.exit = 9
      /\ DOMAIN down = {"phase", "cfg", "db", "redis", "read", "tx", "backends", "hub", "http", "failed", "metrics",
                  "signal", "handled", "active", "exit"}
  BY DEF Starts!Down
<1>0. down.active \in Nat /\ down.exit \in Nat \ {0, 1}
  BY DEF Starts!Down
<1>2. DOMAIN <<"", "">> = {1, 2}
  OBVIOUS
<1> HIDE DEF down
<1>3. DOMAIN down.backends = {1, 2}
  BY <1>1, <1>2
<1>4. Shape(down)
  <2>1. down.phase \in Phase
    BY <1>1 DEF Phase, Early
  <2>2. down.active \in Nat
    BY <1>0
  <2> QED
    BY <2>1, <2>2, <1>1, <1>3 DEF Shape
<1>5. Migrating(down)
  BY <1>1 DEF Migrating
<1>6. Configured(k, down)
  BY <1>1 DEF Configured
<1>7. Backed(down)
  BY <1>1 DEF Backed, Early, Built
<1>8. Ending(down)
  <2>1. down.exit # 0 /\ down.exit # 1
    BY <1>0
  <2>2. down.phase # "exited"
    BY <1>1
  <2> QED
    BY <2>1, <2>2 DEF Ending
<1> QED
  BY <1>1, <1>4, <1>5, <1>6, <1>7, <1>8 DEF InstanceInv, down

\* One instance changes, and nothing else.
LEMMA StartupSet ==
  ASSUME NEW k, StartupInv(k), NEW i \in k.instance, NEW new, inst' = [inst EXCEPT ![i] = new],
         UNCHANGED <<file, environ, world, schema, ledger>>, InstanceInv(k, new),
         new.tx # 0 => \A j \in k.instance \ {i} : inst[j].tx # new.tx
  PROVE  StartupInv(k)'
<1>1. /\ inst'[i] = new /\ \A j \in k.instance \ {i} : inst'[j] = inst[j]
      /\ DOMAIN inst' = k.instance
  BY DEF StartupInv
<1>2. \A me : InstanceInv(k, me)' <=> InstanceInv(k, me)
  <2>1. (MayStart(k)' <=> MayStart(k)) /\ Loaded(k)' = Loaded(k)
    BY DEF MayStart, Loaded, Starts!FileRead, Starts!EnvRead, Starts!Validate, Starts!applyEnv, Starts!applyFile,
           Starts!Override, Starts!Default
  <2>2. \A me : Configured(k, me)' <=> Configured(k, me)
    BY <2>1 DEF Configured
  <2>3. \A me : (Migrating(me)' <=> Migrating(me)) /\ (Backed(me)' <=> Backed(me))
    BY DEF Migrating, Backed, DatabaseKept, RedisKept
  <2>4. \A me : (Shape(me)' <=> Shape(me)) /\ (Ending(me)' <=> Ending(me))
    BY DEF Shape, Ending
  <2> QED
    BY <2>2, <2>3, <2>4 DEF InstanceInv
<1>3. \A j \in k.instance : InstanceInv(k, inst'[j])
  BY <1>1 DEF StartupInv
<1>4. \A j, l \in k.instance : j # l /\ inst'[j].tx # 0 => inst'[j].tx # inst'[l].tx
  BY <1>1 DEF StartupInv
<1> QED
  BY <1>1, <1>2, <1>3, <1>4 DEF StartupInv

LEMMA RefusedInv ==
  ASSUME NEW k, NEW me, Shape(me), Migrating(me), me.cfg = Starts(k)!DevelopmentDefault => ~world.disk
  PROVE  InstanceInv(k, Starts(k)!Refused(me)) /\ Starts(k)!Refused(me).tx = 0
<1> DEFINE new == Starts(k)!Refused(me)
<1>1. /\ new.phase = "refused" /\ new.cfg = me.cfg /\ new.read = me.read /\ new.backends = me.backends
      /\ DOMAIN new = DOMAIN me
  BY DEF Shape, Starts!Refused
<1>2. new.db # "open" /\ new.redis # "open"
  BY DEF Shape, Starts!Refused, Starts!Closed
<1>3. new.tx = 0 /\ new.exit = 1 /\ new.active = me.active
  BY DEF Shape, Starts!Refused
<1> HIDE DEF new
<1>4. Shape(new)
  BY <1>1, <1>3 DEF Shape, Phase
<1>5. Migrating(new)
  BY <1>1, <1>3 DEF Migrating
<1>6. Configured(k, new)
  BY <1>1 DEF Configured
<1>7. Backed(new)
  BY <1>1, <1>2 DEF Backed, Early, Built
<1>8. Ending(new)
  BY <1>1, <1>3 DEF Ending
<1> QED
  BY <1>3, <1>4, <1>5, <1>6, <1>7, <1>8 DEF InstanceInv, new

LEMMA DevelopmentValid == ASSUME NEW k PROVE Starts(k)!Validate(Starts(k)!DevelopmentDefault)
<1> DEFINE dev == Starts(k)!DevelopmentDefault
<1>1. /\ dev.jwtSecret = "long" /\ dev.dbHost = "" /\ dev.redisHost = "" /\ dev.ssoIssuer = ""
  BY DEF Starts!DevelopmentDefault, Starts!Default
<1>2. dev.port = 8080 /\ dev.metricsPort = 9090 /\ dev.readTimeout = 30
  BY DEF Starts!DevelopmentDefault, Starts!Default
<1> HIDE DEF dev
<1>3. dev.jwtSecret \notin {"", "placeholder"} /\ dev.jwtSecret # "short"
  BY <1>1
<1>4. /\ dev.port \in Starts(k)!PortNumber /\ dev.metricsPort \in Starts(k)!PortNumber
      /\ dev.metricsPort # dev.port /\ dev.readTimeout > 0
  BY <1>2 DEF Starts!PortNumber
<1>5. dev.dbHost = "" /\ dev.ssoIssuer = "" /\ dev.redisHost = ""
  BY <1>1
<1>6. Starts(k)!Validate(dev)
  BY <1>3, <1>4, <1>5 DEF Starts!Validate, Starts!PlaceholderSecret
<1> QED
  BY <1>6 DEF dev

LEMMA LoadedIs ==
  ASSUME NEW k, StartupConstants(k), file \in k.file, environ \in k.environ
  PROVE  /\ DOMAIN Loaded(k) = DOMAIN Starts(k)!Default
         /\ \A f \in DOMAIN Loaded(k) :
               Loaded(k)[f] = IF Says(environ, f) THEN environ[f][1]
                              ELSE IF Says(file.values, f) THEN file.values[f][1] ELSE Starts(k)!Default[f]
         /\ Loaded(k) # Starts(k)!DevelopmentDefault
<1> DEFINE d == Starts(k)!Default
<1>1. DOMAIN Loaded(k) = DOMAIN d
  BY DEF Loaded, Starts!applyEnv, Starts!applyFile, Starts!Override
<1>2. \A f \in DOMAIN d :
        Loaded(k)[f] = IF Says(environ, f) THEN environ[f][1]
                       ELSE IF Says(file.values, f) THEN file.values[f][1] ELSE d[f]
  <2> HIDE DEF d
  <2> QED
    BY DEF Loaded, Starts!applyEnv, Starts!applyFile, Starts!Override, Says, d
<1>3. d.redisPort = 6379 /\ "redisPort" \in DOMAIN d /\ Starts(k)!DevelopmentDefault.redisPort = 0
  BY DEF Starts!Default, Starts!DevelopmentDefault
<1> HIDE DEF d
<1>4. Layer(file.values) /\ Layer(environ)
  BY DEF StartupConstants
<1>5. Loaded(k)["redisPort"] # 0
  <2>1. CASE Says(environ, "redisPort")
    <3>1. Loaded(k)["redisPort"] = environ["redisPort"][1]
      BY <1>2, <1>3, <2>1
    <3>2. environ["redisPort"][1] # 0
      BY <1>4, <2>1, Zenon DEF Layer
    <3> QED
      BY <3>1, <3>2
  <2>2. CASE ~Says(environ, "redisPort") /\ Says(file.values, "redisPort")
    <3>1. Loaded(k)["redisPort"] = file.values["redisPort"][1]
      BY <1>2, <1>3, <2>2
    <3>2. file.values["redisPort"][1] # 0
      BY <1>4, <2>2, Zenon DEF Layer
    <3> QED
      BY <3>1, <3>2
  <2>3. CASE ~Says(environ, "redisPort") /\ ~Says(file.values, "redisPort")
    <3>1. Loaded(k)["redisPort"] = d["redisPort"]
      BY <1>2, <1>3, <2>3
    <3>2. d["redisPort"] # 0
      BY <1>3
    <3> QED
      BY <3>1, <3>2
  <2> QED
    BY <2>1, <2>2, <2>3
<1> QED
  BY <1>1, <1>2, <1>3, <1>5 DEF d

LEMMA StartupLoad ==
  ASSUME NEW k, StartupConstants(k), StartupInv(k), NEW i \in k.instance, Starts(k)!Load(i)
  PROVE  StartupInv(k)'
<1> DEFINE down == Starts(k)!Down
           up == [down EXCEPT !.phase = "loaded", !.cfg = Loaded(k)]
           mid == [down EXCEPT !.cfg = Loaded(k)]
<1>0. UNCHANGED <<file, environ, world, schema, ledger>> /\ file \in k.file /\ environ \in k.environ
  BY DEF Starts!Load, StartupInv
<1>1. Shape(down) /\ Migrating(down) /\ Backed(down) /\ Ending(down) /\ down.tx = 0 /\ down.phase = "down"
  BY DownInv DEF InstanceInv, Starts!Down
<1>2. \/ MayStart(k) /\ inst' = [inst EXCEPT ![i] = up]
      \/ inst' = [inst EXCEPT ![i] = Starts(k)!Refused(mid)]
  BY DEF Starts!Load, Starts!Set, MayStart, Loaded
<1>3. CASE MayStart(k) /\ inst' = [inst EXCEPT ![i] = up]
  <2>1. /\ up.phase = "loaded" /\ up.cfg = Loaded(k) /\ up.db = down.db /\ up.redis = down.redis /\ up.read = down.read
        /\ up.backends = down.backends /\ DOMAIN up = DOMAIN down /\ up.http = down.http
    BY <1>1 DEF Shape
  <2>2. up.tx = 0 /\ up.active = down.active /\ up.exit = down.exit
    BY <1>1 DEF Shape
  <2>3. down.exit = 9
    BY DEF Starts!Down
  <2> HIDE DEF up, down, mid
  <2>4. Shape(up)
    BY <1>1, <2>1, <2>2 DEF Shape, Phase, Early
  <2>5. Migrating(up)
    BY <1>1, <2>1, <2>2 DEF Migrating
  <2>6. Configured(k, up)
    BY <1>3, <2>1 DEF Configured
  <2>7. Backed(up)
    BY <1>1, <2>1 DEF Backed, Early, Built
  <2>8. Ending(up)
    BY <2>1, <2>2, <2>3 DEF Ending
  <2> QED
    BY <1>0, <1>3, <2>2, <2>4, <2>5, <2>6, <2>7, <2>8, StartupSet DEF InstanceInv
<1>4. CASE inst' = [inst EXCEPT ![i] = Starts(k)!Refused(mid)]
  <2>1. /\ mid.cfg = Loaded(k) /\ mid.read = down.read /\ mid.phase = down.phase
        /\ mid.backends = down.backends /\ DOMAIN mid = DOMAIN down
    BY <1>1 DEF Shape
  <2>2. mid.tx = 0 /\ mid.active = down.active
    BY <1>1 DEF Shape
  <2> HIDE DEF up, down, mid
  <2>3. Shape(mid) /\ Migrating(mid)
    BY <1>1, <2>1, <2>2 DEF Shape, Migrating
  <2>4. mid.cfg # Starts(k)!DevelopmentDefault
    BY <1>0, <2>1, LoadedIs
  <2> QED
    BY <1>0, <1>4, <2>3, <2>4, StartupSet, RefusedInv
<1> QED
  BY <1>2, <1>3, <1>4

LEMMA StartupNew ==
  ASSUME NEW k, StartupConstants(k), StartupInv(k), NEW i \in k.instance, Starts(k)!New(i)
  PROVE  StartupInv(k)'
<1> DEFINE down == Starts(k)!Down
           up == [down EXCEPT !.phase = "loaded", !.cfg = Starts(k)!DevelopmentDefault]
<1>0. UNCHANGED <<file, environ, world, schema, ledger>> /\ inst' = [inst EXCEPT ![i] = up]
  BY DEF Starts!New, Starts!Set
<1>1. Shape(down) /\ Migrating(down) /\ Backed(down) /\ Ending(down) /\ down.tx = 0 /\ down.phase = "down"
  BY DownInv DEF InstanceInv, Starts!Down
<1>2. /\ up.phase = "loaded" /\ up.cfg = Starts(k)!DevelopmentDefault /\ up.db = down.db /\ up.redis = down.redis
      /\ up.read = down.read /\ up.backends = down.backends /\ DOMAIN up = DOMAIN down /\ up.http = down.http
  BY <1>1 DEF Shape
<1>3. up.tx = 0 /\ up.active = down.active /\ up.exit = down.exit
  BY <1>1 DEF Shape
<1>4. down.exit = 9
  BY DEF Starts!Down
<1> HIDE DEF up, down
<1>5. Shape(up)
  BY <1>1, <1>2, <1>3 DEF Shape, Phase, Early
<1>6. Migrating(up)
  BY <1>1, <1>2, <1>3 DEF Migrating
<1>7. Configured(k, up)
  BY <1>2 DEF Configured
<1>8. Backed(up)
  BY <1>1, <1>2 DEF Backed, Early, Built
<1>9. Ending(up)
  BY <1>2, <1>3, <1>4 DEF Ending
<1> QED
  BY <1>0, <1>3, <1>5, <1>6, <1>7, <1>8, <1>9, StartupSet DEF InstanceInv
LEMMA StartupRefused ==
  ASSUME NEW k, StartupInv(k), NEW i \in k.instance, Starts(k)!Refuse(i), UNCHANGED <<file, environ, world, schema, ledger>>,
         inst[i].cfg = Starts(k)!DevelopmentDefault => ~world.disk
  PROVE  StartupInv(k)'
<1>1. Shape(inst[i]) /\ Migrating(inst[i])
  BY DEF StartupInv, InstanceInv
<1>2. InstanceInv(k, Starts(k)!Refused(inst[i])) /\ Starts(k)!Refused(inst[i]).tx = 0
  BY <1>1, RefusedInv
<1> QED
  BY <1>2, StartupSet DEF Starts!Refuse, Starts!Set

LEMMA StartupNewWithConfig ==
  ASSUME NEW k, StartupConstants(k), StartupInv(k), NEW i \in k.instance, Starts(k)!NewWithConfig(i)
  PROVE  StartupInv(k)'
<1> DEFINE new == [inst[i] EXCEPT !.phase = "storage"]
<1>1. UNCHANGED <<file, environ, world, schema, ledger>> /\ inst[i].phase = "loaded"
  BY DEF Starts!NewWithConfig, Starts!OnlyInst
<1>2. InstanceInv(k, inst[i]) /\ Shape(inst[i]) /\ Configured(k, inst[i]) /\ Migrating(inst[i]) /\ Backed(inst[i]) /\ Ending(inst[i])
  BY DEF StartupInv, InstanceInv
<1>3. CASE Starts(k)!Refuse(i) /\ (~Starts(k)!Validate(inst[i].cfg) \/ ~world.disk)
  BY <1>1, <1>2, <1>3, DevelopmentValid, StartupRefused
<1>4. CASE inst' = [inst EXCEPT ![i] = new]
  <2>1. /\ new.phase = "storage" /\ new.cfg = inst[i].cfg /\ new.db = inst[i].db /\ new.redis = inst[i].redis
        /\ new.read = inst[i].read /\ new.backends = inst[i].backends /\ DOMAIN new = DOMAIN inst[i]
        /\ new.tx = inst[i].tx /\ new.active = inst[i].active /\ new.exit = inst[i].exit
    BY <1>2 DEF Shape
  <2>2. (new.signal <=> inst[i].signal) /\ (new.failed <=> inst[i].failed)
    BY <1>2 DEF Shape
  <2> HIDE DEF new
  <2>3. Shape(new)
    BY <1>2, <2>1 DEF Shape, Phase, Early
  <2>4. Migrating(new) /\ new.tx = 0
    BY <1>1, <1>2, <2>1 DEF Migrating
  <2>5. Configured(k, new)
    BY <1>1, <1>2, <2>1 DEF Configured
  <2>6. Backed(new)
    BY <1>1, <1>2, <2>1 DEF Backed, Early, Built
  <2>7. Ending(new)
    BY <1>1, <1>2, <2>1, <2>2 DEF Ending
  <2> QED
    BY <1>1, <1>4, <2>3, <2>4, <2>5, <2>6, <2>7, StartupSet DEF InstanceInv
<1> QED
  BY <1>3, <1>4 DEF Starts!NewWithConfig, Starts!Set

LEMMA DevelopmentHosts ==
  ASSUME NEW k PROVE Starts(k)!DevelopmentDefault.dbHost = "" /\ Starts(k)!DevelopmentDefault.redisHost = ""
BY DEF Starts!DevelopmentDefault, Starts!Default

LEMMA StartupSelectStorage ==
  ASSUME NEW k, StartupConstants(k), StartupInv(k), NEW i \in k.instance, Starts(k)!SelectStorage(i)
  PROVE  StartupInv(k)'
<1> DEFINE memory == [inst[i] EXCEPT !.phase = "redis", !.backends[1] = "memory"]
           open == [inst[i] EXCEPT !.phase = "ledger", !.db = "open"]
<1>1. UNCHANGED <<file, environ, world, schema, ledger>> /\ inst[i].phase = "storage"
  BY DEF Starts!SelectStorage, Starts!OnlyInst
<1>2. InstanceInv(k, inst[i]) /\ Shape(inst[i]) /\ Configured(k, inst[i]) /\ Migrating(inst[i]) /\ Backed(inst[i]) /\ Ending(inst[i])
  BY DEF StartupInv, InstanceInv
<1>3. CASE inst' = [inst EXCEPT ![i] = memory] /\ (inst[i].cfg.dbHost = "" \/ inst[i].cfg.fallback)
  <2>1. /\ memory.phase = "redis" /\ memory.cfg = inst[i].cfg /\ memory.db = inst[i].db /\ memory.redis = inst[i].redis
        /\ memory.read = inst[i].read /\ memory.backends = [inst[i].backends EXCEPT ![1] = "memory"] /\ memory.tx = inst[i].tx
        /\ memory.active = inst[i].active /\ memory.exit = inst[i].exit /\ memory.http = inst[i].http /\ DOMAIN memory = DOMAIN inst[i]
    BY <1>2 DEF Shape
  <2>2. (memory.signal <=> inst[i].signal) /\ (memory.failed <=> inst[i].failed)
    BY <1>2 DEF Shape
  <2> HIDE DEF memory
  <2>3. Shape(memory)
    BY <1>1, <1>2, <2>1, <1>3 DEF Shape, Phase, Early, Built
  <2>4. Migrating(memory) /\ memory.tx = inst[i].tx
    BY <1>1, <1>2, <2>1, <1>3 DEF Migrating
  <2>5. Configured(k, memory)
    BY <1>1, <1>2, <2>1, <1>3 DEF Configured
  <2>6. Backed(memory)
    <3>1. memory.backends[1] = "memory" /\ inst[i].db = "none"
      BY <1>1, <1>2, <2>1, <1>3 DEF Shape, Backed, Early, Built
    <3>2. DatabaseKept(memory)
      BY <1>1, <1>2, <2>1, <3>1, <1>3 DEF DatabaseKept, Backed, Early, Built
    <3> QED
      BY <1>1, <1>2, <2>1, <3>2, <1>3 DEF Backed, Early, Built
  <2>7. Ending(memory)
    BY <1>1, <1>2, <2>1, <2>2, <1>3 DEF Ending
  <2>8. \A j \in k.instance \ {i} : memory.tx # 0 => inst[j].tx # memory.tx
    BY <2>4 DEF StartupInv
  <2> QED
    BY <1>1, <1>3, <2>3, <2>4, <2>5, <2>6, <2>7, <2>8, StartupSet DEF InstanceInv
<1>4. CASE inst' = [inst EXCEPT ![i] = open] /\ inst[i].cfg.dbHost # ""
  <2>1. /\ open.phase = "ledger" /\ open.cfg = inst[i].cfg /\ open.db = "open" /\ open.redis = inst[i].redis
        /\ open.read = inst[i].read /\ open.backends = inst[i].backends /\ open.tx = inst[i].tx
        /\ open.active = inst[i].active /\ open.exit = inst[i].exit /\ open.http = inst[i].http /\ DOMAIN open = DOMAIN inst[i]
    BY <1>2 DEF Shape
  <2>2. (open.signal <=> inst[i].signal) /\ (open.failed <=> inst[i].failed)
    BY <1>2 DEF Shape
  <2> HIDE DEF open
  <2>3. Shape(open)
    BY <1>1, <1>2, <2>1, <1>4 DEF Shape, Phase, Early, Built
  <2>4. Migrating(open) /\ open.tx = inst[i].tx
    BY <1>1, <1>2, <2>1, <1>4 DEF Migrating
  <2>5. Configured(k, open)
    BY <1>1, <1>2, <2>1, <1>4 DEF Configured
  <2>6. Backed(open)
    BY <1>1, <1>2, <2>1, <1>4 DEF Backed, DatabaseKept, RedisKept, Early, Built
  <2>7. Ending(open)
    BY <1>1, <1>2, <2>1, <2>2, <1>4 DEF Ending
  <2>8. \A j \in k.instance \ {i} : open.tx # 0 => inst[j].tx # open.tx
    BY <2>4 DEF StartupInv
  <2> QED
    BY <1>1, <1>4, <2>3, <2>4, <2>5, <2>6, <2>7, <2>8, StartupSet DEF InstanceInv
<1>5. CASE Starts(k)!Refuse(i) /\ inst[i].cfg.dbHost # ""
  BY <1>1, <1>5, StartupRefused, DevelopmentHosts
<1> QED
  BY <1>3, <1>4, <1>5 DEF Starts!SelectStorage, Starts!Set, Starts!Refuse

LEMMA StartupAppliedVersions ==
  ASSUME NEW k, StartupConstants(k), StartupInv(k), NEW i \in k.instance, Starts(k)!AppliedVersions(i)
  PROVE  StartupInv(k)'
<1> DEFINE new == [inst[i] EXCEPT !.phase = "migrate", !.read = ledger]
<1>1. UNCHANGED <<file, environ, world, schema, ledger>> /\ inst[i].phase = "ledger"
  BY DEF Starts!AppliedVersions, Starts!OnlyInst
<1>2. InstanceInv(k, inst[i]) /\ Shape(inst[i]) /\ Configured(k, inst[i]) /\ Migrating(inst[i]) /\ Backed(inst[i]) /\ Ending(inst[i])
  BY DEF StartupInv, InstanceInv
<1>3. CASE inst' = [inst EXCEPT ![i] = new]
  <2>1. /\ new.phase = "migrate" /\ new.cfg = inst[i].cfg /\ new.db = inst[i].db /\ new.redis = inst[i].redis
        /\ new.read = ledger /\ new.backends = inst[i].backends /\ new.tx = inst[i].tx
        /\ new.active = inst[i].active /\ new.exit = inst[i].exit /\ new.http = inst[i].http /\ DOMAIN new = DOMAIN inst[i]
    BY <1>2 DEF Shape
  <2>2. (new.signal <=> inst[i].signal) /\ (new.failed <=> inst[i].failed)
    BY <1>2 DEF Shape
  <2> HIDE DEF new
  <2>3. Shape(new)
    BY <1>1, <1>2, <2>1 DEF Shape, Phase, Early, Built
  <2>4. Migrating(new) /\ new.tx = inst[i].tx
    BY <1>1, <1>2, <2>1 DEF Migrating
  <2>5. Configured(k, new)
    BY <1>1, <1>2, <2>1 DEF Configured
  <2>6. Backed(new)
    BY <1>1, <1>2, <2>1 DEF Backed, DatabaseKept, RedisKept, Early, Built
  <2>7. Ending(new)
    BY <1>1, <1>2, <2>1, <2>2 DEF Ending
  <2>8. \A j \in k.instance \ {i} : new.tx # 0 => inst[j].tx # new.tx
    BY <2>4 DEF StartupInv
  <2> QED
    BY <1>1, <1>3, <2>3, <2>4, <2>5, <2>6, <2>7, <2>8, StartupSet DEF InstanceInv
<1>4. CASE Starts(k)!Refuse(i)
  <2>1. inst[i].cfg.dbHost # ""
    BY <1>1, <1>2 DEF Backed
  <2> QED
    BY <1>1, <1>4, <2>1, StartupRefused, DevelopmentHosts
<1> QED
  BY <1>3, <1>4 DEF Starts!AppliedVersions, Starts!Set, Starts!Refuse

LEMMA StartupMigrated ==
  ASSUME NEW k, StartupConstants(k), StartupInv(k), NEW i \in k.instance, Starts(k)!Migrated(i)
  PROVE  StartupInv(k)'
<1> DEFINE new == [inst[i] EXCEPT !.phase = "redis", !.backends[1] = "postgres"]
<1>1. UNCHANGED <<file, environ, world, schema, ledger>> /\ inst[i].phase = "migrate" /\ inst[i].tx = 0 /\ Version \subseteq inst[i].read
  BY DEF Starts!Migrated, Starts!OnlyInst
<1>2. InstanceInv(k, inst[i]) /\ Shape(inst[i]) /\ Configured(k, inst[i]) /\ Migrating(inst[i]) /\ Backed(inst[i]) /\ Ending(inst[i])
  BY DEF StartupInv, InstanceInv
<1>3. ledger = Version
  BY <1>1, <1>2 DEF Migrating, StartupInv
<1>4. CASE inst' = [inst EXCEPT ![i] = new] /\ ledger = Version
  <2>1. /\ new.phase = "redis" /\ new.cfg = inst[i].cfg /\ new.db = inst[i].db /\ new.redis = inst[i].redis
        /\ new.read = inst[i].read /\ new.backends = [inst[i].backends EXCEPT ![1] = "postgres"] /\ new.tx = inst[i].tx
        /\ new.active = inst[i].active /\ new.exit = inst[i].exit /\ new.http = inst[i].http /\ DOMAIN new = DOMAIN inst[i]
    BY <1>2 DEF Shape
  <2>2. (new.signal <=> inst[i].signal) /\ (new.failed <=> inst[i].failed)
    BY <1>2 DEF Shape
  <2> HIDE DEF new
  <2>3. Shape(new)
    BY <1>1, <1>2, <2>1, <1>4 DEF Shape, Phase, Early, Built
  <2>4. Migrating(new) /\ new.tx = inst[i].tx
    BY <1>1, <1>2, <2>1, <1>4 DEF Migrating
  <2>5. Configured(k, new)
    BY <1>1, <1>2, <2>1, <1>4 DEF Configured
  <2>6. Backed(new)
    <3>1. new.backends[1] = "postgres" /\ inst[i].db = "open"
      BY <1>1, <1>2, <2>1, <1>4 DEF Shape, Backed, Early, Built
    <3>2. DatabaseKept(new)
      BY <1>1, <1>2, <2>1, <3>1, <1>4 DEF DatabaseKept, Backed, Early, Built
    <3> QED
      BY <1>1, <1>2, <2>1, <3>2, <1>4 DEF Backed, Early, Built
  <2>7. Ending(new)
    BY <1>1, <1>2, <2>1, <2>2, <1>4 DEF Ending
  <2>8. \A j \in k.instance \ {i} : new.tx # 0 => inst[j].tx # new.tx
    BY <2>4 DEF StartupInv
  <2> QED
    BY <1>1, <1>4, <2>3, <2>4, <2>5, <2>6, <2>7, <2>8, StartupSet DEF InstanceInv
<1> QED
  BY <1>3, <1>4 DEF Starts!Migrated, Starts!Set

LEMMA StartupSelectRedis ==
  ASSUME NEW k, StartupConstants(k), StartupInv(k), NEW i \in k.instance, Starts(k)!SelectRedis(i)
  PROVE  StartupInv(k)'
<1> DEFINE memory == [inst[i] EXCEPT !.phase = "build", !.backends[2] = "memory"]
           open == [inst[i] EXCEPT !.phase = "build", !.redis = "open", !.backends[2] = "redis"]
           mid == [inst[i] EXCEPT !.redis = IF world.redis = "mute" THEN "open" ELSE @]
<1>1. UNCHANGED <<file, environ, world, schema, ledger>> /\ inst[i].phase = "redis"
  BY DEF Starts!SelectRedis, Starts!OnlyInst
<1>2. InstanceInv(k, inst[i]) /\ Shape(inst[i]) /\ Configured(k, inst[i]) /\ Migrating(inst[i]) /\ Backed(inst[i]) /\ Ending(inst[i])
  BY DEF StartupInv, InstanceInv
<1>3. CASE inst' = [inst EXCEPT ![i] = memory] /\ (inst[i].cfg.redisHost = "" \/ inst[i].cfg.fallback)
  <2>1. /\ memory.phase = "build" /\ memory.cfg = inst[i].cfg /\ memory.db = inst[i].db /\ memory.redis = inst[i].redis
        /\ memory.read = inst[i].read /\ memory.backends = [inst[i].backends EXCEPT ![2] = "memory"] /\ memory.tx = inst[i].tx
        /\ memory.active = inst[i].active /\ memory.exit = inst[i].exit /\ memory.http = inst[i].http /\ DOMAIN memory = DOMAIN inst[i]
    BY <1>2 DEF Shape
  <2>2. (memory.signal <=> inst[i].signal) /\ (memory.failed <=> inst[i].failed)
    BY <1>2 DEF Shape
  <2> HIDE DEF memory
  <2>3. Shape(memory)
    BY <1>1, <1>2, <2>1, <1>3 DEF Shape, Phase, Early, Built
  <2>4. Migrating(memory) /\ memory.tx = inst[i].tx
    BY <1>1, <1>2, <2>1, <1>3 DEF Migrating
  <2>5. Configured(k, memory)
    BY <1>1, <1>2, <2>1, <1>3 DEF Configured
  <2>6. Backed(memory)
    <3>1. memory.backends[1] = inst[i].backends[1] /\ DatabaseKept(inst[i])
      <4>1. memory.backends[1] = inst[i].backends[1]
        BY <1>2, <2>1 DEF Shape
      <4>2. DatabaseKept(inst[i])
        BY <1>1, <1>2 DEF Backed
      <4> QED
        BY <4>1, <4>2
    <3>2. DatabaseKept(memory)
      BY <1>1, <1>2, <2>1, <3>1, <1>3 DEF DatabaseKept, Backed, Early, Built
    <3>3. memory.backends[2] = "memory" /\ inst[i].redis = "none"
      BY <1>1, <1>2, <2>1, <1>3 DEF Shape, Backed, Early, Built
    <3>4. RedisKept(memory)
      BY <1>1, <1>2, <2>1, <3>3, <1>3 DEF RedisKept, Backed, Early, Built
    <3> QED
      BY <1>1, <1>2, <2>1, <3>2, <3>4, <1>3 DEF Backed, Early, Built
  <2>7. Ending(memory)
    BY <1>1, <1>2, <2>1, <2>2, <1>3 DEF Ending
  <2>8. \A j \in k.instance \ {i} : memory.tx # 0 => inst[j].tx # memory.tx
    BY <2>4 DEF StartupInv
  <2> QED
    BY <1>1, <1>3, <2>3, <2>4, <2>5, <2>6, <2>7, <2>8, StartupSet DEF InstanceInv
<1>4. CASE inst' = [inst EXCEPT ![i] = open]
  <2>1. /\ open.phase = "build" /\ open.cfg = inst[i].cfg /\ open.db = inst[i].db /\ open.redis = "open"
        /\ open.read = inst[i].read /\ open.backends = [inst[i].backends EXCEPT ![2] = "redis"] /\ open.tx = inst[i].tx
        /\ open.active = inst[i].active /\ open.exit = inst[i].exit /\ open.http = inst[i].http /\ DOMAIN open = DOMAIN inst[i]
    BY <1>2 DEF Shape
  <2>2. (open.signal <=> inst[i].signal) /\ (open.failed <=> inst[i].failed)
    BY <1>2 DEF Shape
  <2> HIDE DEF open
  <2>3. Shape(open)
    BY <1>1, <1>2, <2>1, <1>4 DEF Shape, Phase, Early, Built
  <2>4. Migrating(open) /\ open.tx = inst[i].tx
    BY <1>1, <1>2, <2>1, <1>4 DEF Migrating
  <2>5. Configured(k, open)
    BY <1>1, <1>2, <2>1, <1>4 DEF Configured
  <2>6. Backed(open)
    <3>1. open.backends[1] = inst[i].backends[1] /\ DatabaseKept(inst[i])
      <4>1. open.backends[1] = inst[i].backends[1]
        BY <1>2, <2>1 DEF Shape
      <4>2. DatabaseKept(inst[i])
        BY <1>1, <1>2 DEF Backed
      <4> QED
        BY <4>1, <4>2
    <3>2. DatabaseKept(open)
      BY <1>1, <1>2, <2>1, <3>1, <1>4 DEF DatabaseKept, Backed, Early, Built
    <3>3. open.backends[2] = "redis"
      BY <1>1, <1>2, <2>1, <1>4 DEF Shape, Backed, Early, Built
    <3>4. RedisKept(open)
      BY <1>1, <1>2, <2>1, <3>3, <1>4 DEF RedisKept, Backed, Early, Built
    <3> QED
      BY <1>1, <1>2, <2>1, <3>2, <3>4, <1>4 DEF Backed, Early, Built
  <2>7. Ending(open)
    BY <1>1, <1>2, <2>1, <2>2, <1>4 DEF Ending
  <2>8. \A j \in k.instance \ {i} : open.tx # 0 => inst[j].tx # open.tx
    BY <2>4 DEF StartupInv
  <2> QED
    BY <1>1, <1>4, <2>3, <2>4, <2>5, <2>6, <2>7, <2>8, StartupSet DEF InstanceInv
<1>5. CASE inst' = [inst EXCEPT ![i] = Starts(k)!Refused(mid)] /\ inst[i].cfg.redisHost # ""
  <2>1. /\ mid.cfg = inst[i].cfg /\ mid.read = inst[i].read /\ mid.phase = inst[i].phase /\ mid.tx = inst[i].tx
        /\ mid.active = inst[i].active /\ mid.backends = inst[i].backends /\ DOMAIN mid = DOMAIN inst[i]
    BY <1>2 DEF Shape
  <2> HIDE DEF mid
  <2>2. Shape(mid) /\ Migrating(mid)
    BY <1>2, <2>1 DEF Shape, Migrating
  <2>3. mid.cfg # Starts(k)!DevelopmentDefault
    BY <1>5, <2>1, DevelopmentHosts
  <2>4. InstanceInv(k, Starts(k)!Refused(mid)) /\ Starts(k)!Refused(mid).tx = 0
    BY <2>2, <2>3, RefusedInv
  <2> QED
    BY <1>1, <1>5, <2>4, StartupSet
<1> QED
  BY <1>3, <1>4, <1>5 DEF Starts!SelectRedis, Starts!Set

LEMMA Startupbuild ==
  ASSUME NEW k, StartupConstants(k), StartupInv(k), NEW i \in k.instance, Starts(k)!build(i)
  PROVE  StartupInv(k)'
<1> DEFINE new == [inst[i] EXCEPT !.phase = "serve", !.http = "starting",
                            !.metrics = IF inst[i].cfg.metrics THEN "starting" ELSE "none"]
<1>1. UNCHANGED <<file, environ, world, schema, ledger>> /\ inst[i].phase = "build"
  BY DEF Starts!build, Starts!OnlyInst
<1>2. InstanceInv(k, inst[i]) /\ Shape(inst[i]) /\ Configured(k, inst[i]) /\ Migrating(inst[i]) /\ Backed(inst[i]) /\ Ending(inst[i])
  BY DEF StartupInv, InstanceInv
<1>3. CASE inst' = [inst EXCEPT ![i] = new]
  <2>1. /\ new.phase = "serve" /\ new.cfg = inst[i].cfg /\ new.db = inst[i].db /\ new.redis = inst[i].redis
        /\ new.read = inst[i].read /\ new.backends = inst[i].backends /\ new.tx = inst[i].tx
        /\ new.active = inst[i].active /\ new.exit = inst[i].exit /\ new.http = "starting" /\ DOMAIN new = DOMAIN inst[i]
    BY <1>2 DEF Shape
  <2>2. (new.signal <=> inst[i].signal) /\ (new.failed <=> inst[i].failed)
    BY <1>2 DEF Shape
  <2> HIDE DEF new
  <2>3. Shape(new)
    BY <1>1, <1>2, <2>1 DEF Shape, Phase, Early, Built
  <2>4. Migrating(new) /\ new.tx = inst[i].tx
    BY <1>1, <1>2, <2>1 DEF Migrating
  <2>5. Configured(k, new)
    BY <1>1, <1>2, <2>1 DEF Configured
  <2>6. Backed(new)
    BY <1>1, <1>2, <2>1 DEF Backed, DatabaseKept, RedisKept, Early, Built
  <2>7. Ending(new)
    BY <1>1, <1>2, <2>1, <2>2 DEF Ending
  <2>8. \A j \in k.instance \ {i} : new.tx # 0 => inst[j].tx # new.tx
    BY <2>4 DEF StartupInv
  <2> QED
    BY <1>1, <1>3, <2>3, <2>4, <2>5, <2>6, <2>7, <2>8, StartupSet DEF InstanceInv
<1>4. CASE Starts(k)!Refuse(i) /\ ~world.disk
  BY <1>1, <1>4, StartupRefused
<1> QED
  BY <1>3, <1>4 DEF Starts!build, Starts!Set

LEMMA StartupApplyMigration ==
  ASSUME NEW k, StartupConstants(k), Versions, StartupInv(k), NEW i \in k.instance, Starts(k)!ApplyMigration(i)
  PROVE  StartupInv(k)'
<1> DEFINE v == Starts(k)!Min(Version \ inst[i].read)
           new == [inst[i] EXCEPT !.tx = v]
<1>1. UNCHANGED <<file, environ, world, schema, ledger>> /\ inst[i].phase = "migrate" /\ inst[i].tx = 0 /\ Version \ inst[i].read # {}
  BY DEF Starts!ApplyMigration, Starts!OnlyInst
<1>2. InstanceInv(k, inst[i]) /\ Shape(inst[i]) /\ Configured(k, inst[i]) /\ Migrating(inst[i]) /\ Backed(inst[i]) /\ Ending(inst[i])
  BY DEF StartupInv, InstanceInv
<1>3. v \in Version /\ v \in Nat \ {0} /\ \A u \in Version : u < v => u \in ledger
  <2>1. Version \subseteq Nat \ {0}
    BY DEF Versions
  <2>2. PICK x \in Version \ inst[i].read : \A y \in Version \ inst[i].read : x <= y
    BY <1>1, <2>1, LeastNatural
  <2>3. v \in Version \ inst[i].read /\ \A y \in Version \ inst[i].read : v <= y
    BY <2>2 DEF Starts!Min
  <2>4. \A u \in Version : u < v => u \in inst[i].read
    <3> HIDE DEF v
    <3> SUFFICES ASSUME NEW u \in Version, u < v, u \notin inst[i].read PROVE FALSE
      OBVIOUS
    <3>1. v <= u /\ u \in Nat /\ v \in Nat
      BY <2>1, <2>3
    <3> QED
      BY <3>1
  <2>5. inst[i].read \subseteq ledger
    BY <1>2 DEF Migrating
  <2> QED
    BY <2>1, <2>3, <2>4, <2>5
<1>4. CASE /\ inst' = [inst EXCEPT ![i] = new] /\ v \notin ledger
           /\ \A j \in k.instance : inst[j].tx # v
  <2>1. /\ new.phase = inst[i].phase /\ new.cfg = inst[i].cfg /\ new.db = inst[i].db /\ new.redis = inst[i].redis
        /\ new.read = inst[i].read /\ new.backends = inst[i].backends /\ new.tx = v
        /\ new.active = inst[i].active /\ new.exit = inst[i].exit /\ new.http = inst[i].http /\ DOMAIN new = DOMAIN inst[i]
    BY <1>2 DEF Shape
  <2>2. (new.signal <=> inst[i].signal) /\ (new.failed <=> inst[i].failed)
    BY <1>2 DEF Shape
  <2> HIDE DEF new, v
  <2>3. Shape(new)
    BY <1>2, <2>1 DEF Shape
  <2>4. Migrating(new)
    BY <1>1, <1>2, <1>3, <1>4, <2>1 DEF Migrating
  <2>5. Configured(k, new)
    BY <1>2, <2>1 DEF Configured
  <2>6. Backed(new)
    BY <1>1, <1>2, <2>1 DEF Backed, Early, Built
  <2>7. Ending(new)
    BY <1>1, <1>2, <2>1, <2>2 DEF Ending
  <2> QED
    BY <1>1, <1>4, <2>1, <2>3, <2>4, <2>5, <2>6, <2>7, StartupSet DEF InstanceInv
<1>5. CASE Starts(k)!Refuse(i)
  <2>1. inst[i].cfg.dbHost # ""
    BY <1>1, <1>2 DEF Backed
  <2> QED
    BY <1>1, <1>5, <2>1, StartupRefused, DevelopmentHosts
<1> QED
  BY <1>3, <1>4, <1>5 DEF Starts!ApplyMigration, Starts!Set, Starts!Refuse

\* A version is recorded, and the instances that do not have it open are as they were.
LEMMA LedgerGrows ==
  ASSUME NEW k, NEW v \in Version, ledger \subseteq Version, ledger' = ledger \cup {v}, UNCHANGED <<file, environ, world>>
  PROVE  \A me : InstanceInv(k, me) /\ me.tx # v => InstanceInv(k, me)'
<1>1. (MayStart(k)' <=> MayStart(k)) /\ Loaded(k)' = Loaded(k)
  BY DEF MayStart, Loaded, Starts!FileRead, Starts!EnvRead, Starts!Validate, Starts!applyEnv, Starts!applyFile,
         Starts!Override, Starts!Default
<1> SUFFICES ASSUME NEW me, InstanceInv(k, me), me.tx # v PROVE InstanceInv(k, me)'
  OBVIOUS
<1>2. Configured(k, me)'
  BY <1>1 DEF InstanceInv, Configured
<1>3. Migrating(me)'
  BY DEF InstanceInv, Migrating
<1>4. Backed(me)'
  BY DEF InstanceInv, Backed, DatabaseKept, RedisKept
<1>5. Shape(me)' /\ Ending(me)'
  BY DEF InstanceInv, Shape, Ending
<1> QED
  BY <1>2, <1>3, <1>4, <1>5 DEF InstanceInv

\* What a commit makes of the database, when its instance comes out right.
LEMMA StartupCommitted ==
  ASSUME NEW k, Versions, StartupInv(k), NEW i \in k.instance, inst[i].tx # 0, NEW new, inst' = [inst EXCEPT ![i] = new],
         schema' = [schema EXCEPT ![inst[i].tx] = @ + 1], ledger' = ledger \cup {inst[i].tx},
         UNCHANGED <<file, environ, world>>, InstanceInv(k, new)', new.tx = 0
  PROVE  StartupInv(k)'
<1>1. inst[i].tx \in Version \ ledger /\ \A u \in Version : u < inst[i].tx => u \in ledger
  BY DEF StartupInv, InstanceInv, Migrating
<1>2. PICK v : v = inst[i].tx
  OBVIOUS
<1>3. v \in Version \ ledger /\ ledger' = ledger \cup {v} /\ schema' = [schema EXCEPT ![v] = @ + 1]
  BY <1>1, <1>2
<1>4. \A me : InstanceInv(k, me) /\ me.tx # v => InstanceInv(k, me)'
  <2>1. ledger \subseteq Version
    BY DEF StartupInv
  <2> QED
    BY <1>3, <2>1, LedgerGrows
<1>5. inst'[i] = new /\ DOMAIN inst' = k.instance /\ \A j \in k.instance \ {i} : inst'[j] = inst[j]
  BY DEF StartupInv
<1>6. \A j \in k.instance \ {i} : inst[j].tx # v /\ InstanceInv(k, inst[j])
  BY <1>2 DEF StartupInv
<1>7. \A j \in k.instance : \A me : me = inst'[j] => InstanceInv(k, me)'
  BY <1>4, <1>5, <1>6
<1>8. \A j, l \in k.instance : j # l /\ inst'[j].tx # 0 => inst'[j].tx # inst'[l].tx
  BY <1>5 DEF StartupInv
<1>9. DOMAIN schema' = Version /\ \A u \in Version : schema'[u] = IF u \in ledger' THEN 1 ELSE 0
  BY <1>3 DEF StartupInv
<1>10. \A w \in ledger', u \in Version : u < w => u \in ledger'
  BY <1>1, <1>2, <1>3 DEF StartupInv
<1>11. ledger' \subseteq Version
  BY <1>3 DEF StartupInv
<1> QED
  BY <1>5, <1>7, <1>8, <1>9, <1>10, <1>11 DEF StartupInv

LEMMA StartupCommitMigration ==
  ASSUME NEW k, StartupConstants(k), Versions, StartupInv(k), NEW i \in k.instance, Starts(k)!CommitMigration(i)
  PROVE  StartupInv(k)'
<1>1. UNCHANGED <<file, environ, world>> /\ inst[i].tx # 0
  BY DEF Starts!CommitMigration
<1>2. InstanceInv(k, inst[i]) /\ Shape(inst[i]) /\ Configured(k, inst[i]) /\ Migrating(inst[i]) /\ Backed(inst[i]) /\ Ending(inst[i])
  BY DEF StartupInv, InstanceInv
<1>3. inst[i].tx \in Version \ ledger /\ ledger \subseteq Version /\ inst[i].phase = "migrate"
  BY <1>1, <1>2 DEF Migrating, StartupInv
<1>4. inst[i].cfg # Starts(k)!DevelopmentDefault
  BY <1>2, <1>3, DevelopmentHosts DEF Backed
<1>5. PICK v : v = inst[i].tx
  OBVIOUS
<1>6. ASSUME ledger' = ledger \cup {v}
      PROVE  \A me : InstanceInv(k, me) /\ me.tx # v => InstanceInv(k, me)'
  BY <1>1, <1>3, <1>5, <1>6, LedgerGrows
<1>7. CASE /\ schema' = [schema EXCEPT ![inst[i].tx] = @ + 1] /\ ledger' = ledger \cup {inst[i].tx}
           /\ inst' = [inst EXCEPT ![i] = [inst[i] EXCEPT !.tx = 0, !.read = @ \cup {inst[i].tx}]]
  <2>1. PICK new : new = [inst[i] EXCEPT !.tx = 0, !.read = @ \cup {v}]
    OBVIOUS
  <2>2. /\ new.phase = inst[i].phase /\ new.cfg = inst[i].cfg /\ new.db = inst[i].db /\ new.redis = inst[i].redis
        /\ new.read = inst[i].read \cup {v} /\ new.backends = inst[i].backends /\ new.tx = 0
        /\ new.active = inst[i].active /\ new.exit = inst[i].exit /\ new.http = inst[i].http /\ DOMAIN new = DOMAIN inst[i]
    BY <1>2, <2>1 DEF Shape
  <2>3. (new.signal <=> inst[i].signal) /\ (new.failed <=> inst[i].failed)
    BY <1>2, <2>1 DEF Shape
  <2>5. Shape(new)'
    BY <1>2, <2>2 DEF Shape
  <2>6. Migrating(new)'
    BY <1>2, <1>5, <1>7, <2>2 DEF Migrating
  <2>7. Configured(k, new)'
    <3>1. (MayStart(k)' <=> MayStart(k)) /\ Loaded(k)' = Loaded(k)
      BY <1>1 DEF MayStart, Loaded, Starts!FileRead, Starts!EnvRead, Starts!Validate, Starts!applyEnv, Starts!applyFile,
             Starts!Override, Starts!Default
    <3> QED
      BY <1>1, <1>2, <1>3, <2>2, <3>1 DEF Configured
  <2>8. Backed(new)'
    BY <1>2, <1>3, <2>2 DEF Backed, Early, Built
  <2>9. Ending(new)'
    BY <1>2, <1>3, <2>2, <2>3 DEF Ending
  <2>10. InstanceInv(k, new)'
    BY <2>5, <2>6, <2>7, <2>8, <2>9 DEF InstanceInv
  <2> QED
    BY <1>1, <1>5, <1>7, <2>1, <2>2, <2>10, StartupCommitted
<1>8. CASE /\ schema' = [schema EXCEPT ![inst[i].tx] = @ + 1] /\ ledger' = ledger \cup {inst[i].tx}
           /\ Starts(k)!Refuse(i)
  <2>1. PICK new : new = Starts(k)!Refused(inst[i])
    OBVIOUS
  <2>2. InstanceInv(k, new) /\ new.tx = 0
    BY <1>2, <1>4, <2>1, RefusedInv
  <2>3. v # 0
    BY <1>1, <1>5
  <2>4. InstanceInv(k, new)'
    BY <1>5, <1>6, <1>8, <2>2, <2>3
  <2> QED
    BY <1>1, <1>8, <2>1, <2>2, <2>4, StartupCommitted DEF Starts!Refuse, Starts!Set
<1>9. CASE Starts(k)!Refuse(i) /\ UNCHANGED <<schema, ledger>>
  BY <1>1, <1>4, <1>9, StartupRefused
<1> QED
  BY <1>7, <1>8, <1>9 DEF Starts!CommitMigration, Starts!Set, Starts!Refuse

\* While the backends are as they were, an instance that serves has what it needs.
LEMMA ServingKept ==
  ASSUME NEW k, NEW me, NEW new, InstanceInv(k, me), new.phase = me.phase \/ {me.phase, new.phase} \subseteq Built,
         new.cfg = me.cfg, new.db = me.db, new.redis = me.redis, new.read = me.read, new.backends = me.backends,
         new.tx = me.tx
  PROVE  Migrating(new) /\ Configured(k, new) /\ Backed(new)
<1>1. CASE new.phase = me.phase
  <2>1. Migrating(new)
    BY <1>1 DEF InstanceInv, Migrating
  <2>2. Configured(k, new)
    BY <1>1 DEF InstanceInv, Configured
  <2>3. Backed(new)
    BY <1>1 DEF InstanceInv, Backed, DatabaseKept, RedisKept
  <2> QED
    BY <2>1, <2>2, <2>3
<1>2. CASE {me.phase, new.phase} \subseteq Built
  <2>1. Migrating(new)
    BY <1>2 DEF InstanceInv, Migrating, Built
  <2>2. Configured(k, new)
    BY <1>2 DEF InstanceInv, Configured, Built
  <2>3. DatabaseKept(new) /\ RedisKept(new)
    BY <1>2 DEF InstanceInv, Backed, DatabaseKept, RedisKept
  <2>4. Backed(new)
    BY <1>2, <2>3 DEF Backed, Early, Built
  <2> QED
    BY <2>1, <2>2, <2>4
<1> QED
  BY <1>1, <1>2

LEMMA StartupServed ==
  ASSUME NEW k, StartupInv(k), NEW i \in k.instance, NEW new, inst' = [inst EXCEPT ![i] = new], Starts(k)!OnlyInst,
         new.phase = inst[i].phase \/ {inst[i].phase, new.phase} \subseteq Built,
         new.cfg = inst[i].cfg, new.db = inst[i].db, new.redis = inst[i].redis, new.read = inst[i].read,
         new.backends = inst[i].backends, new.tx = inst[i].tx,
         DOMAIN new = DOMAIN inst[i], new.active \in Nat, Ending(new)
  PROVE  StartupInv(k)'
<1>1. InstanceInv(k, inst[i]) /\ Shape(inst[i]) /\ Built \subseteq Phase
  BY DEF StartupInv, InstanceInv, Phase
<1>2. Migrating(new) /\ Configured(k, new) /\ Backed(new)
  BY <1>1, ServingKept
<1>3. Shape(new)
  BY <1>1 DEF Shape
<1>4. \A j \in k.instance \ {i} : new.tx # 0 => inst[j].tx # new.tx
  BY DEF StartupInv
<1> QED
  BY <1>2, <1>3, <1>4, StartupSet DEF InstanceInv, Starts!OnlyInst

LEMMA StartupListen ==
  ASSUME NEW k, StartupConstants(k), StartupInv(k), NEW i \in k.instance, Starts(k)!Listen(i)
  PROVE  StartupInv(k)'
<1>1. Starts(k)!OnlyInst /\ inst[i].http = "starting" /\ inst[i].phase \in {"serve", "stopping"}
  BY DEF Starts!Listen
<1>2. Shape(inst[i]) /\ Ending(inst[i])
  BY DEF StartupInv, InstanceInv
<1>3. ASSUME NEW new, inst' = [inst EXCEPT ![i] = new], new = [inst[i] EXCEPT !.http = "closed"]
      PROVE  StartupInv(k)'
  <2>1. /\ new.phase = inst[i].phase /\ new.cfg = inst[i].cfg /\ new.db = inst[i].db /\ new.redis = inst[i].redis
        /\ new.read = inst[i].read /\ new.backends = inst[i].backends /\ new.tx = inst[i].tx
        /\ new.active = inst[i].active /\ new.exit = inst[i].exit /\ new.http = "closed" /\ DOMAIN new = DOMAIN inst[i]
    BY <1>2, <1>3 DEF Shape
  <2>2. (new.signal <=> inst[i].signal) /\ (new.failed <=> inst[i].failed)
    BY <1>2, <1>3 DEF Shape
  <2>3. Ending(new)
    BY <1>1, <1>2, <2>1, <2>2 DEF Ending
  <2>4. new.active \in Nat
    BY <1>1, <1>2, <2>1, <1>3 DEF Shape
  <2>5. new.phase = inst[i].phase \/ {inst[i].phase, new.phase} \subseteq Built
    BY <1>1, <2>1 DEF Built
  <2> QED
    BY <1>1, <2>1, <2>3, <2>4, <2>5, <1>3, StartupServed
<1>4. ASSUME NEW new, inst' = [inst EXCEPT ![i] = new], new = [inst[i] EXCEPT !.http = "listening"], inst[i].phase = "serve"
      PROVE  StartupInv(k)'
  <2>1. /\ new.phase = inst[i].phase /\ new.cfg = inst[i].cfg /\ new.db = inst[i].db /\ new.redis = inst[i].redis
        /\ new.read = inst[i].read /\ new.backends = inst[i].backends /\ new.tx = inst[i].tx
        /\ new.active = inst[i].active /\ new.exit = inst[i].exit /\ new.http = "listening" /\ DOMAIN new = DOMAIN inst[i]
    BY <1>2, <1>4 DEF Shape
  <2>2. (new.signal <=> inst[i].signal) /\ (new.failed <=> inst[i].failed)
    BY <1>2, <1>4 DEF Shape
  <2>3. Ending(new)
    BY <1>1, <1>2, <2>1, <2>2, <1>4 DEF Ending
  <2>4. new.active \in Nat
    BY <1>1, <1>2, <2>1, <1>4 DEF Shape
  <2>5. new.phase = inst[i].phase \/ {inst[i].phase, new.phase} \subseteq Built
    BY <1>1, <2>1 DEF Built
  <2> QED
    BY <1>1, <2>1, <2>3, <2>4, <2>5, <1>4, StartupServed
<1>5. ASSUME NEW new, inst' = [inst EXCEPT ![i] = new], new = [inst[i] EXCEPT !.http = "closed", !.failed = TRUE]
      PROVE  StartupInv(k)'
  <2>1. /\ new.phase = inst[i].phase /\ new.cfg = inst[i].cfg /\ new.db = inst[i].db /\ new.redis = inst[i].redis
        /\ new.read = inst[i].read /\ new.backends = inst[i].backends /\ new.tx = inst[i].tx
        /\ new.active = inst[i].active /\ new.exit = inst[i].exit /\ new.http = "closed" /\ DOMAIN new = DOMAIN inst[i]
    BY <1>2, <1>5 DEF Shape
  <2>2. (new.signal <=> inst[i].signal)
    BY <1>2, <1>5 DEF Shape
  <2>3. Ending(new)
    <3>1. new.failed
      BY <1>2, <1>5 DEF Shape
    <3> QED
      BY <1>1, <1>2, <2>1, <2>2, <3>1 DEF Ending
  <2>4. new.active \in Nat
    BY <1>1, <1>2, <2>1, <1>5 DEF Shape
  <2>5. new.phase = inst[i].phase \/ {inst[i].phase, new.phase} \subseteq Built
    BY <1>1, <2>1 DEF Built
  <2> QED
    BY <1>1, <2>1, <2>3, <2>4, <2>5, <1>5, StartupServed
<1> QED
  BY <1>1, <1>3, <1>4, <1>5 DEF Starts!Listen, Starts!Set

LEMMA StartupListenMetrics ==
  ASSUME NEW k, StartupConstants(k), StartupInv(k), NEW i \in k.instance, Starts(k)!ListenMetrics(i)
  PROVE  StartupInv(k)'
<1>1. Starts(k)!OnlyInst /\ inst[i].phase \in {"serve", "stopping"}
  BY DEF Starts!ListenMetrics
<1>2. Shape(inst[i]) /\ Ending(inst[i])
  BY DEF StartupInv, InstanceInv
<1>3. PICK to : inst' = [inst EXCEPT ![i] = [inst[i] EXCEPT !.metrics = to]]
  BY DEF Starts!ListenMetrics, Starts!Set
<1>4. ASSUME NEW new, inst' = [inst EXCEPT ![i] = new], new = [inst[i] EXCEPT !.metrics = to]
      PROVE  StartupInv(k)'
  <2>1. /\ new.phase = inst[i].phase /\ new.cfg = inst[i].cfg /\ new.db = inst[i].db /\ new.redis = inst[i].redis
        /\ new.read = inst[i].read /\ new.backends = inst[i].backends /\ new.tx = inst[i].tx
        /\ new.active = inst[i].active /\ new.exit = inst[i].exit /\ new.http = inst[i].http /\ DOMAIN new = DOMAIN inst[i]
    BY <1>2, <1>4 DEF Shape
  <2>2. (new.signal <=> inst[i].signal) /\ (new.failed <=> inst[i].failed)
    BY <1>2, <1>4 DEF Shape
  <2>3. Ending(new)
    BY <1>1, <1>2, <2>1, <2>2 DEF Ending
  <2>4. new.active \in Nat
    BY <1>1, <1>2, <2>1, <1>4 DEF Shape
  <2>5. new.phase = inst[i].phase \/ {inst[i].phase, new.phase} \subseteq Built
    BY <1>1, <2>1 DEF Built
  <2> QED
    BY <1>1, <2>1, <2>3, <2>4, <2>5, <1>4, StartupServed
<1> QED
  BY <1>3, <1>4

LEMMA StartupAccept ==
  ASSUME NEW k, StartupConstants(k), StartupInv(k), NEW i \in k.instance, Starts(k)!Accept(i)
  PROVE  StartupInv(k)'
<1>1. Starts(k)!OnlyInst /\ inst[i].http = "listening"
  BY DEF Starts!Accept
<1>2. Shape(inst[i]) /\ Ending(inst[i])
  BY DEF StartupInv, InstanceInv
<1>3. ASSUME NEW new, inst' = [inst EXCEPT ![i] = new], new = [inst[i] EXCEPT !.handled = @ + 1, !.active = @ + 1]
      PROVE  StartupInv(k)'
  <2>1. /\ new.phase = inst[i].phase /\ new.cfg = inst[i].cfg /\ new.db = inst[i].db /\ new.redis = inst[i].redis
        /\ new.read = inst[i].read /\ new.backends = inst[i].backends /\ new.tx = inst[i].tx
        /\ new.active = inst[i].active + 1 /\ new.exit = inst[i].exit /\ new.http = inst[i].http /\ DOMAIN new = DOMAIN inst[i]
    BY <1>2, <1>3 DEF Shape
  <2>2. (new.signal <=> inst[i].signal) /\ (new.failed <=> inst[i].failed)
    BY <1>2, <1>3 DEF Shape
  <2>3. Ending(new)
    BY <1>1, <1>2, <2>1, <2>2 DEF Ending
  <2>4. new.active \in Nat
    BY <1>1, <1>2, <2>1, <1>3 DEF Shape
  <2>5. new.phase = inst[i].phase \/ {inst[i].phase, new.phase} \subseteq Built
    BY <1>1, <2>1 DEF Built
  <2> QED
    BY <1>1, <2>1, <2>3, <2>4, <2>5, <1>3, StartupServed
<1> QED
  BY <1>1, <1>3 DEF Starts!Accept, Starts!Set

LEMMA StartupAnswer ==
  ASSUME NEW k, StartupConstants(k), StartupInv(k), NEW i \in k.instance, Starts(k)!Answer(i)
  PROVE  StartupInv(k)'
<1>1. Starts(k)!OnlyInst /\ inst[i].active > 0
  BY DEF Starts!Answer
<1>2. Shape(inst[i]) /\ Ending(inst[i])
  BY DEF StartupInv, InstanceInv
<1>3. ASSUME NEW new, inst' = [inst EXCEPT ![i] = new], new = [inst[i] EXCEPT !.active = @ - 1]
      PROVE  StartupInv(k)'
  <2>1. /\ new.phase = inst[i].phase /\ new.cfg = inst[i].cfg /\ new.db = inst[i].db /\ new.redis = inst[i].redis
        /\ new.read = inst[i].read /\ new.backends = inst[i].backends /\ new.tx = inst[i].tx
        /\ new.active = inst[i].active - 1 /\ new.exit = inst[i].exit /\ new.http = inst[i].http /\ DOMAIN new = DOMAIN inst[i]
    BY <1>2, <1>3 DEF Shape
  <2>2. (new.signal <=> inst[i].signal) /\ (new.failed <=> inst[i].failed)
    BY <1>2, <1>3 DEF Shape
  <2>3. Ending(new)
    BY <1>1, <1>2, <2>1, <2>2 DEF Ending
  <2>4. new.active \in Nat
    BY <1>1, <1>2, <2>1, <1>3 DEF Shape
  <2>5. new.phase = inst[i].phase \/ {inst[i].phase, new.phase} \subseteq Built
    BY <1>1, <2>1 DEF Built
  <2> QED
    BY <1>1, <2>1, <2>3, <2>4, <2>5, <1>3, StartupServed
<1> QED
  BY <1>1, <1>3 DEF Starts!Answer, Starts!Set

LEMMA StartupSignal ==
  ASSUME NEW k, StartupConstants(k), StartupInv(k), NEW i \in k.instance, Starts(k)!Signal(i)
  PROVE  StartupInv(k)'
<1>1. Starts(k)!OnlyInst /\ inst[i].phase = "serve"
  BY DEF Starts!Signal
<1>2. Shape(inst[i]) /\ Ending(inst[i])
  BY DEF StartupInv, InstanceInv
<1>3. ASSUME NEW new, inst' = [inst EXCEPT ![i] = new], new = [inst[i] EXCEPT !.signal = TRUE]
      PROVE  StartupInv(k)'
  <2>1. /\ new.phase = inst[i].phase /\ new.cfg = inst[i].cfg /\ new.db = inst[i].db /\ new.redis = inst[i].redis
        /\ new.read = inst[i].read /\ new.backends = inst[i].backends /\ new.tx = inst[i].tx
        /\ new.active = inst[i].active /\ new.exit = inst[i].exit /\ new.http = inst[i].http /\ DOMAIN new = DOMAIN inst[i]
    BY <1>2, <1>3 DEF Shape
  <2>2. (new.failed <=> inst[i].failed)
    BY <1>2, <1>3 DEF Shape
  <2>3. Ending(new)
    <3>1. new.signal
      BY <1>2, <1>3 DEF Shape
    <3> QED
      BY <1>1, <1>2, <2>1, <2>2, <3>1 DEF Ending
  <2>4. new.active \in Nat
    BY <1>1, <1>2, <2>1, <1>3 DEF Shape
  <2>5. new.phase = inst[i].phase \/ {inst[i].phase, new.phase} \subseteq Built
    BY <1>1, <2>1 DEF Built
  <2> QED
    BY <1>1, <2>1, <2>3, <2>4, <2>5, <1>3, StartupServed
<1> QED
  BY <1>1, <1>3 DEF Starts!Signal, Starts!Set

LEMMA StartupQuit ==
  ASSUME NEW k, StartupConstants(k), StartupInv(k), NEW i \in k.instance, Starts(k)!Quit(i)
  PROVE  StartupInv(k)'
<1>1. Starts(k)!OnlyInst /\ inst[i].phase = "serve"
  BY DEF Starts!Quit
<1>2. Shape(inst[i]) /\ Ending(inst[i])
  BY DEF StartupInv, InstanceInv
<1>3. PICK code : /\ (code = 0 /\ inst[i].signal) \/ (code = 1 /\ inst[i].failed)
                  /\ inst' = [inst EXCEPT ![i] = [inst[i] EXCEPT !.phase = "stopping", !.exit = code,
                                                 !.http = IF @ = "listening" THEN "closed" ELSE @]]
  BY DEF Starts!Quit, Starts!Set
<1>4. ASSUME NEW new, inst' = [inst EXCEPT ![i] = new], new = [inst[i] EXCEPT !.phase = "stopping", !.exit = code,
                                                                       !.http = IF @ = "listening" THEN "closed" ELSE @]
      PROVE  StartupInv(k)'
  <2>1. /\ new.phase = "stopping" /\ new.cfg = inst[i].cfg /\ new.db = inst[i].db /\ new.redis = inst[i].redis
        /\ new.read = inst[i].read /\ new.backends = inst[i].backends /\ new.tx = inst[i].tx
        /\ new.active = inst[i].active /\ new.exit = code /\ new.http = (IF inst[i].http = "listening" THEN "closed" ELSE inst[i].http) /\ DOMAIN new = DOMAIN inst[i]
    BY <1>2, <1>4 DEF Shape
  <2>2. (new.signal <=> inst[i].signal) /\ (new.failed <=> inst[i].failed)
    BY <1>2, <1>4 DEF Shape
  <2>3. Ending(new)
    BY <1>3, <2>1, <2>2 DEF Ending
  <2>4. new.active \in Nat
    BY <1>1, <1>2, <2>1, <1>4 DEF Shape
  <2>5. new.phase = inst[i].phase \/ {inst[i].phase, new.phase} \subseteq Built
    BY <1>1, <2>1 DEF Built
  <2> QED
    BY <1>1, <2>1, <2>3, <2>4, <2>5, <1>4, StartupServed
<1> QED
  BY <1>3, <1>4

LEMMA StartupShutdown ==
  ASSUME NEW k, StartupConstants(k), StartupInv(k), NEW i \in k.instance, Starts(k)!Shutdown(i)
  PROVE  StartupInv(k)'
<1>1. Starts(k)!OnlyInst /\ inst[i].phase = "stopping"
  BY DEF Starts!Shutdown
<1>2. Shape(inst[i]) /\ Ending(inst[i])
  BY DEF StartupInv, InstanceInv
<1>3. ASSUME NEW new, inst' = [inst EXCEPT ![i] = new], new = [inst[i] EXCEPT !.phase = "exited", !.metrics = "closed",
                                                                       !.hub = "stopped", !.http = "closed"]
      PROVE  StartupInv(k)'
  <2>1. /\ new.phase = "exited" /\ new.cfg = inst[i].cfg /\ new.db = inst[i].db /\ new.redis = inst[i].redis
        /\ new.read = inst[i].read /\ new.backends = inst[i].backends /\ new.tx = inst[i].tx
        /\ new.active = inst[i].active /\ new.exit = inst[i].exit /\ new.http = "closed" /\ DOMAIN new = DOMAIN inst[i]
    BY <1>2, <1>3 DEF Shape
  <2>2. (new.signal <=> inst[i].signal) /\ (new.failed <=> inst[i].failed)
    BY <1>2, <1>3 DEF Shape
  <2>3. Ending(new)
    BY <1>1, <1>2, <2>1, <2>2 DEF Ending
  <2>4. new.active \in Nat
    BY <1>1, <1>2, <2>1, <1>3 DEF Shape
  <2>5. new.phase = inst[i].phase \/ {inst[i].phase, new.phase} \subseteq Built
    BY <1>1, <2>1 DEF Built
  <2> QED
    BY <1>1, <2>1, <2>3, <2>4, <2>5, <1>3, StartupServed
<1> QED
  BY <1>1, <1>3 DEF Starts!Shutdown, Starts!Set

LEMMA StartupGone ==
  ASSUME NEW k, StartupConstants(k), StartupInv(k), NEW i \in k.instance, Starts(k)!Gone(i)
  PROVE  StartupInv(k)'
<1>1. inst' = [inst EXCEPT ![i] = Starts(k)!Down] /\ Starts(k)!OnlyInst
  BY DEF Starts!Gone, Starts!Set
<1> QED
  BY <1>1, DownInv, StartupSet DEF Starts!OnlyInst

LEMMA StartupBreak ==
  ASSUME NEW k, StartupInv(k), Starts(k)!Break
  PROVE  StartupInv(k)'
<1>1. /\ UNCHANGED <<file, environ, inst, schema, ledger>> /\ DOMAIN world' = DOMAIN world
      /\ ~world.disk => ~world'.disk
  BY DEF Starts!Break, StartupInv
<1>2. (MayStart(k)' <=> MayStart(k)) /\ Loaded(k)' = Loaded(k)
  BY <1>1 DEF MayStart, Loaded, Starts!FileRead, Starts!EnvRead, Starts!Validate, Starts!applyEnv, Starts!applyFile,
         Starts!Override, Starts!Default
<1>3. \A me : Configured(k, me) => Configured(k, me)'
  BY <1>1, <1>2 DEF Configured
<1>4. \A me : (Migrating(me)' <=> Migrating(me)) /\ (Backed(me)' <=> Backed(me))
  BY <1>1 DEF Migrating, Backed, DatabaseKept, RedisKept
<1>5. \A me : (Shape(me)' <=> Shape(me)) /\ (Ending(me)' <=> Ending(me))
  BY DEF Shape, Ending
<1>6. \A me : InstanceInv(k, me) => InstanceInv(k, me)'
  BY <1>3, <1>4, <1>5 DEF InstanceInv
<1> QED
  BY <1>1, <1>6 DEF StartupInv

LEMMA StartupSame == ASSUME NEW k, StartupInv(k), UNCHANGED startVars PROVE StartupInv(k)'
<1>1. UNCHANGED <<file, environ, world, inst, schema, ledger>>
  BY DEF startVars
<1>2. (MayStart(k)' <=> MayStart(k)) /\ Loaded(k)' = Loaded(k)
  BY <1>1 DEF MayStart, Loaded, Starts!FileRead, Starts!EnvRead, Starts!Validate, Starts!applyEnv, Starts!applyFile,
         Starts!Override, Starts!Default
<1>3. \A me : Configured(k, me) => Configured(k, me)'
  BY <1>1, <1>2 DEF Configured
<1>4. \A me : (Migrating(me)' <=> Migrating(me)) /\ (Backed(me)' <=> Backed(me))
  BY <1>1 DEF Migrating, Backed, DatabaseKept, RedisKept
<1>5. \A me : (Shape(me)' <=> Shape(me)) /\ (Ending(me)' <=> Ending(me))
  BY DEF Shape, Ending
<1>6. \A me : InstanceInv(k, me) => InstanceInv(k, me)'
  BY <1>3, <1>4, <1>5 DEF InstanceInv
<1> QED
  BY <1>1, <1>6 DEF StartupInv

LEMMA StartupInit ==
  ASSUME NEW k, StartupConstants(k), Starts(k)!Init
  PROVE  StartupInv(k)
<1>1. /\ file \in k.file /\ environ \in k.environ /\ world \in k.world /\ ledger = {}
      /\ inst = [i \in k.instance |-> Starts(k)!Down] /\ schema = [v \in Version |-> 0]
  BY DEF Starts!Init
<1>2. DOMAIN world = {"db", "redis", "disk", "port"}
  BY <1>1 DEF StartupConstants
<1>3. \A i \in k.instance : InstanceInv(k, inst[i]) /\ inst[i].tx = 0
  BY <1>1, DownInv
<1> QED
  BY <1>1, <1>2, <1>3 DEF StartupInv

LEMMA StartupStep ==
  ASSUME NEW k, StartupConstants(k), Versions, StartupInv(k), Starts(k)!Next
  PROVE  StartupInv(k)'
<1>1. CASE Starts(k)!Break
  BY <1>1, StartupBreak
<1>2. ASSUME NEW i \in k.instance,
             \/ Starts(k)!Load(i) \/ Starts(k)!New(i) \/ Starts(k)!NewWithConfig(i) \/ Starts(k)!SelectStorage(i)
             \/ Starts(k)!AppliedVersions(i) \/ Starts(k)!ApplyMigration(i) \/ Starts(k)!CommitMigration(i)
             \/ Starts(k)!Migrated(i) \/ Starts(k)!SelectRedis(i) \/ Starts(k)!build(i)
      PROVE  StartupInv(k)'
  BY <1>2, StartupLoad, StartupNew, StartupNewWithConfig, StartupSelectStorage, StartupAppliedVersions,
     StartupApplyMigration, StartupCommitMigration, StartupMigrated, StartupSelectRedis, Startupbuild
<1>3. ASSUME NEW i \in k.instance,
             \/ Starts(k)!Listen(i) \/ Starts(k)!ListenMetrics(i) \/ Starts(k)!Accept(i) \/ Starts(k)!Answer(i)
             \/ Starts(k)!Signal(i) \/ Starts(k)!Quit(i) \/ Starts(k)!Shutdown(i) \/ Starts(k)!Gone(i)
      PROVE  StartupInv(k)'
  BY <1>3, StartupListen, StartupListenMetrics, StartupAccept, StartupAnswer, StartupSignal, StartupQuit,
     StartupShutdown, StartupGone
<1> QED
  BY <1>1, <1>2, <1>3 DEF Starts!Next

LEMMA ConfigKept ==
  ASSUME NEW k, StartupConstants(k), StartupInv(k)
  PROVE  Starts(k)!ConfigExact
<1> SUFFICES ASSUME NEW i \in k.instance, inst[i].phase \notin {"down", "refused"},
                    inst[i].cfg # Starts(k)!DevelopmentDefault
             PROVE  /\ \A f \in DOMAIN inst[i].cfg :
                         inst[i].cfg[f] = IF Says(environ, f) THEN environ[f][1]
                           ELSE IF Says(file.values, f) THEN file.values[f][1] ELSE Starts(k)!Default[f]
                    /\ \A f \in DOMAIN environ : environ[f] # <<>>
                    /\ "long" = inst[i].cfg.jwtSecret
                    /\ inst[i].cfg.dbHost = "" \/ inst[i].cfg.dbPassword = "long"
  BY DEF Starts!ConfigExact, Says
<1> DEFINE cfg == Loaded(k)
<1>1. MayStart(k) /\ inst[i].cfg = cfg /\ file \in k.file /\ environ \in k.environ
  BY DEF StartupInv, InstanceInv, Configured
<1>2. /\ DOMAIN cfg = DOMAIN Starts(k)!Default
      /\ \A f \in DOMAIN cfg :
           cfg[f] = IF Says(environ, f) THEN environ[f][1]
                    ELSE IF Says(file.values, f) THEN file.values[f][1] ELSE Starts(k)!Default[f]
  BY <1>1, LoadedIs
<1>3. Layer(file.values) /\ Layer(environ)
  BY <1>1 DEF StartupConstants
<1>4. {"jwtSecret", "dbHost", "dbPassword"} \subseteq DOMAIN cfg
  <2>1. {"jwtSecret", "dbHost", "dbPassword"} \subseteq DOMAIN Starts(k)!Default
    BY DEF Starts!Default
  <2> QED
    BY <1>2, <2>1
<1>5. Starts(k)!Default["jwtSecret"] = "" /\ Starts(k)!Default["dbPassword"] = ""
  BY DEF Starts!Default
<1> HIDE DEF cfg
<1>6. \A f \in DOMAIN environ : environ[f] # <<>>
  BY <1>1 DEF MayStart, Starts!EnvRead
<1>7. Starts(k)!Validate(cfg)
  BY <1>1 DEF MayStart, cfg
<1>8. cfg["jwtSecret"] \in {"", "placeholder", "short", "long"}
  <2>1. Says(environ, "jwtSecret") => environ["jwtSecret"][1] \in {"", "placeholder", "short", "long"}
    BY <1>3, Zenon DEF Layer
  <2>2. Says(file.values, "jwtSecret") => file.values["jwtSecret"][1] \in {"", "placeholder", "short", "long"}
    BY <1>3, Zenon DEF Layer
  <2>3. \/ Says(environ, "jwtSecret") /\ cfg["jwtSecret"] = environ["jwtSecret"][1]
        \/ Says(file.values, "jwtSecret") /\ cfg["jwtSecret"] = file.values["jwtSecret"][1]
        \/ cfg["jwtSecret"] = ""
    BY <1>2, <1>4, <1>5
  <2> QED
    BY <2>1, <2>2, <2>3
<1>9. cfg["dbPassword"] \in {"", "placeholder", "long"}
  <2>1. Says(environ, "dbPassword") => environ["dbPassword"][1] \in {"", "placeholder", "long"}
    BY <1>3, Zenon DEF Layer
  <2>2. Says(file.values, "dbPassword") => file.values["dbPassword"][1] \in {"", "placeholder", "long"}
    BY <1>3, Zenon DEF Layer
  <2>3. \/ Says(environ, "dbPassword") /\ cfg["dbPassword"] = environ["dbPassword"][1]
        \/ Says(file.values, "dbPassword") /\ cfg["dbPassword"] = file.values["dbPassword"][1]
        \/ cfg["dbPassword"] = ""
    BY <1>2, <1>4, <1>5
  <2> QED
    BY <2>1, <2>2, <2>3
<1>10. /\ cfg["jwtSecret"] \notin {"", "placeholder"} /\ cfg["jwtSecret"] # "short"
       /\ cfg["dbHost"] # "" => cfg["dbPassword"] \notin {"", "placeholder"}
  BY <1>7 DEF Starts!Validate, Starts!PlaceholderSecret
<1>11. "long" = cfg["jwtSecret"] /\ (cfg["dbHost"] = "" \/ cfg["dbPassword"] = "long")
  BY <1>8, <1>9, <1>10
<1> QED
  BY <1>1, <1>2, <1>6, <1>11

LEMMA BackendKept ==
  ASSUME NEW k, StartupInv(k)
  PROVE  Starts(k)!BackendDecided
<1> SUFFICES ASSUME NEW i \in k.instance
             PROVE  /\ inst[i].phase \in Built =>
                         /\ inst[i].backends[1] = "postgres" <=> inst[i].db = "open"
                         /\ inst[i].backends[2] = "redis" <=> inst[i].redis = "open"
                         /\ inst[i].cfg.dbHost # "" /\ ~inst[i].cfg.fallback => inst[i].backends[1] = "postgres"
                         /\ inst[i].cfg.redisHost # "" /\ ~inst[i].cfg.fallback => inst[i].backends[2] = "redis"
                         /\ inst[i].backends[1] = "postgres" => ledger = Version
                    /\ inst[i].phase = "refused" => inst[i].db # "open" /\ inst[i].redis # "open"
  BY Zenon DEF Starts!BackendDecided, Starts!Assembled, Built
<1>1. Backed(inst[i])
  BY DEF StartupInv, InstanceInv
<1>2. ASSUME inst[i].phase \in Built
      PROVE  /\ inst[i].backends[1] = "postgres" <=> inst[i].db = "open"
             /\ inst[i].cfg.dbHost # "" /\ ~inst[i].cfg.fallback => inst[i].backends[1] = "postgres"
             /\ inst[i].backends[1] = "postgres" => ledger = Version
  BY <1>1, <1>2 DEF Backed, DatabaseKept
<1>3. ASSUME inst[i].phase \in Built
      PROVE  /\ inst[i].backends[2] = "redis" <=> inst[i].redis = "open"
             /\ inst[i].cfg.redisHost # "" /\ ~inst[i].cfg.fallback => inst[i].backends[2] = "redis"
  BY <1>1, <1>3 DEF Backed, RedisKept
<1>4. inst[i].phase = "refused" => inst[i].db # "open" /\ inst[i].redis # "open"
  BY <1>1 DEF Backed
<1> QED
  BY <1>2, <1>3, <1>4

LEMMA LedgerKept ==
  ASSUME NEW k, Versions, StartupInv(k)
  PROVE  Starts(k)!LedgerExact
<1>1. \A v \in Version : schema[v] = IF v \in ledger THEN 1 ELSE 0
  BY DEF StartupInv
<1>2. ASSUME NEW v \in ledger, NEW u \in 1..v PROVE u \in ledger
  <2>1. PICK n \in Nat : Version = 1..n
    BY DEF Versions
  <2>2. v \in Version /\ u \in Version
    BY <2>1 DEF StartupInv
  <2>3. u = v \/ u < v
    BY <2>1, <2>2
  <2> QED
    BY <2>2, <2>3 DEF StartupInv
<1> QED
  BY <1>1, <1>2 DEF Starts!LedgerExact

LEMMA ExitKept ==
  ASSUME NEW k, StartupInv(k)
  PROVE  Starts(k)!ExitExact /\ Starts(k)!DevelopmentStarts
<1>1. \A i \in k.instance : Ending(inst[i]) /\ Configured(k, inst[i])
  BY DEF StartupInv, InstanceInv
<1>2. Starts(k)!ExitExact
  BY <1>1, Zenon DEF Ending, Starts!ExitExact
<1>3. Starts(k)!DevelopmentStarts
  BY <1>1 DEF Configured, Starts!DevelopmentStarts
<1> QED
  BY <1>2, <1>3

\* Startup: what is configured is what runs, or nothing does.
LEMMA StartupGives ==
  ASSUME NEW k, StartupConstants(k), Versions, StartupInv(k)
  PROVE  /\ Starts(k)!ConfigExact /\ Starts(k)!BackendDecided /\ Starts(k)!LedgerExact /\ Starts(k)!ExitExact
         /\ Starts(k)!DevelopmentStarts
BY ConfigKept, BackendKept, LedgerKept, ExitKept

-----------------------------------------------------------------------------
(* FileStore: what exists has directories above it (FilesTree); a call works *)
(* on places below the base directory (FilesCalls), so that nothing outside  *)
(* changes (FilesOutside) and the base directory stays.                      *)
FilesOfTwo == INSTANCE FileStore WITH op <- fOp, Base <- BaseDir, Place <- TwoFiles.place,
           Request <- TwoFiles.request, Client <- TwoFiles.client
FilesOfOne == INSTANCE FileStore WITH op <- fOp, Base <- BaseDir, Place <- OneFiles.place,
           Request <- OneFiles.request, Client <- OneFiles.client

\* The places are paths; with a path every path above it is one.
FilesConstants(k) ==
  /\ BaseDir \in k.place /\ k.place \subseteq Seq(STRING)
  /\ \A p \in k.place : \A n \in 0..Len(p) : SubSeq(p, 1, n) \in k.place
ASSUME FilesAssumption == FilesConstants(TwoFiles) /\ FilesConstants(OneFiles)

\* One path is another or above it.
Above(s, t) == Len(s) <= Len(t) /\ \A i \in 1..Len(s) : s[i] = t[i]

FilesTyped(k) == tree \in [k.place -> {"none", "file", "dir"}]
FilesCall(k, call) ==
  /\ call.pc = "write" => call.at \in k.place /\ Above(BaseDir, call.at)
  /\ call.pc = "copy" =>
       /\ {"pc", "from", "to", "todo"} \subseteq DOMAIN call
       /\ call.from \in k.place /\ call.to \in k.place
       /\ Above(BaseDir, call.from) /\ Above(BaseDir, call.to)
       /\ \A p \in call.todo : p \in k.place /\ Above(call.from, p)
FilesCalls(k) == DOMAIN fOp = k.client /\ \A c \in k.client : FilesCall(k, fOp[c])
FilesTree(k) == \A s, t \in k.place : Above(s, t) /\ s # t /\ tree[t] # "none" => tree[s] = "dir"
FilesOutside(k) ==
  \A p \in k.place : ~Above(BaseDir, p) =>
    tree[p] = IF \E q \in k.place : Above(p, q) /\ p # q THEN "dir" ELSE "file"
FilesUnread(k) == \A p \in k.place : ~Above(BaseDir, p) => p \notin leaked
FilesShape(k) == FilesTyped(k) /\ FilesTree(k) /\ FilesOutside(k) /\ tree[BaseDir] = "dir"
FilesInv(k) == FilesShape(k) /\ FilesCalls(k) /\ FilesUnread(k)

\* What a call does to the tree: make a file or a directory with what is above
\* it, remove, rename.
FilesMade(k, p, x) ==
  /\ p \in k.place /\ Above(BaseDir, p)
  /\ x \in {"file", "dir"} /\ (x = "file" => tree[p] # "dir")
  /\ tree' = [q \in k.place |-> IF q = p THEN x ELSE IF Above(q, p) THEN "dir" ELSE tree[q]]
FilesRemoved(k, p) ==
  /\ p \in k.place /\ Above(BaseDir, p) /\ p # BaseDir
  /\ tree' = [q \in k.place |-> IF Above(p, q) THEN "none" ELSE tree[q]]
Grafted(p, q, s) == p \o SubSeq(s, Len(q) + 1, Len(s))
FilesMoved(k, p, q) ==
  /\ {p, q} \subseteq k.place /\ Above(BaseDir, p) /\ Above(BaseDir, q)
  /\ tree[p] # "none" /\ ~Above(p, q)
  /\ SubSeq(q, 1, Len(q) - 1) \in k.place /\ tree[SubSeq(q, 1, Len(q) - 1)] = "dir"
  /\ tree[q] # "dir"
  /\ tree' = [s \in k.place |->
                IF Above(q, s) THEN IF Grafted(p, q, s) \in k.place THEN tree[Grafted(p, q, s)] ELSE "none"
                ELSE IF Above(p, s) THEN "none" ELSE tree[s]]

LEMMA AboveOrder ==
  ASSUME NEW s \in Seq(STRING), NEW t \in Seq(STRING), NEW u \in Seq(STRING)
  PROVE  /\ Above(s, s)
         /\ Above(s, t) /\ Above(t, u) => Above(s, u)
         /\ Above(s, t) /\ Above(t, s) => s = t
         /\ Above(s, u) /\ Above(t, u) => Above(s, t) \/ Above(t, s)
         /\ Above(s, t) /\ s # t => Len(s) < Len(t)
<1>1. \A v, w \in Seq(STRING) : Above(v, w) /\ Len(v) = Len(w) => v = w
  BY SeqEqual DEF Above
<1>2. Above(s, t) /\ s # t => Len(s) < Len(t)
  BY <1>1 DEF Above
<1>3. Above(s, t) /\ Above(t, s) => s = t
  BY <1>2 DEF Above
<1> QED
  BY <1>2, <1>3 DEF Above

\* What is above a path is a beginning of it.
LEMMA AboveBegins ==
  ASSUME NEW t \in Seq(STRING), NEW n \in 0..Len(t)
  PROVE  /\ SubSeq(t, 1, n) \in Seq(STRING) /\ Len(SubSeq(t, 1, n)) = n /\ Above(SubSeq(t, 1, n), t)
         /\ \A s \in Seq(STRING) : Above(s, t) /\ Len(s) <= n => Above(s, SubSeq(t, 1, n))
<1>1. /\ SubSeq(t, 1, n) \in Seq(STRING) /\ Len(SubSeq(t, 1, n)) = n
      /\ \A i \in 1..n : SubSeq(t, 1, n)[i] = t[i]
  BY SubSeqProperties
<1> QED
  BY <1>1 DEF Above

\* p, and then what u has below q.
GraftOf(p, q, u, r) ==
  /\ r \in Seq(STRING) /\ Len(r) = Len(p) + (Len(u) - Len(q))
  /\ Above(p, r)
  /\ \A i \in 1..Len(p) : r[i] = p[i]
  /\ \A i \in Len(p) + 1 .. Len(p) + (Len(u) - Len(q)) : r[i] = u[i - Len(p) + Len(q)]

LEMMA GraftedIs ==
  ASSUME NEW p \in Seq(STRING), NEW q \in Seq(STRING), NEW u \in Seq(STRING), Above(q, u)
  PROVE  GraftOf(p, q, u, Grafted(p, q, u))
<1> DEFINE rest == SubSeq(u, Len(q) + 1, Len(u))
<1>1. Len(q) \in Nat /\ Len(u) \in Nat /\ Len(p) \in Nat /\ Len(q) <= Len(u)
  BY DEF Above
<1>2. /\ rest \in Seq(STRING) /\ Len(rest) = Len(u) - Len(q)
      /\ \A i \in 1 .. Len(u) - Len(q) : rest[i] = u[Len(q) + i]
  BY <1>1, SubSeqProperties
<1> HIDE DEF rest
<1>3. /\ p \o rest \in Seq(STRING) /\ Len(p \o rest) = Len(p) + Len(rest)
      /\ \A i \in 1 .. Len(p) + Len(rest) : (p \o rest)[i] = IF i <= Len(p) THEN p[i] ELSE rest[i - Len(p)]
  BY <1>2, ConcatProperties
<1>4. Grafted(p, q, u) = p \o rest
  BY DEF Grafted, rest
<1>5. Len(p \o rest) = Len(p) + (Len(u) - Len(q))
  BY <1>2, <1>3
<1>6. \A i \in 1..Len(p) : (p \o rest)[i] = p[i]
  BY <1>1, <1>2, <1>3
<1>7. \A i \in Len(p) + 1 .. Len(p) + (Len(u) - Len(q)) : (p \o rest)[i] = u[i - Len(p) + Len(q)]
  <2> SUFFICES ASSUME NEW i \in Len(p) + 1 .. Len(p) + (Len(u) - Len(q))
               PROVE  (p \o rest)[i] = u[i - Len(p) + Len(q)]
    OBVIOUS
  <2>1. i - Len(p) \in 1 .. Len(u) - Len(q) /\ i \in 1 .. Len(p) + Len(rest) /\ ~(i <= Len(p))
    BY <1>1, <1>2
  <2>2. (p \o rest)[i] = rest[i - Len(p)]
    BY <1>3, <2>1
  <2>3. Len(q) + (i - Len(p)) = i - Len(p) + Len(q)
    BY <1>1
  <2> QED
    BY <1>2, <2>1, <2>2, <2>3
<1> HIDE DEF rest
<1>8. Above(p, p \o rest)
  BY <1>1, <1>2, <1>5, <1>6 DEF Above
<1> QED
  BY <1>3, <1>4, <1>5, <1>6, <1>7, <1>8 DEF GraftOf

\* A rename takes what is above one another along.
LEMMA GraftedAbove ==
  ASSUME NEW p \in Seq(STRING), NEW q \in Seq(STRING), NEW s \in Seq(STRING), NEW t \in Seq(STRING),
         Above(q, s), Above(s, t), s # t
  PROVE  /\ {Grafted(p, q, s), Grafted(p, q, t)} \subseteq Seq(STRING)
         /\ Grafted(p, q, s) # Grafted(p, q, t)
         /\ Above(p, Grafted(p, q, s)) /\ Above(Grafted(p, q, s), Grafted(p, q, t))
<1>1. Len(s) < Len(t) /\ Above(q, t)
  BY AboveOrder
<1>3. Len(s) \in Nat /\ Len(t) \in Nat /\ Len(p) \in Nat /\ Len(q) \in Nat /\ Len(q) <= Len(s)
      /\ \A i \in 1..Len(s) : s[i] = t[i]
  BY DEF Above
<1> DEFINE g == Grafted(p, q, s)
           h == Grafted(p, q, t)
<1>2. GraftOf(p, q, s, g) /\ GraftOf(p, q, t, h)
  BY <1>1, GraftedIs, Zenon
<1> HIDE DEF g, h
<1>4. /\ g \in Seq(STRING) /\ Len(g) = Len(p) + (Len(s) - Len(q))
      /\ \A i \in 1..Len(p) : g[i] = p[i]
      /\ \A i \in Len(p) + 1 .. Len(p) + (Len(s) - Len(q)) : g[i] = s[i - Len(p) + Len(q)]
  BY <1>2 DEF GraftOf
<1>5. /\ h \in Seq(STRING) /\ Len(h) = Len(p) + (Len(t) - Len(q))
      /\ \A i \in 1..Len(p) : h[i] = p[i]
      /\ \A i \in Len(p) + 1 .. Len(p) + (Len(t) - Len(q)) : h[i] = t[i - Len(p) + Len(q)]
  BY <1>2 DEF GraftOf
<1>6. Len(g) < Len(h) /\ Len(p) <= Len(g)
  BY <1>1, <1>3, <1>4, <1>5
<1>7. Above(p, g)
  BY <1>4, <1>6 DEF Above
<1>8. ASSUME NEW i \in 1..Len(g) PROVE g[i] = h[i]
  <2>1. CASE i <= Len(p)
    BY <1>3, <1>4, <1>5, <2>1
  <2>2. CASE ~(i <= Len(p))
    <3>1. /\ i \in Len(p) + 1 .. Len(p) + (Len(s) - Len(q)) /\ i \in Len(p) + 1 .. Len(p) + (Len(t) - Len(q))
          /\ i - Len(p) + Len(q) \in 1..Len(s)
      BY <1>1, <1>3, <1>4, <2>2
    <3> QED
      BY <1>3, <1>4, <1>5, <3>1
  <2> QED
    BY <2>1, <2>2
<1>9. Above(g, h)
  BY <1>6, <1>8 DEF Above
<1>10. g # h
  BY <1>6, <1>4, <1>5, <1>3
<1> QED
  BY <1>4, <1>5, <1>7, <1>9, <1>10 DEF g, h

LEMMA FilesMadeKeeps ==
  ASSUME NEW k, FilesConstants(k), FilesShape(k), NEW p, NEW x, FilesMade(k, p, x)
  PROVE  FilesShape(k)'
<1>1. k.place \subseteq Seq(STRING) /\ BaseDir \in k.place /\ p \in k.place
  BY DEF FilesConstants, FilesMade
<1>2. FilesTyped(k)'
  BY DEF FilesShape, FilesTyped, FilesMade
<1>3. FilesTree(k)'
  BY <1>1, AboveOrder DEF FilesShape, FilesTyped, FilesTree, FilesMade
<1>4. FilesOutside(k)'
  BY <1>1 DEF FilesShape, FilesTyped, FilesOutside, FilesMade
<1>5. tree'[BaseDir] = "dir"
  BY <1>1 DEF FilesShape, FilesMade
<1> QED
  BY <1>2, <1>3, <1>4, <1>5 DEF FilesShape

LEMMA FilesRemovedKeeps ==
  ASSUME NEW k, FilesConstants(k), FilesShape(k), NEW p, FilesRemoved(k, p)
  PROVE  FilesShape(k)'
<1>1. k.place \subseteq Seq(STRING) /\ BaseDir \in k.place /\ p \in k.place
  BY DEF FilesConstants, FilesRemoved
<1>2. FilesTyped(k)'
  BY DEF FilesShape, FilesTyped, FilesRemoved
<1>3. FilesTree(k)'
  BY <1>1, AboveOrder DEF FilesShape, FilesTyped, FilesTree, FilesRemoved
<1>4. FilesOutside(k)'
  BY <1>1, AboveOrder DEF FilesShape, FilesTyped, FilesOutside, FilesRemoved
<1>5. tree'[BaseDir] = "dir"
  BY <1>1, AboveOrder DEF FilesShape, FilesRemoved
<1> QED
  BY <1>2, <1>3, <1>4, <1>5 DEF FilesShape

LEMMA FilesMovedKeeps ==
  ASSUME NEW k, FilesConstants(k), FilesShape(k), NEW p, NEW q, FilesMoved(k, p, q)
  PROVE  FilesShape(k)'
<1>1. /\ k.place \subseteq Seq(STRING) /\ BaseDir \in k.place /\ p \in k.place /\ q \in k.place
      /\ Above(BaseDir, p) /\ Above(BaseDir, q) /\ ~Above(p, q) /\ tree[p] # "none"
      /\ \A s \in k.place : \A n \in 0..Len(s) : SubSeq(s, 1, n) \in k.place
  BY DEF FilesConstants, FilesMoved
<1>2. FilesTyped(k)'
  BY DEF FilesShape, FilesTyped, FilesMoved
<1>3. q # BaseDir
  BY DEF FilesShape, FilesMoved
<1>4. ~Above(q, BaseDir) /\ ~Above(p, BaseDir)
  BY <1>1, <1>3, AboveOrder
<1>5. FilesTree(k)'
  <2> SUFFICES ASSUME NEW s \in k.place, NEW t \in k.place, Above(s, t), s # t, tree'[t] # "none"
               PROVE  tree'[s] = "dir"
    BY DEF FilesTree
  <2>1. CASE Above(q, s)
    <3>1. Above(q, t)
      BY <1>1, <2>1, AboveOrder
    <3>2. Grafted(p, q, t) \in k.place /\ tree[Grafted(p, q, t)] # "none"
      BY <3>1 DEF FilesMoved
    <3>3. /\ Grafted(p, q, s) \in Seq(STRING) /\ Grafted(p, q, s) # Grafted(p, q, t)
          /\ Above(Grafted(p, q, s), Grafted(p, q, t))
      BY <1>1, <2>1, GraftedAbove
    <3>4. Grafted(p, q, s) \in k.place
      <4> DEFINE g == Grafted(p, q, s)
                 h == Grafted(p, q, t)
      <4>1. h \in Seq(STRING) /\ Len(g) \in 0..Len(h)
        BY <1>1, <3>2, <3>3 DEF Above
      <4>2. SubSeq(h, 1, Len(g)) \in k.place
        BY <1>1, <3>2, <4>1
      <4>3. g = SubSeq(h, 1, Len(g))
        <5> HIDE DEF g, h
        <5> DEFINE b == SubSeq(h, 1, Len(g))
        <5>1. g \in Seq(STRING) /\ Above(g, h)
          BY <3>3 DEF g, h
        <5>2. Len(g) \in Nat /\ Len(g) <= Len(g)
          BY <5>1
        <5>3. b \in Seq(STRING) /\ Len(b) = Len(g) /\ Above(g, b)
          BY <4>1, <5>1, <5>2, AboveBegins
        <5> HIDE DEF b
        <5>4. g = b
          BY <5>1, <5>3, AboveOrder
        <5> QED
          BY <5>4 DEF b
      <4> QED
        BY <4>2, <4>3
    <3>5. tree[Grafted(p, q, s)] = "dir"
      BY <3>2, <3>3, <3>4 DEF FilesShape, FilesTree
    <3> QED
      BY <2>1, <3>4, <3>5 DEF FilesMoved
  <2>2. CASE ~Above(q, s) /\ Above(q, t)
    <3>1. Above(s, q) /\ s # q /\ Len(s) < Len(q)
      BY <1>1, <2>2, AboveOrder
    <3> DEFINE dir == SubSeq(q, 1, Len(q) - 1)
    <3>2. Len(q) - 1 \in 0..Len(q) /\ Len(s) <= Len(q) - 1
      BY <1>1, <3>1
    <3>3. dir \in k.place /\ tree[dir] = "dir"
      BY DEF FilesMoved
    <3>4. Above(s, dir)
      BY <1>1, <3>1, <3>2, AboveBegins
    <3> HIDE DEF dir
    <3>5. tree[s] = "dir"
      BY <3>3, <3>4 DEF FilesShape, FilesTree
    <3>6. ~Above(p, s)
      BY <1>1, <3>1, AboveOrder
    <3> QED
      BY <2>2, <3>5, <3>6 DEF FilesMoved
  <2>3. CASE ~Above(q, t)
    <3>1. ~Above(q, s) /\ ~Above(p, t)
      BY <1>1, <2>3, AboveOrder DEF FilesMoved
    <3>2. ~Above(p, s)
      BY <1>1, <3>1, AboveOrder
    <3>3. tree[t] # "none"
      BY <2>3, <3>1 DEF FilesMoved
    <3> QED
      BY <2>3, <3>1, <3>2, <3>3 DEF FilesMoved, FilesShape, FilesTree
  <2> QED
    BY <2>1, <2>2, <2>3
<1>6. FilesOutside(k)'
  <2>1. ASSUME NEW s \in k.place, ~Above(BaseDir, s) PROVE tree'[s] = tree[s]
    <3>1. ~Above(q, s) /\ ~Above(p, s)
      BY <1>1, <2>1, AboveOrder
    <3> QED
      BY <3>1 DEF FilesMoved
  <2> QED
    BY <2>1 DEF FilesShape, FilesOutside
<1>7. tree'[BaseDir] = "dir"
  BY <1>1, <1>4 DEF FilesShape, FilesMoved
<1> QED
  BY <1>2, <1>5, <1>6, <1>7 DEF FilesShape

\* A call begins, goes on or ends.
LEMMA FilesGo ==
  ASSUME NEW k, FilesCalls(k), NEW c \in k.client, NEW call, FilesCall(k, call), fOp' = [fOp EXCEPT ![c] = call]
  PROVE  FilesCalls(k)'
<1>1. DOMAIN fOp' = k.client /\ \A d \in k.client : fOp'[d] = IF d = c THEN call ELSE fOp[d]
  BY DEF FilesCalls
<1>2. \A d \in k.client : FilesCall(k, fOp'[d])
  BY <1>1 DEF FilesCalls
<1> QED
  BY <1>1, <1>2 DEF FilesCalls

LEMMA FilesSame ==
  ASSUME NEW k, FilesInv(k), UNCHANGED fileVars PROVE FilesInv(k)'
BY DEF fileVars, FilesInv, FilesShape, FilesTyped, FilesTree, FilesOutside, FilesCalls, FilesUnread

\* Where the tree keeps its shape, no file outside is read and the calls are
\* as they should be, so is the whole.
LEMMA FilesKept ==
  ASSUME NEW k, FilesConstants(k), FilesInv(k), FilesCalls(k)', FilesUnread(k)',
         \/ UNCHANGED tree
         \/ \E p, x : FilesMade(k, p, x)
         \/ \E p : FilesRemoved(k, p)
         \/ \E p, q : FilesMoved(k, p, q)
  PROVE  FilesInv(k)'
<1>1. FilesShape(k)'
  <2>1. ASSUME UNCHANGED tree PROVE FilesShape(k)'
    BY <2>1 DEF FilesInv, FilesShape, FilesTyped, FilesTree, FilesOutside
  <2> QED
    BY <2>1, FilesMadeKeeps, FilesRemovedKeeps, FilesMovedKeeps DEF FilesInv
<1> QED
  BY <1>1 DEF FilesInv

\* Up to the longest common beginning, then down: below the base that is what is
\* left of the path, and elsewhere it begins with a step up.
UpAndDown(s, t) ==
  LET n == Cardinality({i \in 1 .. Len(s) : i <= Len(t) /\ SubSeq(s, 1, i) = SubSeq(t, 1, i)}) IN
    [i \in 1 .. Len(s) - n |-> ".."] \o SubSeq(t, n + 1, Len(t))

LEMMA BeginsAlike ==
  ASSUME NEW s \in Seq(STRING), NEW t \in Seq(STRING), NEW i \in 0..Len(s), i <= Len(t)
  PROVE  SubSeq(s, 1, i) = SubSeq(t, 1, i) <=> \A j \in 1..i : s[j] = t[j]
<1>1. SubSeq(s, 1, i) = [j \in 1..i |-> s[j]] /\ SubSeq(t, 1, i) = [j \in 1..i |-> t[j]]
  BY SubSeqProperties
<1> QED
  BY <1>1

LEMMA UpAndDownBelow ==
  ASSUME NEW s \in Seq(STRING), NEW t \in Seq(STRING)
  PROVE  /\ Above(s, t) => UpAndDown(s, t) = SubSeq(t, Len(s) + 1, Len(t))
         /\ ~Above(s, t) => UpAndDown(s, t) # <<>> /\ Head(UpAndDown(s, t)) = ".."
<1> DEFINE S == {i \in 1 .. Len(s) : i <= Len(t) /\ SubSeq(s, 1, i) = SubSeq(t, 1, i)}
           n == Cardinality(S)
           up == [i \in 1 .. Len(s) - n |-> ".."]
           rest == SubSeq(t, n + 1, Len(t))
<1>1. Len(s) \in Nat /\ Len(t) \in Nat
  OBVIOUS
<1>2. \A i : i \in S <=> i \in 1..Len(s) /\ i <= Len(t) /\ \A j \in 1..i : s[j] = t[j]
  BY <1>1, BeginsAlike
<1>3. \A m \in Nat : IsFiniteSet(1..m) /\ Cardinality(1..m) = m
  BY FS_Interval
<1>4. S \subseteq 1..Len(s) /\ S \subseteq 1..Len(t)
  BY <1>1, <1>2
<1> HIDE DEF S
<1>5. n \in Nat /\ n <= Len(s) /\ n <= Len(t) /\ (n = Len(s) => S = 1..Len(s))
  <2>1. IsFiniteSet(S) /\ n <= Cardinality(1..Len(s)) /\ (Cardinality(1..Len(s)) = n => S = 1..Len(s))
    BY <1>1, <1>3, <1>4, FS_Subset
  <2>2. n <= Cardinality(1..Len(t))
    BY <1>1, <1>3, <1>4, FS_Subset
  <2>3. n \in Nat
    BY <2>1, FS_CardinalityType
  <2> HIDE DEF n
  <2> QED
    BY <1>1, <1>3, <2>1, <2>2, <2>3
<1>6. UpAndDown(s, t) = up \o rest
  BY DEF UpAndDown, S
<1>7. Above(s, t) <=> S = 1..Len(s)
  <2>1. ASSUME Above(s, t), NEW i \in 1..Len(s) PROVE i \in S
    BY <1>1, <1>2, <2>1 DEF Above
  <2>2. ASSUME S = 1..Len(s) PROVE Above(s, t)
    <3>1. CASE Len(s) = 0
      BY <1>1, <3>1 DEF Above
    <3>2. CASE Len(s) # 0
      <4>1. Len(s) \in S
        BY <1>1, <2>2, <3>2
      <4> QED
        BY <1>2, <4>1 DEF Above
    <3> QED
      BY <3>1, <3>2
  <2> QED
    BY <1>4, <2>1, <2>2
<1>8. n = Len(s) <=> S = 1..Len(s)
  BY <1>1, <1>3, <1>5
<1> HIDE DEF n
<1> DEFINE Step == STRING \cup {".."}
<1>9. rest \in Seq(Step) /\ up \in Seq(Step) /\ Len(up) = Len(s) - n /\ \A i \in 1 .. Len(s) - n : up[i] = ".."
  <2>1. rest \in Seq(STRING)
    BY <1>1, <1>5, SubSeqProperties
  <2>2. rest \in Seq(Step)
    BY <2>1, SeqMonotonic
  <2> DEFINE m == Len(s) - n
  <2>3. m \in Nat
    BY <1>1, <1>5
  <2> HIDE DEF m
  <2>4. [i \in 1..m |-> ".."] \in [1..m -> Step]
    OBVIOUS
  <2>5. [i \in 1..m |-> ".."] \in Seq(Step) /\ Len([i \in 1..m |-> ".."]) = m
    BY <2>3, <2>4
  <2> QED
    BY <2>2, <2>5 DEF m
<1> HIDE DEF Step
<1>10. ASSUME Above(s, t) PROVE UpAndDown(s, t) = SubSeq(t, Len(s) + 1, Len(t))
  <2>1. n = Len(s)
    BY <1>7, <1>8, <1>10
  <2>2. rest = SubSeq(t, Len(s) + 1, Len(t))
    BY <2>1
  <2>3. Len(up) = 0
    BY <1>1, <1>9, <2>1
  <2> HIDE DEF up, rest
  <2>4. up = <<>>
    BY <1>9, <2>3, EmptySeq
  <2> QED
    BY <1>6, <1>9, <2>2, <2>4, ConcatEmptySeq
<1>11. ASSUME ~Above(s, t) PROVE UpAndDown(s, t) # <<>> /\ Head(UpAndDown(s, t)) = ".."
  <2>1. n < Len(s)
    BY <1>1, <1>5, <1>7, <1>8, <1>11
  <2>2. up[1] = ".." /\ Len(up) > 0
    <3>1. Len(s) - n > 0 /\ 1 \in 1 .. Len(s) - n
      BY <1>1, <1>5, <2>1
    <3> HIDE DEF up
    <3> QED
      BY <1>9, <3>1
  <2> HIDE DEF up, rest
  <2>3. /\ up \o rest \in Seq(Step) /\ Len(up \o rest) = Len(up) + Len(rest)
        /\ \A i \in 1 .. Len(up) + Len(rest) : (up \o rest)[i] = IF i <= Len(up) THEN up[i] ELSE rest[i - Len(up)]
    BY <1>9, ConcatProperties
  <2>4. Len(up) \in Nat /\ Len(rest) \in Nat
    BY <1>9
  <2>5. (up \o rest)[1] = ".." /\ Len(up \o rest) > 0
    BY <2>2, <2>3, <2>4
  <2>6. up \o rest # <<>> /\ Head(up \o rest) = (up \o rest)[1]
    BY <2>3, <2>5
  <2> QED
    BY <1>6, <2>5, <2>6
<1> QED
  BY <1>10, <1>11

\* What the helpers of FileStore say in terms of Above.
LEMMA FilesOfTwoPaths ==
  ASSUME NEW s \in Seq(STRING), NEW t \in Seq(STRING)
  PROVE  /\ FilesOfTwo!IsPrefix(s, t) <=> Above(s, t)
         /\ FilesOfTwo!IsStrictPrefix(s, t) <=> Above(s, t) /\ s # t
         /\ FilesOfTwo!Front(s) = SubSeq(s, 1, Len(s) - 1)
         /\ FilesOfTwo!Rel(s, t) = UpAndDown(s, t)
         /\ FilesOfTwo!withinBase(s, t) => Above(s, t)
<1>1. FilesOfTwo!IsPrefix(s, t) <=> Above(s, t)
  <2>1. Len(s) \in Nat /\ Len(t) \in Nat
    OBVIOUS
  <2> QED
    BY <2>1, BeginsAlike DEF FilesOfTwo!IsPrefix, Above
<1>2. FilesOfTwo!Rel(s, t) = UpAndDown(s, t)
  <2>1. \A S : FilesOfTwo!Cardinality(S) = Cardinality(S)
    BY DEF FilesOfTwo!Cardinality, Cardinality
  <2> QED
    BY <2>1, Zenon DEF FilesOfTwo!Rel, UpAndDown
<1>3. FilesOfTwo!withinBase(s, t) => Above(s, t)
  BY <1>2, UpAndDownBelow DEF FilesOfTwo!withinBase
<1> QED
  BY <1>1, <1>2, <1>3 DEF FilesOfTwo!IsStrictPrefix, FilesOfTwo!Front

LEMMA FilesOfTwoTarget ==
  ASSUME FilesConstants(TwoFiles), NEW r \in TwoFiles.request, NEW p \in FilesOfTwo!Target[r]
  PROVE  p \in TwoFiles.place /\ Above(BaseDir, p)
<1>1. p \in TwoFiles.place /\ p \in FilesOfTwo!safePath(r)
  BY DEF FilesOfTwo!Target
<1>2. FilesOfTwo!withinBase(BaseDir, p)
  BY <1>1 DEF FilesOfTwo!safePath
<1> QED
  BY <1>1, <1>2, FilesOfTwoPaths DEF FilesConstants

LEMMA FilesOfTwoUnder ==
  ASSUME FilesConstants(TwoFiles), NEW p \in TwoFiles.place
  PROVE  /\ \A q : q \in FilesOfTwo!Under(p) <=> q \in TwoFiles.place /\ Above(p, q)
         /\ \A q : q \in FilesOfTwo!Parents(p) <=> q \in TwoFiles.place /\ Above(q, p) /\ q # p
<1>1. \A s \in TwoFiles.place : \A q : q \in FilesOfTwo!Under(s) <=> q \in TwoFiles.place /\ Above(s, q)
  BY FilesOfTwoPaths DEF FilesConstants, FilesOfTwo!Under, FilesOfTwo!Inside
<1> QED
  BY <1>1 DEF FilesOfTwo!Parents

LEMMA FilesOfTwoMake ==
  ASSUME FilesConstants(TwoFiles), FilesInv(TwoFiles), NEW p \in TwoFiles.place, Above(BaseDir, p),
         NEW x \in {"file", "dir"}, x = "file" => tree[p] # "dir",
         \/ tree' = [FilesOfTwo!WithDirs(tree, p) EXCEPT ![p] = x]
         \/ tree' = FilesOfTwo!WithDirs(tree, p) /\ tree[p] = x
  PROVE  FilesMade(TwoFiles, p, x)
<1> DEFINE Dirs == FilesOfTwo!WithDirs(tree, p)
<1>1. Dirs = [q \in TwoFiles.place |-> IF Above(q, p) /\ q # p THEN "dir" ELSE tree[q]]
  BY FilesOfTwoUnder DEF FilesOfTwo!WithDirs
<1> HIDE DEF Dirs
<1>2. tree' = [Dirs EXCEPT ![p] = x] \/ (tree' = Dirs /\ tree[p] = x)
  BY DEF Dirs
<1>3. tree' = [q \in TwoFiles.place |-> IF q = p THEN x ELSE IF Above(q, p) THEN "dir" ELSE tree[q]]
  BY <1>1, <1>2
<1> QED
  BY <1>3 DEF FilesMade

LEMMA FilesOfTwoInit == ASSUME FilesConstants(TwoFiles), FilesOfTwo!Init PROVE FilesInv(TwoFiles)
<1>1. TwoFiles.place \subseteq Seq(STRING) /\ BaseDir \in TwoFiles.place
  BY DEF FilesConstants
<1>2. tree = [p \in TwoFiles.place |->
                IF Above(p, BaseDir) \/ (~Above(BaseDir, p) /\ \E q \in TwoFiles.place : Above(p, q) /\ p # q)
                THEN "dir" ELSE IF Above(BaseDir, p) THEN "none" ELSE "file"]
  BY <1>1, FilesOfTwoPaths DEF FilesOfTwo!Init
<1>3. FilesTyped(TwoFiles) /\ tree[BaseDir] = "dir"
  BY <1>1, <1>2, AboveOrder DEF FilesTyped
<1>4. FilesTree(TwoFiles)
  BY <1>1, <1>2, AboveOrder DEF FilesTree
<1>5. FilesOutside(TwoFiles)
  BY <1>1, <1>2, AboveOrder DEF FilesOutside
<1>6. FilesCalls(TwoFiles) /\ FilesUnread(TwoFiles)
  BY DEF FilesOfTwo!Init, FilesOfTwo!Idle, FilesCalls, FilesCall, FilesUnread
<1> QED
  BY <1>3, <1>4, <1>5, <1>6 DEF FilesInv, FilesShape

\* A call that begins.
LEMMA FilesOfTwoBegin ==
  ASSUME FilesConstants(TwoFiles), FilesInv(TwoFiles), NEW c \in TwoFiles.client, NEW r \in TwoFiles.request,
         \/ FilesOfTwo!ReadFile(c, r) \/ FilesOfTwo!Search(c, r)
         \/ \E flag \in BOOLEAN :
              FilesOfTwo!WriteFile(c, r, flag) \/ FilesOfTwo!Mkdir(c, r, flag) \/ FilesOfTwo!RemovePath(c, r, flag)
         \/ \E to \in TwoFiles.request :
              FilesOfTwo!Move(c, r, to) \/ \E flag \in BOOLEAN : FilesOfTwo!Copy(c, r, to, flag)
  PROVE  FilesInv(TwoFiles)'
<1>0. FilesCalls(TwoFiles) /\ FilesUnread(TwoFiles) /\ TwoFiles.place \subseteq Seq(STRING) /\ BaseDir \in TwoFiles.place
  BY DEF FilesInv, FilesConstants
<1>a. UNCHANGED fOp => FilesCalls(TwoFiles)'
  BY <1>0 DEF FilesCalls
<1>b. UNCHANGED leaked => FilesUnread(TwoFiles)'
  BY <1>0 DEF FilesUnread
<1>1. CASE FilesOfTwo!ReadFile(c, r) \/ FilesOfTwo!Search(c, r)
  <2>1. PICK p \in FilesOfTwo!Target[r] :
          \/ leaked' = leaked \cup ({p} \ FilesOfTwo!Under(BaseDir))
          \/ leaked' = leaked \cup ({q \in FilesOfTwo!Under(p) : tree[q] = "file"} \ FilesOfTwo!Under(BaseDir))
    BY <1>1 DEF FilesOfTwo!ReadFile, FilesOfTwo!Search
  <2>2. p \in TwoFiles.place /\ Above(BaseDir, p)
    BY FilesOfTwoTarget
  <2>3. \A q \in TwoFiles.place : Above(p, q) => Above(BaseDir, q)
    BY <1>0, <2>2, AboveOrder
  <2>4. leaked' = leaked
    <3>1. p \in FilesOfTwo!Under(BaseDir)
      BY <1>0, <2>2, FilesOfTwoUnder
    <3>2. FilesOfTwo!Under(p) \subseteq FilesOfTwo!Under(BaseDir)
      BY <1>0, <2>2, <2>3, FilesOfTwoUnder
    <3> QED
      BY <2>1, <3>1, <3>2
  <2>5. UNCHANGED <<tree, fOp>>
    BY <1>1 DEF FilesOfTwo!ReadFile, FilesOfTwo!Search
  <2> QED
    BY <1>a, <1>b, <2>4, <2>5, FilesKept
<1>2. CASE \E flag \in BOOLEAN : FilesOfTwo!WriteFile(c, r, flag)
  <2>1. PICK p \in FilesOfTwo!Target[r] : FilesOfTwo!Go(c, [pc |-> "write", at |-> p])
    BY <1>2 DEF FilesOfTwo!WriteFile
  <2>2. FilesCall(TwoFiles, [pc |-> "write", at |-> p])
    BY FilesOfTwoTarget DEF FilesCall
  <2>3. FilesCalls(TwoFiles)'
    BY <1>0, <2>1, <2>2, FilesGo DEF FilesOfTwo!Go
  <2>4. UNCHANGED <<tree, leaked>>
    BY <1>2 DEF FilesOfTwo!WriteFile
  <2> QED
    BY <1>b, <2>3, <2>4, FilesKept
<1>3. CASE \E flag \in BOOLEAN : FilesOfTwo!Mkdir(c, r, flag)
  <2>1. PICK p \in FilesOfTwo!Target[r] : tree' = [FilesOfTwo!WithDirs(tree, p) EXCEPT ![p] = "dir"]
    BY <1>3 DEF FilesOfTwo!Mkdir
  <2>2. FilesMade(TwoFiles, p, "dir")
    BY <2>1, FilesOfTwoTarget, FilesOfTwoMake
  <2>3. UNCHANGED <<fOp, leaked>>
    BY <1>3 DEF FilesOfTwo!Mkdir
  <2> QED
    BY <1>a, <1>b, <2>2, <2>3, FilesKept
<1>4. CASE \E flag \in BOOLEAN : FilesOfTwo!RemovePath(c, r, flag)
  <2>1. PICK p \in FilesOfTwo!Target[r], flag \in BOOLEAN :
          /\ p # BaseDir /\ tree' = [q \in TwoFiles.place |-> IF q \in FilesOfTwo!Under(p) THEN "none" ELSE tree[q]]
          /\ FilesOfTwo!Go(c, [pc |-> "forget", asked |-> r, recursive |-> flag])
    BY <1>4 DEF FilesOfTwo!RemovePath
  <2>2. FilesRemoved(TwoFiles, p)
    BY <2>1, FilesOfTwoTarget, FilesOfTwoUnder DEF FilesRemoved
  <2>3. FilesCall(TwoFiles, [pc |-> "forget", asked |-> r, recursive |-> flag])
    BY DEF FilesCall
  <2>4. FilesCalls(TwoFiles)'
    BY <1>0, <2>1, <2>3, FilesGo DEF FilesOfTwo!Go
  <2>5. UNCHANGED leaked
    BY <1>4 DEF FilesOfTwo!RemovePath
  <2> QED
    BY <1>b, <2>2, <2>4, <2>5, FilesKept
<1>5. CASE \E to \in TwoFiles.request : FilesOfTwo!Move(c, r, to)
  <2>a. PICK to \in TwoFiles.request : FilesOfTwo!Move(c, r, to)
    BY <1>5
  <2>1. PICK p \in FilesOfTwo!Target[r], q \in FilesOfTwo!Target[to] :
          /\ tree[p] # "none" /\ ~FilesOfTwo!IsPrefix(p, q) /\ FilesOfTwo!DirAt(FilesOfTwo!Front(q))
          /\ tree[q] # "dir"
          /\ tree' = [s \in TwoFiles.place |->
                        IF FilesOfTwo!IsPrefix(q, s)
                        THEN LET old == p \o FilesOfTwo!Rel(q, s) IN IF old \in TwoFiles.place THEN tree[old] ELSE "none"
                        ELSE IF FilesOfTwo!IsPrefix(p, s) THEN "none" ELSE tree[s]]
    <3>1. PICK p \in FilesOfTwo!Target[r], q \in FilesOfTwo!Target[to] :
            /\ tree[p] # "none" /\ ~FilesOfTwo!IsPrefix(p, q) /\ FilesOfTwo!DirAt(FilesOfTwo!Front(q))
            /\ tree[q] = "none" \/ (tree[q] = "file" /\ tree[p] = "file")
            /\ tree' = [s \in TwoFiles.place |->
                          IF FilesOfTwo!IsPrefix(q, s)
                          THEN LET old == p \o FilesOfTwo!Rel(q, s) IN IF old \in TwoFiles.place THEN tree[old] ELSE "none"
                          ELSE IF FilesOfTwo!IsPrefix(p, s) THEN "none" ELSE tree[s]]
      BY <2>a, Zenon DEF FilesOfTwo!Move
    <3>2. tree[q] # "dir"
      BY <3>1
    <3> QED
      BY <3>1, <3>2
  <2>2. /\ p \in TwoFiles.place /\ Above(BaseDir, p) /\ q \in TwoFiles.place /\ Above(BaseDir, q)
        /\ p \in Seq(STRING) /\ q \in Seq(STRING)
    BY <1>0, FilesOfTwoTarget
  <2>3. ~Above(p, q)
    BY <2>1, <2>2, FilesOfTwoPaths
  <2>4. SubSeq(q, 1, Len(q) - 1) \in TwoFiles.place /\ tree[SubSeq(q, 1, Len(q) - 1)] = "dir"
    BY <2>1, <2>2, FilesOfTwoPaths DEF FilesOfTwo!DirAt
  <2>5. ASSUME NEW s \in TwoFiles.place
        PROVE  /\ FilesOfTwo!IsPrefix(q, s) <=> Above(q, s)
               /\ FilesOfTwo!IsPrefix(p, s) <=> Above(p, s)
               /\ Above(q, s) => p \o FilesOfTwo!Rel(q, s) = Grafted(p, q, s)
    BY <1>0, <2>2, FilesOfTwoPaths, UpAndDownBelow DEF Grafted
  <2>6. tree' = [s \in TwoFiles.place |->
                IF Above(q, s) THEN IF Grafted(p, q, s) \in TwoFiles.place THEN tree[Grafted(p, q, s)] ELSE "none"
                ELSE IF Above(p, s) THEN "none" ELSE tree[s]]
    BY <2>1, <2>5
  <2>7. FilesMoved(TwoFiles, p, q)
    BY <2>1, <2>2, <2>3, <2>4, <2>6 DEF FilesMoved
  <2>8. UNCHANGED <<fOp, leaked>>
    BY <1>5 DEF FilesOfTwo!Move
  <2> QED
    BY <1>a, <1>b, <2>7, <2>8, FilesKept
<1>6. CASE \E to \in TwoFiles.request, flag \in BOOLEAN : FilesOfTwo!Copy(c, r, to, flag)
  <2>a. PICK to \in TwoFiles.request, flag \in BOOLEAN : FilesOfTwo!Copy(c, r, to, flag)
    BY <1>6
  <2>1. PICK p \in FilesOfTwo!Target[r], q \in FilesOfTwo!Target[to] :
          FilesOfTwo!Go(c, [pc |-> "copy", from |-> p, to |-> q, todo |-> {p}, content |-> FilesOfTwo!Content(p)])
    BY <2>a DEF FilesOfTwo!Copy
  <2> DEFINE call == [pc |-> "copy", from |-> p, to |-> q, todo |-> {p}, content |-> FilesOfTwo!Content(p)]
  <2>2. p \in TwoFiles.place /\ Above(BaseDir, p) /\ q \in TwoFiles.place /\ Above(BaseDir, q) /\ Above(p, p)
    BY <1>0, FilesOfTwoTarget, AboveOrder
  <2>3. FilesCall(TwoFiles, call)
    BY <2>2 DEF FilesCall
  <2>4. FilesCalls(TwoFiles)'
    BY <1>0, <2>1, <2>3, FilesGo DEF FilesOfTwo!Go
  <2>5. UNCHANGED <<tree, leaked>>
    BY <1>6 DEF FilesOfTwo!Copy
  <2> QED
    BY <1>b, <2>4, <2>5, FilesKept
<1> QED
  BY <1>1, <1>2, <1>3, <1>4, <1>5, <1>6

\* A call that goes on or ends.
LEMMA FilesOfTwoGoesOn ==
  ASSUME FilesConstants(TwoFiles), FilesInv(TwoFiles), NEW c \in TwoFiles.client,
         FilesOfTwo!Write(c) \/ FilesOfTwo!Forget(c) \/ FilesOfTwo!Visit(c) \/ FilesOfTwo!Copied(c)
  PROVE  FilesInv(TwoFiles)'
<1>0. FilesCalls(TwoFiles) /\ FilesUnread(TwoFiles) /\ TwoFiles.place \subseteq Seq(STRING) /\ BaseDir \in TwoFiles.place
      /\ FilesCall(TwoFiles, fOp[c])
  BY DEF FilesInv, FilesConstants, FilesCalls
<1>1. FilesUnread(TwoFiles)'
  <2>1. UNCHANGED leaked
    BY DEF FilesOfTwo!Write, FilesOfTwo!Forget, FilesOfTwo!Visit, FilesOfTwo!Copied
  <2> QED
    BY <1>0, <2>1 DEF FilesUnread
<1>2. FilesOfTwo!Go(c, FilesOfTwo!Idle) => FilesCalls(TwoFiles)'
  <2>1. FilesCall(TwoFiles, FilesOfTwo!Idle)
    BY DEF FilesOfTwo!Idle, FilesCall
  <2> QED
    BY <1>0, <2>1, FilesGo DEF FilesOfTwo!Go
<1>3. CASE FilesOfTwo!Forget(c) \/ FilesOfTwo!Copied(c)
  <2>1. UNCHANGED tree /\ FilesOfTwo!Go(c, FilesOfTwo!Idle)
    BY <1>3 DEF FilesOfTwo!Forget, FilesOfTwo!Copied
  <2> QED
    BY <1>1, <1>2, <2>1, FilesKept
<1>4. CASE FilesOfTwo!Write(c)
  <2> DEFINE p == fOp[c].at
  <2>1. p \in TwoFiles.place /\ Above(BaseDir, p) /\ FilesOfTwo!PutFile(p) /\ FilesOfTwo!Go(c, FilesOfTwo!Idle)
    BY <1>0, <1>4 DEF FilesOfTwo!Write, FilesCall
  <2> HIDE DEF p
  <2>2. UNCHANGED tree \/ FilesMade(TwoFiles, p, "file") \/ FilesMade(TwoFiles, p, "dir")
    <3>1. \/ UNCHANGED tree
          \/ tree' = [FilesOfTwo!WithDirs(tree, p) EXCEPT ![p] = "file"] /\ tree[p] # "dir"
          \/ tree' = FilesOfTwo!WithDirs(tree, p) /\ tree[p] = "dir"
      BY <2>1 DEF FilesOfTwo!PutFile, FilesOfTwo!CanMake
    <3> QED
      BY <2>1, <3>1, FilesOfTwoMake
  <2> QED
    BY <1>1, <1>2, <2>1, <2>2, FilesKept
<1>5. CASE FilesOfTwo!Visit(c)
  <2> DEFINE call == fOp[c]
  <2>1. /\ call.pc = "copy" /\ {"pc", "from", "to", "todo"} \subseteq DOMAIN call
        /\ call.from \in TwoFiles.place /\ call.to \in TwoFiles.place
        /\ Above(BaseDir, call.from) /\ Above(BaseDir, call.to)
        /\ \A p \in call.todo : p \in TwoFiles.place /\ Above(call.from, p)
    BY <1>0, <1>5 DEF FilesOfTwo!Visit, FilesCall
  <2>2. PICK p \in call.todo :
          LET target == call.to \o FilesOfTwo!Rel(call.from, p)
              todo == (call.todo \ {p}) \cup FilesOfTwo!Children(p)
          IN IF ~FilesOfTwo!CanMake(target) \/ tree[p] = "none" \/ tree[target] \notin {"none", tree[p]}
             THEN FilesOfTwo!Go(c, FilesOfTwo!Idle) /\ UNCHANGED tree
             ELSE /\ tree' = [FilesOfTwo!WithDirs(tree, target) EXCEPT ![target] = tree[p]]
                  /\ FilesOfTwo!Go(c, [call EXCEPT !.todo = todo, !.pc = IF todo = {} THEN "copied" ELSE "copy"])
    BY <1>5, Zenon DEF FilesOfTwo!Visit
  <2> DEFINE target == call.to \o FilesOfTwo!Rel(call.from, p)
             after == [FilesOfTwo!WithDirs(tree, target) EXCEPT ![target] = tree[p]]
             todo == (call.todo \ {p}) \cup FilesOfTwo!Children(p)
             next == [call EXCEPT !.todo = todo, !.pc = IF todo = {} THEN "copied" ELSE "copy"]
  <2>3. p \in TwoFiles.place /\ Above(call.from, p)
    BY <2>1
  <2>4. CASE FilesOfTwo!Go(c, FilesOfTwo!Idle) /\ UNCHANGED tree
    BY <1>1, <1>2, <2>4, FilesKept
  <2>5. CASE /\ FilesOfTwo!CanMake(target) /\ tree[p] # "none" /\ tree[target] \in {"none", tree[p]}
             /\ tree' = after /\ FilesOfTwo!Go(c, next)
    <3>1. target \in TwoFiles.place /\ Above(BaseDir, target)
      <4>1. /\ call.from \in Seq(STRING) /\ call.to \in Seq(STRING) /\ p \in Seq(STRING) /\ BaseDir \in Seq(STRING)
        BY <1>0, <2>1, <2>3
      <4>2. target = Grafted(call.to, call.from, p)
        BY <2>3, <4>1, FilesOfTwoPaths, UpAndDownBelow DEF Grafted
      <4>3. target \in TwoFiles.place
        BY <2>5 DEF FilesOfTwo!CanMake
      <4>4. Above(call.to, target)
        BY <2>3, <4>1, <4>2, GraftedIs DEF GraftOf
      <4> QED
        BY <1>0, <2>1, <4>1, <4>3, <4>4, AboveOrder
    <3>2. FilesMade(TwoFiles, target, tree[p])
      <4>1. tree[p] \in {"file", "dir"} /\ (tree[p] = "file" => tree[target] # "dir")
        BY <2>3, <2>5 DEF FilesInv, FilesShape, FilesTyped
      <4> HIDE DEF target
      <4> QED
        BY <2>5, <3>1, <4>1, FilesOfTwoMake
    <3>3. \A q \in todo : q \in TwoFiles.place /\ Above(call.from, q)
      <4>1. \A q \in todo : q \in call.todo \/ q \in FilesOfTwo!Under(p)
        BY DEF FilesOfTwo!Children
      <4>2. \A q \in FilesOfTwo!Under(p) : q \in TwoFiles.place /\ Above(p, q)
        BY <2>3, FilesOfTwoUnder
      <4> HIDE DEF todo
      <4> QED
        BY <1>0, <2>1, <2>3, <4>1, <4>2, AboveOrder
    <3> HIDE DEF todo, after, target
    <3>4. FilesCall(TwoFiles, next)
      BY <2>1, <3>3 DEF FilesCall
    <3>5. FilesCalls(TwoFiles)'
      BY <1>0, <2>5, <3>4, FilesGo DEF FilesOfTwo!Go
    <3> QED
      BY <1>1, <3>2, <3>5, FilesKept
  <2> QED
    BY <2>2, <2>4, <2>5
<1> QED
  BY <1>3, <1>4, <1>5

LEMMA FilesOfTwoStep ==
  ASSUME FilesConstants(TwoFiles), FilesInv(TwoFiles), FilesOfTwo!Next PROVE FilesInv(TwoFiles)'
BY FilesOfTwoBegin, FilesOfTwoGoesOn DEF FilesOfTwo!Next

LEMMA FilesOfTwoGives ==
  ASSUME FilesConstants(TwoFiles), FilesInv(TwoFiles) PROVE FilesOfTwo!Confined
<1>1. TwoFiles.place \subseteq Seq(STRING) /\ BaseDir \in TwoFiles.place
  BY DEF FilesConstants
<1>2. \A p \in TwoFiles.place \ FilesOfTwo!Under(BaseDir) :
        p \notin leaked /\ tree[p] = IF \E q \in TwoFiles.place : FilesOfTwo!IsStrictPrefix(p, q) THEN "dir" ELSE "file"
  <2> SUFFICES ASSUME NEW p \in TwoFiles.place \ FilesOfTwo!Under(BaseDir)
               PROVE  p \notin leaked /\ tree[p] = IF \E q \in TwoFiles.place : FilesOfTwo!IsStrictPrefix(p, q) THEN "dir" ELSE "file"
    OBVIOUS
  <2>1. ~Above(BaseDir, p)
    BY <1>1, FilesOfTwoUnder
  <2>2. \A q \in TwoFiles.place : FilesOfTwo!IsStrictPrefix(p, q) <=> Above(p, q) /\ p # q
    BY <1>1, FilesOfTwoPaths
  <2> QED
    BY <2>1, <2>2 DEF FilesInv, FilesShape, FilesOutside, FilesUnread
<1> QED
  BY <1>1, <1>2 DEF FilesOfTwo!Confined, FilesOfTwo!DirAt, FilesInv, FilesShape

\* What the helpers of FileStore say in terms of Above.
LEMMA FilesOfOnePaths ==
  ASSUME NEW s \in Seq(STRING), NEW t \in Seq(STRING)
  PROVE  /\ FilesOfOne!IsPrefix(s, t) <=> Above(s, t)
         /\ FilesOfOne!IsStrictPrefix(s, t) <=> Above(s, t) /\ s # t
         /\ FilesOfOne!Front(s) = SubSeq(s, 1, Len(s) - 1)
         /\ FilesOfOne!Rel(s, t) = UpAndDown(s, t)
         /\ FilesOfOne!withinBase(s, t) => Above(s, t)
<1>1. FilesOfOne!IsPrefix(s, t) <=> Above(s, t)
  <2>1. Len(s) \in Nat /\ Len(t) \in Nat
    OBVIOUS
  <2> QED
    BY <2>1, BeginsAlike DEF FilesOfOne!IsPrefix, Above
<1>2. FilesOfOne!Rel(s, t) = UpAndDown(s, t)
  <2>1. \A S : FilesOfOne!Cardinality(S) = Cardinality(S)
    BY DEF FilesOfOne!Cardinality, Cardinality
  <2> QED
    BY <2>1, Zenon DEF FilesOfOne!Rel, UpAndDown
<1>3. FilesOfOne!withinBase(s, t) => Above(s, t)
  BY <1>2, UpAndDownBelow DEF FilesOfOne!withinBase
<1> QED
  BY <1>1, <1>2, <1>3 DEF FilesOfOne!IsStrictPrefix, FilesOfOne!Front

LEMMA FilesOfOneTarget ==
  ASSUME FilesConstants(OneFiles), NEW r \in OneFiles.request, NEW p \in FilesOfOne!Target[r]
  PROVE  p \in OneFiles.place /\ Above(BaseDir, p)
<1>1. p \in OneFiles.place /\ p \in FilesOfOne!safePath(r)
  BY DEF FilesOfOne!Target
<1>2. FilesOfOne!withinBase(BaseDir, p)
  BY <1>1 DEF FilesOfOne!safePath
<1> QED
  BY <1>1, <1>2, FilesOfOnePaths DEF FilesConstants

LEMMA FilesOfOneUnder ==
  ASSUME FilesConstants(OneFiles), NEW p \in OneFiles.place
  PROVE  /\ \A q : q \in FilesOfOne!Under(p) <=> q \in OneFiles.place /\ Above(p, q)
         /\ \A q : q \in FilesOfOne!Parents(p) <=> q \in OneFiles.place /\ Above(q, p) /\ q # p
<1>1. \A s \in OneFiles.place : \A q : q \in FilesOfOne!Under(s) <=> q \in OneFiles.place /\ Above(s, q)
  BY FilesOfOnePaths DEF FilesConstants, FilesOfOne!Under, FilesOfOne!Inside
<1> QED
  BY <1>1 DEF FilesOfOne!Parents

LEMMA FilesOfOneMake ==
  ASSUME FilesConstants(OneFiles), FilesInv(OneFiles), NEW p \in OneFiles.place, Above(BaseDir, p),
         NEW x \in {"file", "dir"}, x = "file" => tree[p] # "dir",
         \/ tree' = [FilesOfOne!WithDirs(tree, p) EXCEPT ![p] = x]
         \/ tree' = FilesOfOne!WithDirs(tree, p) /\ tree[p] = x
  PROVE  FilesMade(OneFiles, p, x)
<1> DEFINE Dirs == FilesOfOne!WithDirs(tree, p)
<1>1. Dirs = [q \in OneFiles.place |-> IF Above(q, p) /\ q # p THEN "dir" ELSE tree[q]]
  BY FilesOfOneUnder DEF FilesOfOne!WithDirs
<1> HIDE DEF Dirs
<1>2. tree' = [Dirs EXCEPT ![p] = x] \/ (tree' = Dirs /\ tree[p] = x)
  BY DEF Dirs
<1>3. tree' = [q \in OneFiles.place |-> IF q = p THEN x ELSE IF Above(q, p) THEN "dir" ELSE tree[q]]
  BY <1>1, <1>2
<1> QED
  BY <1>3 DEF FilesMade

LEMMA FilesOfOneInit == ASSUME FilesConstants(OneFiles), FilesOfOne!Init PROVE FilesInv(OneFiles)
<1>1. OneFiles.place \subseteq Seq(STRING) /\ BaseDir \in OneFiles.place
  BY DEF FilesConstants
<1>2. tree = [p \in OneFiles.place |->
                IF Above(p, BaseDir) \/ (~Above(BaseDir, p) /\ \E q \in OneFiles.place : Above(p, q) /\ p # q)
                THEN "dir" ELSE IF Above(BaseDir, p) THEN "none" ELSE "file"]
  BY <1>1, FilesOfOnePaths DEF FilesOfOne!Init
<1>3. FilesTyped(OneFiles) /\ tree[BaseDir] = "dir"
  BY <1>1, <1>2, AboveOrder DEF FilesTyped
<1>4. FilesTree(OneFiles)
  BY <1>1, <1>2, AboveOrder DEF FilesTree
<1>5. FilesOutside(OneFiles)
  BY <1>1, <1>2, AboveOrder DEF FilesOutside
<1>6. FilesCalls(OneFiles) /\ FilesUnread(OneFiles)
  BY DEF FilesOfOne!Init, FilesOfOne!Idle, FilesCalls, FilesCall, FilesUnread
<1> QED
  BY <1>3, <1>4, <1>5, <1>6 DEF FilesInv, FilesShape

\* A call that begins.
LEMMA FilesOfOneBegin ==
  ASSUME FilesConstants(OneFiles), FilesInv(OneFiles), NEW c \in OneFiles.client, NEW r \in OneFiles.request,
         \/ FilesOfOne!ReadFile(c, r) \/ FilesOfOne!Search(c, r)
         \/ \E flag \in BOOLEAN :
              FilesOfOne!WriteFile(c, r, flag) \/ FilesOfOne!Mkdir(c, r, flag) \/ FilesOfOne!RemovePath(c, r, flag)
         \/ \E to \in OneFiles.request :
              FilesOfOne!Move(c, r, to) \/ \E flag \in BOOLEAN : FilesOfOne!Copy(c, r, to, flag)
  PROVE  FilesInv(OneFiles)'
<1>0. FilesCalls(OneFiles) /\ FilesUnread(OneFiles) /\ OneFiles.place \subseteq Seq(STRING) /\ BaseDir \in OneFiles.place
  BY DEF FilesInv, FilesConstants
<1>a. UNCHANGED fOp => FilesCalls(OneFiles)'
  BY <1>0 DEF FilesCalls
<1>b. UNCHANGED leaked => FilesUnread(OneFiles)'
  BY <1>0 DEF FilesUnread
<1>1. CASE FilesOfOne!ReadFile(c, r) \/ FilesOfOne!Search(c, r)
  <2>1. PICK p \in FilesOfOne!Target[r] :
          \/ leaked' = leaked \cup ({p} \ FilesOfOne!Under(BaseDir))
          \/ leaked' = leaked \cup ({q \in FilesOfOne!Under(p) : tree[q] = "file"} \ FilesOfOne!Under(BaseDir))
    BY <1>1 DEF FilesOfOne!ReadFile, FilesOfOne!Search
  <2>2. p \in OneFiles.place /\ Above(BaseDir, p)
    BY FilesOfOneTarget
  <2>3. \A q \in OneFiles.place : Above(p, q) => Above(BaseDir, q)
    BY <1>0, <2>2, AboveOrder
  <2>4. leaked' = leaked
    <3>1. p \in FilesOfOne!Under(BaseDir)
      BY <1>0, <2>2, FilesOfOneUnder
    <3>2. FilesOfOne!Under(p) \subseteq FilesOfOne!Under(BaseDir)
      BY <1>0, <2>2, <2>3, FilesOfOneUnder
    <3> QED
      BY <2>1, <3>1, <3>2
  <2>5. UNCHANGED <<tree, fOp>>
    BY <1>1 DEF FilesOfOne!ReadFile, FilesOfOne!Search
  <2> QED
    BY <1>a, <1>b, <2>4, <2>5, FilesKept
<1>2. CASE \E flag \in BOOLEAN : FilesOfOne!WriteFile(c, r, flag)
  <2>1. PICK p \in FilesOfOne!Target[r] : FilesOfOne!Go(c, [pc |-> "write", at |-> p])
    BY <1>2 DEF FilesOfOne!WriteFile
  <2>2. FilesCall(OneFiles, [pc |-> "write", at |-> p])
    BY FilesOfOneTarget DEF FilesCall
  <2>3. FilesCalls(OneFiles)'
    BY <1>0, <2>1, <2>2, FilesGo DEF FilesOfOne!Go
  <2>4. UNCHANGED <<tree, leaked>>
    BY <1>2 DEF FilesOfOne!WriteFile
  <2> QED
    BY <1>b, <2>3, <2>4, FilesKept
<1>3. CASE \E flag \in BOOLEAN : FilesOfOne!Mkdir(c, r, flag)
  <2>1. PICK p \in FilesOfOne!Target[r] : tree' = [FilesOfOne!WithDirs(tree, p) EXCEPT ![p] = "dir"]
    BY <1>3 DEF FilesOfOne!Mkdir
  <2>2. FilesMade(OneFiles, p, "dir")
    BY <2>1, FilesOfOneTarget, FilesOfOneMake
  <2>3. UNCHANGED <<fOp, leaked>>
    BY <1>3 DEF FilesOfOne!Mkdir
  <2> QED
    BY <1>a, <1>b, <2>2, <2>3, FilesKept
<1>4. CASE \E flag \in BOOLEAN : FilesOfOne!RemovePath(c, r, flag)
  <2>1. PICK p \in FilesOfOne!Target[r], flag \in BOOLEAN :
          /\ p # BaseDir /\ tree' = [q \in OneFiles.place |-> IF q \in FilesOfOne!Under(p) THEN "none" ELSE tree[q]]
          /\ FilesOfOne!Go(c, [pc |-> "forget", asked |-> r, recursive |-> flag])
    BY <1>4 DEF FilesOfOne!RemovePath
  <2>2. FilesRemoved(OneFiles, p)
    BY <2>1, FilesOfOneTarget, FilesOfOneUnder DEF FilesRemoved
  <2>3. FilesCall(OneFiles, [pc |-> "forget", asked |-> r, recursive |-> flag])
    BY DEF FilesCall
  <2>4. FilesCalls(OneFiles)'
    BY <1>0, <2>1, <2>3, FilesGo DEF FilesOfOne!Go
  <2>5. UNCHANGED leaked
    BY <1>4 DEF FilesOfOne!RemovePath
  <2> QED
    BY <1>b, <2>2, <2>4, <2>5, FilesKept
<1>5. CASE \E to \in OneFiles.request : FilesOfOne!Move(c, r, to)
  <2>a. PICK to \in OneFiles.request : FilesOfOne!Move(c, r, to)
    BY <1>5
  <2>1. PICK p \in FilesOfOne!Target[r], q \in FilesOfOne!Target[to] :
          /\ tree[p] # "none" /\ ~FilesOfOne!IsPrefix(p, q) /\ FilesOfOne!DirAt(FilesOfOne!Front(q))
          /\ tree[q] # "dir"
          /\ tree' = [s \in OneFiles.place |->
                        IF FilesOfOne!IsPrefix(q, s)
                        THEN LET old == p \o FilesOfOne!Rel(q, s) IN IF old \in OneFiles.place THEN tree[old] ELSE "none"
                        ELSE IF FilesOfOne!IsPrefix(p, s) THEN "none" ELSE tree[s]]
    <3>1. PICK p \in FilesOfOne!Target[r], q \in FilesOfOne!Target[to] :
            /\ tree[p] # "none" /\ ~FilesOfOne!IsPrefix(p, q) /\ FilesOfOne!DirAt(FilesOfOne!Front(q))
            /\ tree[q] = "none" \/ (tree[q] = "file" /\ tree[p] = "file")
            /\ tree' = [s \in OneFiles.place |->
                          IF FilesOfOne!IsPrefix(q, s)
                          THEN LET old == p \o FilesOfOne!Rel(q, s) IN IF old \in OneFiles.place THEN tree[old] ELSE "none"
                          ELSE IF FilesOfOne!IsPrefix(p, s) THEN "none" ELSE tree[s]]
      BY <2>a, Zenon DEF FilesOfOne!Move
    <3>2. tree[q] # "dir"
      BY <3>1
    <3> QED
      BY <3>1, <3>2
  <2>2. /\ p \in OneFiles.place /\ Above(BaseDir, p) /\ q \in OneFiles.place /\ Above(BaseDir, q)
        /\ p \in Seq(STRING) /\ q \in Seq(STRING)
    BY <1>0, FilesOfOneTarget
  <2>3. ~Above(p, q)
    BY <2>1, <2>2, FilesOfOnePaths
  <2>4. SubSeq(q, 1, Len(q) - 1) \in OneFiles.place /\ tree[SubSeq(q, 1, Len(q) - 1)] = "dir"
    BY <2>1, <2>2, FilesOfOnePaths DEF FilesOfOne!DirAt
  <2>5. ASSUME NEW s \in OneFiles.place
        PROVE  /\ FilesOfOne!IsPrefix(q, s) <=> Above(q, s)
               /\ FilesOfOne!IsPrefix(p, s) <=> Above(p, s)
               /\ Above(q, s) => p \o FilesOfOne!Rel(q, s) = Grafted(p, q, s)
    BY <1>0, <2>2, FilesOfOnePaths, UpAndDownBelow DEF Grafted
  <2>6. tree' = [s \in OneFiles.place |->
                IF Above(q, s) THEN IF Grafted(p, q, s) \in OneFiles.place THEN tree[Grafted(p, q, s)] ELSE "none"
                ELSE IF Above(p, s) THEN "none" ELSE tree[s]]
    BY <2>1, <2>5
  <2>7. FilesMoved(OneFiles, p, q)
    BY <2>1, <2>2, <2>3, <2>4, <2>6 DEF FilesMoved
  <2>8. UNCHANGED <<fOp, leaked>>
    BY <1>5 DEF FilesOfOne!Move
  <2> QED
    BY <1>a, <1>b, <2>7, <2>8, FilesKept
<1>6. CASE \E to \in OneFiles.request, flag \in BOOLEAN : FilesOfOne!Copy(c, r, to, flag)
  <2>a. PICK to \in OneFiles.request, flag \in BOOLEAN : FilesOfOne!Copy(c, r, to, flag)
    BY <1>6
  <2>1. PICK p \in FilesOfOne!Target[r], q \in FilesOfOne!Target[to] :
          FilesOfOne!Go(c, [pc |-> "copy", from |-> p, to |-> q, todo |-> {p}, content |-> FilesOfOne!Content(p)])
    BY <2>a DEF FilesOfOne!Copy
  <2> DEFINE call == [pc |-> "copy", from |-> p, to |-> q, todo |-> {p}, content |-> FilesOfOne!Content(p)]
  <2>2. p \in OneFiles.place /\ Above(BaseDir, p) /\ q \in OneFiles.place /\ Above(BaseDir, q) /\ Above(p, p)
    BY <1>0, FilesOfOneTarget, AboveOrder
  <2>3. FilesCall(OneFiles, call)
    BY <2>2 DEF FilesCall
  <2>4. FilesCalls(OneFiles)'
    BY <1>0, <2>1, <2>3, FilesGo DEF FilesOfOne!Go
  <2>5. UNCHANGED <<tree, leaked>>
    BY <1>6 DEF FilesOfOne!Copy
  <2> QED
    BY <1>b, <2>4, <2>5, FilesKept
<1> QED
  BY <1>1, <1>2, <1>3, <1>4, <1>5, <1>6

\* A call that goes on or ends.
LEMMA FilesOfOneGoesOn ==
  ASSUME FilesConstants(OneFiles), FilesInv(OneFiles), NEW c \in OneFiles.client,
         FilesOfOne!Write(c) \/ FilesOfOne!Forget(c) \/ FilesOfOne!Visit(c) \/ FilesOfOne!Copied(c)
  PROVE  FilesInv(OneFiles)'
<1>0. FilesCalls(OneFiles) /\ FilesUnread(OneFiles) /\ OneFiles.place \subseteq Seq(STRING) /\ BaseDir \in OneFiles.place
      /\ FilesCall(OneFiles, fOp[c])
  BY DEF FilesInv, FilesConstants, FilesCalls
<1>1. FilesUnread(OneFiles)'
  <2>1. UNCHANGED leaked
    BY DEF FilesOfOne!Write, FilesOfOne!Forget, FilesOfOne!Visit, FilesOfOne!Copied
  <2> QED
    BY <1>0, <2>1 DEF FilesUnread
<1>2. FilesOfOne!Go(c, FilesOfOne!Idle) => FilesCalls(OneFiles)'
  <2>1. FilesCall(OneFiles, FilesOfOne!Idle)
    BY DEF FilesOfOne!Idle, FilesCall
  <2> QED
    BY <1>0, <2>1, FilesGo DEF FilesOfOne!Go
<1>3. CASE FilesOfOne!Forget(c) \/ FilesOfOne!Copied(c)
  <2>1. UNCHANGED tree /\ FilesOfOne!Go(c, FilesOfOne!Idle)
    BY <1>3 DEF FilesOfOne!Forget, FilesOfOne!Copied
  <2> QED
    BY <1>1, <1>2, <2>1, FilesKept
<1>4. CASE FilesOfOne!Write(c)
  <2> DEFINE p == fOp[c].at
  <2>1. p \in OneFiles.place /\ Above(BaseDir, p) /\ FilesOfOne!PutFile(p) /\ FilesOfOne!Go(c, FilesOfOne!Idle)
    BY <1>0, <1>4 DEF FilesOfOne!Write, FilesCall
  <2> HIDE DEF p
  <2>2. UNCHANGED tree \/ FilesMade(OneFiles, p, "file") \/ FilesMade(OneFiles, p, "dir")
    <3>1. \/ UNCHANGED tree
          \/ tree' = [FilesOfOne!WithDirs(tree, p) EXCEPT ![p] = "file"] /\ tree[p] # "dir"
          \/ tree' = FilesOfOne!WithDirs(tree, p) /\ tree[p] = "dir"
      BY <2>1 DEF FilesOfOne!PutFile, FilesOfOne!CanMake
    <3> QED
      BY <2>1, <3>1, FilesOfOneMake
  <2> QED
    BY <1>1, <1>2, <2>1, <2>2, FilesKept
<1>5. CASE FilesOfOne!Visit(c)
  <2> DEFINE call == fOp[c]
  <2>1. /\ call.pc = "copy" /\ {"pc", "from", "to", "todo"} \subseteq DOMAIN call
        /\ call.from \in OneFiles.place /\ call.to \in OneFiles.place
        /\ Above(BaseDir, call.from) /\ Above(BaseDir, call.to)
        /\ \A p \in call.todo : p \in OneFiles.place /\ Above(call.from, p)
    BY <1>0, <1>5 DEF FilesOfOne!Visit, FilesCall
  <2>2. PICK p \in call.todo :
          LET target == call.to \o FilesOfOne!Rel(call.from, p)
              todo == (call.todo \ {p}) \cup FilesOfOne!Children(p)
          IN IF ~FilesOfOne!CanMake(target) \/ tree[p] = "none" \/ tree[target] \notin {"none", tree[p]}
             THEN FilesOfOne!Go(c, FilesOfOne!Idle) /\ UNCHANGED tree
             ELSE /\ tree' = [FilesOfOne!WithDirs(tree, target) EXCEPT ![target] = tree[p]]
                  /\ FilesOfOne!Go(c, [call EXCEPT !.todo = todo, !.pc = IF todo = {} THEN "copied" ELSE "copy"])
    BY <1>5, Zenon DEF FilesOfOne!Visit
  <2> DEFINE target == call.to \o FilesOfOne!Rel(call.from, p)
             after == [FilesOfOne!WithDirs(tree, target) EXCEPT ![target] = tree[p]]
             todo == (call.todo \ {p}) \cup FilesOfOne!Children(p)
             next == [call EXCEPT !.todo = todo, !.pc = IF todo = {} THEN "copied" ELSE "copy"]
  <2>3. p \in OneFiles.place /\ Above(call.from, p)
    BY <2>1
  <2>4. CASE FilesOfOne!Go(c, FilesOfOne!Idle) /\ UNCHANGED tree
    BY <1>1, <1>2, <2>4, FilesKept
  <2>5. CASE /\ FilesOfOne!CanMake(target) /\ tree[p] # "none" /\ tree[target] \in {"none", tree[p]}
             /\ tree' = after /\ FilesOfOne!Go(c, next)
    <3>1. target \in OneFiles.place /\ Above(BaseDir, target)
      <4>1. /\ call.from \in Seq(STRING) /\ call.to \in Seq(STRING) /\ p \in Seq(STRING) /\ BaseDir \in Seq(STRING)
        BY <1>0, <2>1, <2>3
      <4>2. target = Grafted(call.to, call.from, p)
        BY <2>3, <4>1, FilesOfOnePaths, UpAndDownBelow DEF Grafted
      <4>3. target \in OneFiles.place
        BY <2>5 DEF FilesOfOne!CanMake
      <4>4. Above(call.to, target)
        BY <2>3, <4>1, <4>2, GraftedIs DEF GraftOf
      <4> QED
        BY <1>0, <2>1, <4>1, <4>3, <4>4, AboveOrder
    <3>2. FilesMade(OneFiles, target, tree[p])
      <4>1. tree[p] \in {"file", "dir"} /\ (tree[p] = "file" => tree[target] # "dir")
        BY <2>3, <2>5 DEF FilesInv, FilesShape, FilesTyped
      <4> HIDE DEF target
      <4> QED
        BY <2>5, <3>1, <4>1, FilesOfOneMake
    <3>3. \A q \in todo : q \in OneFiles.place /\ Above(call.from, q)
      <4>1. \A q \in todo : q \in call.todo \/ q \in FilesOfOne!Under(p)
        BY DEF FilesOfOne!Children
      <4>2. \A q \in FilesOfOne!Under(p) : q \in OneFiles.place /\ Above(p, q)
        BY <2>3, FilesOfOneUnder
      <4> HIDE DEF todo
      <4> QED
        BY <1>0, <2>1, <2>3, <4>1, <4>2, AboveOrder
    <3> HIDE DEF todo, after, target
    <3>4. FilesCall(OneFiles, next)
      BY <2>1, <3>3 DEF FilesCall
    <3>5. FilesCalls(OneFiles)'
      BY <1>0, <2>5, <3>4, FilesGo DEF FilesOfOne!Go
    <3> QED
      BY <1>1, <3>2, <3>5, FilesKept
  <2> QED
    BY <2>2, <2>4, <2>5
<1> QED
  BY <1>3, <1>4, <1>5

LEMMA FilesOfOneStep ==
  ASSUME FilesConstants(OneFiles), FilesInv(OneFiles), FilesOfOne!Next PROVE FilesInv(OneFiles)'
BY FilesOfOneBegin, FilesOfOneGoesOn DEF FilesOfOne!Next

LEMMA FilesOfOneGives ==
  ASSUME FilesConstants(OneFiles), FilesInv(OneFiles) PROVE FilesOfOne!Confined
<1>1. OneFiles.place \subseteq Seq(STRING) /\ BaseDir \in OneFiles.place
  BY DEF FilesConstants
<1>2. \A p \in OneFiles.place \ FilesOfOne!Under(BaseDir) :
        p \notin leaked /\ tree[p] = IF \E q \in OneFiles.place : FilesOfOne!IsStrictPrefix(p, q) THEN "dir" ELSE "file"
  <2> SUFFICES ASSUME NEW p \in OneFiles.place \ FilesOfOne!Under(BaseDir)
               PROVE  p \notin leaked /\ tree[p] = IF \E q \in OneFiles.place : FilesOfOne!IsStrictPrefix(p, q) THEN "dir" ELSE "file"
    OBVIOUS
  <2>1. ~Above(BaseDir, p)
    BY <1>1, FilesOfOneUnder
  <2>2. \A q \in OneFiles.place : FilesOfOne!IsStrictPrefix(p, q) <=> Above(p, q) /\ p # q
    BY <1>1, FilesOfOnePaths
  <2> QED
    BY <2>1, <2>2 DEF FilesInv, FilesShape, FilesOutside, FilesUnread
<1> QED
  BY <1>1, <1>2 DEF FilesOfOne!Confined, FilesOfOne!DirAt, FilesInv, FilesShape

-----------------------------------------------------------------------------
(* AlertMonitor: an alert that nobody has resolved is known to be raised;    *)
(* of a type that was not opened again there is one; and what the stored     *)
(* status breaches is raised, or the report that stored it is on its way.    *)
AlertsOfTwo == INSTANCE AlertMonitor WITH now <- mNow, status <- mStatus, rules <- mRules, op <- mOp,
           Status <- Reported, Rule <- TwoAlerts.rule, Client <- TwoAlerts.client, MaxAlerts <- TwoAlerts.alerts,
           MaxRecords <- TwoAlerts.records, MaxTime <- TwoAlerts.time
AlertsOfOne == INSTANCE AlertMonitor WITH now <- mNow, status <- mStatus, rules <- mRules, op <- mOp,
           Status <- Reported, Rule <- OneAlerts.rule, Client <- OneAlerts.client, MaxAlerts <- OneAlerts.alerts,
           MaxRecords <- OneAlerts.records, MaxTime <- OneAlerts.time

AlertsConstants(k) ==
  /\ IsFiniteSet(k.rule)
  /\ \A r \in k.rule : r.type \in {"cpu_high", "inactive", "task_failed"} /\ r.threshold \in Int
ASSUME AlertsAssumption ==
  AlertsConstants(TwoAlerts) /\ AlertsConstants(OneAlerts) /\ \A st \in Reported : st.age \in Int

AlertsOf(k) ==
  [type : {r.type : r \in k.rule}, threshold : {r.threshold : r \in k.rule},
   status : {"firing", "acknowledged", "resolved"},
   ackBy : Operator \cup {""}, resolvedBy : Operator \cup {""}, count : Nat]
AlertsTyped(k) ==
  /\ mRules \subseteq k.rule /\ alerts \in Seq(AlertsOf(k)) /\ stored = alerts
  /\ DOMAIN mOp = k.client
  /\ \A c \in k.client : mOp[c].pc = "refresh" => {"pc", "status"} \subseteq DOMAIN mOp[c] /\ mOp[c].status.seen \in Int
  /\ \A s, t \in mStatus : s = t
  /\ \A s \in mStatus : s.seen \in Int
  /\ mNow \in Int /\ DOMAIN asof = k.rule /\ \A r \in k.rule : asof[r] \in Int /\ asof[r] <= mNow
AlertsKnown == \A i \in DOMAIN alerts : alerts[i].status # "resolved" => alerts[i].type \in raised
AlertsSingle ==
  \A i, j \in DOMAIN alerts :
    /\ alerts[i].status # "resolved" /\ alerts[j].status # "resolved"
    /\ alerts[i].type = alerts[j].type /\ alerts[i].type \notin reopened
    => i = j
Breach(rule, st, time) ==
  CASE rule.type = "cpu_high" -> st.cpu >= rule.threshold
    [] rule.type = "inactive" -> time - st.seen >= rule.threshold
    [] rule.type = "task_failed" -> st.failed
AlertsDue(k) ==
  \A rule \in mRules, st \in mStatus : Breach(rule, st, asof[rule]) =>
    rule.type \in raised \/ \E c \in k.client : mOp[c].pc = "evaluate" /\ mOp[c].status = st
AlertsInv(k) == AlertsTyped(k) /\ AlertsKnown /\ AlertsSingle /\ AlertsDue(k)

\* A rule that was breached stays breached as time passes: silence only grows.
LEMMA BreachStays ==
  ASSUME NEW k, AlertsConstants(k), NEW r \in k.rule, NEW st, st.seen \in Int,
         NEW s \in Int, NEW t \in Int, s <= t, Breach(r, st, s)
  PROVE  Breach(r, st, t)
<1>1. r.type \in {"cpu_high", "inactive", "task_failed"} /\ r.threshold \in Int
  BY DEF AlertsConstants
<1>2. CASE r.type = "cpu_high"
  BY <1>2 DEF Breach
<1>3. CASE r.type = "inactive"
  <2>1. s - st.seen >= r.threshold
    BY <1>3 DEF Breach
  <2>2. t - st.seen >= r.threshold
    BY <1>1, <2>1
  <2> QED
    BY <1>3, <2>2 DEF Breach
<1>4. CASE r.type = "task_failed"
  BY <1>4 DEF Breach
<1> QED
  BY <1>1, <1>2, <1>3, <1>4

\* What an evaluation does: one alert more of each type that is due.
AlertsRaised(k, ruleSet, st) ==
  \E types, new :
    /\ new \in Seq(AlertsOf(k))
    /\ \A i \in DOMAIN new : new[i].status = "firing" /\ new[i].type \in types
    /\ \A i, j \in DOMAIN new : new[i].type = new[j].type => i = j
    /\ \A i \in DOMAIN alerts : alerts[i].type \in types => alerts[i].status = "resolved"
    /\ \A r \in ruleSet : Breach(r, st, mNow) =>
         r.type \in types \/ \E i \in DOMAIN alerts : alerts[i].type = r.type /\ alerts[i].status # "resolved"
    /\ alerts' = alerts \o new /\ stored' = stored \o new /\ raised' = raised \cup types

LEMMA AlertsRaisedKeeps ==
  ASSUME NEW k, AlertsTyped(k), AlertsKnown, AlertsSingle, NEW ruleSet, NEW st,
         AlertsRaised(k, ruleSet, st), reopened' = reopened
  PROVE  /\ alerts' \in Seq(AlertsOf(k)) /\ stored' = alerts' /\ raised \subseteq raised'
         /\ AlertsKnown' /\ AlertsSingle'
         /\ \A r \in ruleSet : Breach(r, st, mNow) => r.type \in raised'
<1>1. PICK types, new :
        /\ new \in Seq(AlertsOf(k))
        /\ \A i \in DOMAIN new : new[i].status = "firing" /\ new[i].type \in types
        /\ \A i, j \in DOMAIN new : new[i].type = new[j].type => i = j
        /\ \A i \in DOMAIN alerts : alerts[i].type \in types => alerts[i].status = "resolved"
        /\ \A r \in ruleSet : Breach(r, st, mNow) =>
             r.type \in types \/ \E i \in DOMAIN alerts : alerts[i].type = r.type /\ alerts[i].status # "resolved"
        /\ alerts' = alerts \o new /\ stored' = stored \o new /\ raised' = raised \cup types
  BY DEF AlertsRaised
<1> HIDE DEF AlertsOf
<1>2. alerts \in Seq(AlertsOf(k)) /\ stored = alerts
  BY DEF AlertsTyped
<1>3. alerts' \in Seq(AlertsOf(k)) /\ stored' = alerts' /\ raised \subseteq raised'
  BY <1>1, <1>2
<1>4. /\ Len(alerts) \in Nat /\ Len(new) \in Nat
      /\ DOMAIN alerts = 1..Len(alerts) /\ DOMAIN new = 1..Len(new)
      /\ DOMAIN alerts' = 1..(Len(alerts) + Len(new))
      /\ \A i \in 1..Len(alerts) : alerts'[i] = alerts[i]
      /\ \A i \in (Len(alerts) + 1)..(Len(alerts) + Len(new)) : alerts'[i] = new[i - Len(alerts)]
  BY <1>1, <1>2
<1>5. \A i \in DOMAIN alerts' :
        \/ i \in DOMAIN alerts /\ alerts'[i] = alerts[i]
        \/ i \notin DOMAIN alerts /\ i - Len(alerts) \in DOMAIN new /\ alerts'[i] = new[i - Len(alerts)]
  BY <1>4
<1>6. AlertsKnown'
  BY <1>1, <1>5 DEF AlertsKnown
<1>7. ASSUME NEW i \in DOMAIN alerts', NEW j \in DOMAIN alerts',
             alerts'[i].status # "resolved", alerts'[j].status # "resolved",
             alerts'[i].type = alerts'[j].type, alerts'[i].type \notin reopened
      PROVE  i = j
  <2>1. CASE i \in DOMAIN alerts /\ j \in DOMAIN alerts
    BY <1>5, <1>7, <2>1 DEF AlertsSingle
  <2>2. CASE i \in DOMAIN alerts /\ j \notin DOMAIN alerts
    BY <1>1, <1>5, <1>7, <2>2
  <2>3. CASE i \notin DOMAIN alerts /\ j \in DOMAIN alerts
    BY <1>1, <1>5, <1>7, <2>3
  <2>4. CASE i \notin DOMAIN alerts /\ j \notin DOMAIN alerts
    <3>1. i - Len(alerts) = j - Len(alerts)
      BY <1>1, <1>5, <1>7, <2>4
    <3> QED
      BY <1>4, <3>1
  <2> QED
    BY <2>1, <2>2, <2>3, <2>4
<1>8. AlertsSingle'
  BY <1>7 DEF AlertsSingle
<1>9. \A r \in ruleSet : Breach(r, st, mNow) => r.type \in raised'
  BY <1>1 DEF AlertsKnown
<1> QED
  BY <1>3, <1>6, <1>8, <1>9

\* An alert that is worked off: what opens it again is known.
LEMMA AlertsChangedKeeps ==
  ASSUME NEW k, AlertsInv(k), NEW i \in DOMAIN alerts, NEW a \in AlertsOf(k), a.type = alerts[i].type,
         alerts' = [alerts EXCEPT ![i] = a], stored' = [stored EXCEPT ![i] = alerts'[i]],
         UNCHANGED <<mNow, mStatus, mRules, mOp, asof>>, raised \subseteq raised', reopened \subseteq reopened',
         alerts[i].status = "resolved" /\ a.status # "resolved" => a.type \in raised' /\ a.type \in reopened'
  PROVE  AlertsInv(k)'
<1> HIDE DEF AlertsOf
<1>1. AlertsTyped(k)'
  <2>1. alerts \in Seq(AlertsOf(k)) /\ stored = alerts
    BY DEF AlertsInv, AlertsTyped
  <2>2. alerts' \in Seq(AlertsOf(k)) /\ alerts'[i] = a /\ stored' = alerts'
    BY <2>1
  <2>3. AlertsOf(k)' = AlertsOf(k)
    BY DEF AlertsOf
  <2> QED
    BY <2>2, <2>3 DEF AlertsInv, AlertsTyped
<1>2. /\ DOMAIN alerts' = DOMAIN alerts
      /\ \A j \in DOMAIN alerts : alerts'[j].type = alerts[j].type /\ (j # i => alerts'[j] = alerts[j])
      /\ alerts'[i] = a
  BY DEF AlertsInv, AlertsTyped
<1>3. AlertsKnown'
  BY <1>2 DEF AlertsInv, AlertsKnown
<1>4. AlertsSingle'
  <2> SUFFICES ASSUME NEW m \in DOMAIN alerts', NEW n \in DOMAIN alerts',
                      alerts'[m].status # "resolved", alerts'[n].status # "resolved",
                      alerts'[m].type = alerts'[n].type, alerts'[m].type \notin reopened'
               PROVE  m = n
    BY DEF AlertsSingle
  <2>1. alerts[m].status # "resolved" /\ alerts[n].status # "resolved"
    BY <1>2
  <2> QED
    BY <1>2, <2>1 DEF AlertsInv, AlertsSingle
<1>5. AlertsDue(k)'
  BY DEF AlertsInv, AlertsDue
<1> QED
  BY <1>1, <1>3, <1>4, <1>5 DEF AlertsInv

\* A call that goes on or ends, and changes no alert: the report that stores a
\* status has it evaluated.
LEMMA AlertsCallKeeps ==
  ASSUME NEW k, AlertsInv(k), NEW c \in k.client, NEW call, mOp' = [mOp EXCEPT ![c] = call],
         call.pc = "refresh" => {"pc", "status"} \subseteq DOMAIN call /\ call.status.seen \in Int,
         UNCHANGED <<mNow, mRules, alerts, stored, reopened>>,
         \/ UNCHANGED <<mStatus, raised, asof>> /\ mOp[c].pc # "evaluate"
         \/ /\ call.pc = "evaluate" /\ mStatus' = {call.status} /\ call.status.seen \in Int
            /\ asof' = [r \in k.rule |-> mNow]
            /\ raised' = {t \in {r.type : r \in k.rule} :
                            \E i \in DOMAIN alerts : alerts[i].type = t /\ alerts[i].status # "resolved"}
  PROVE  AlertsInv(k)'
<1>1. DOMAIN mOp' = k.client /\ \A d \in k.client : mOp'[d] = IF d = c THEN call ELSE mOp[d]
  BY DEF AlertsInv, AlertsTyped
<1> HIDE DEF AlertsOf
<1>2. AlertsTyped(k)'
  <2>1. AlertsOf(k)' = AlertsOf(k)
    BY DEF AlertsOf
  <2> QED
    BY <1>1, <2>1 DEF AlertsInv, AlertsTyped
<1>3. AlertsKnown'
  <2>1. \A i \in DOMAIN alerts : alerts[i].type \in {r.type : r \in k.rule}
    <3>1. \A i \in DOMAIN alerts : alerts[i] \in AlertsOf(k)
      BY DEF AlertsInv, AlertsTyped
    <3>2. \A a \in AlertsOf(k) : a.type \in {r.type : r \in k.rule}
      BY DEF AlertsOf
    <3> QED
      BY <3>1, <3>2
  <2> QED
    BY <2>1 DEF AlertsInv, AlertsKnown
<1>4. AlertsSingle'
  BY DEF AlertsInv, AlertsSingle
<1>5. AlertsDue(k)'
  BY <1>1 DEF AlertsInv, AlertsDue
<1> QED
  BY <1>2, <1>3, <1>4, <1>5 DEF AlertsInv

LEMMA AlertsSame == ASSUME NEW k, AlertsInv(k), UNCHANGED alertVars PROVE AlertsInv(k)'
BY DEF AlertsInv, AlertsTyped, AlertsOf, AlertsKnown, AlertsSingle, AlertsDue, alertVars

\* SetToSeq of finitely many: each of them once.
LEMMA AlertsOfTwoListed ==
  ASSUME NEW S, IsFiniteSet(S)
  PROVE  /\ AlertsOfTwo!SetToSeq(S) \in Seq(S)
         /\ \A i, j \in DOMAIN AlertsOfTwo!SetToSeq(S) :
              AlertsOfTwo!SetToSeq(S)[i] = AlertsOfTwo!SetToSeq(S)[j] => i = j
<1> DEFINE n == AlertsOfTwo!Cardinality(S)
<1>1. n = Cardinality(S) /\ n \in Nat
  <2>1. n = Cardinality(S)
    BY DEF AlertsOfTwo!Cardinality, Cardinality
  <2> QED
    BY <2>1, FS_CardinalityType
<1>2. ExistsBijection(1..n, S)
  BY <1>1, FS_CardinalityType
<1> HIDE DEF n
<1>3. PICK f \in [1..n -> S] : \A i, j \in 1..n : f[i] = f[j] => i = j
  BY <1>2 DEF ExistsBijection, Bijection, Injection, IsInjective
<1>4. AlertsOfTwo!IsInjective(f)
  BY <1>3 DEF AlertsOfTwo!IsInjective
<1>5. AlertsOfTwo!SetToSeq(S) \in [1..n -> S] /\ AlertsOfTwo!IsInjective(AlertsOfTwo!SetToSeq(S))
  BY <1>4, Zenon DEF AlertsOfTwo!SetToSeq, n
<1>6. AlertsOfTwo!SetToSeq(S) \in Seq(S)
  BY <1>1, <1>5
<1> QED
  BY <1>5, <1>6, Zenon DEF AlertsOfTwo!IsInjective

LEMMA AlertsOfTwoEvaluate ==
  ASSUME AlertsConstants(TwoAlerts), AlertsTyped(TwoAlerts),
         NEW ruleSet \in SUBSET TwoAlerts.rule, NEW st, AlertsOfTwo!Evaluate(ruleSet, st)
  PROVE  AlertsRaised(TwoAlerts, ruleSet, st)
<1> DEFINE due == {r \in ruleSet : AlertsOfTwo!Breached(r, st) /\ AlertsOfTwo!Unresolved(r.type) = {}}
<1>1. PICK chosen \in AlertsOfTwo!OneOfEachType(due) :
        /\ alerts' = alerts \o AlertsOfTwo!SetToSeq({AlertsOfTwo!Firing(r) : r \in chosen})
        /\ stored' = stored \o AlertsOfTwo!SetToSeq({AlertsOfTwo!Firing(r) : r \in chosen})
        /\ raised' = raised \cup {r.type : r \in chosen}
  BY Zenon DEF AlertsOfTwo!Evaluate, AlertsOfTwo!Raising
<1> DEFINE made == {AlertsOfTwo!Firing(r) : r \in chosen}
           new == AlertsOfTwo!SetToSeq(made)
           types == {r.type : r \in chosen}
<1>2. chosen \subseteq due /\ \A r \in due : AlertsOfTwo!Cardinality({q \in chosen : q.type = r.type}) = 1
  BY <1>1, Zenon DEF AlertsOfTwo!OneOfEachType
<1>3. IsFiniteSet(chosen)
  <2>1. chosen \subseteq TwoAlerts.rule
    BY <1>2
  <2> QED
    BY <2>1, FS_Subset DEF AlertsConstants
<1>4. \A r, q \in chosen : r.type = q.type => r = q
  <2> SUFFICES ASSUME NEW r \in chosen, NEW q \in chosen, r.type = q.type PROVE r = q
    OBVIOUS
  <2> DEFINE same == {p \in chosen : p.type = r.type}
  <2>1. AlertsOfTwo!Cardinality(same) = Cardinality(same)
    BY DEF AlertsOfTwo!Cardinality, Cardinality
  <2>2. Cardinality(same) = 1 /\ IsFiniteSet(same)
    BY <1>2, <1>3, <2>1, FS_Subset
  <2>3. r \in same /\ q \in same
    OBVIOUS
  <2> HIDE DEF same
  <2> QED
    BY <2>2, <2>3, FS_Singleton
<1>5. \A r \in due : \E q \in chosen : q.type = r.type
  <2> SUFFICES ASSUME NEW r \in due, \A q \in chosen : q.type # r.type PROVE FALSE
    OBVIOUS
  <2>1. {q \in chosen : q.type = r.type} = {}
    OBVIOUS
  <2>2. AlertsOfTwo!Cardinality({}) = 0
    <3>1. AlertsOfTwo!Cardinality({}) = Cardinality({})
      BY DEF AlertsOfTwo!Cardinality, Cardinality
    <3> QED
      BY <3>1, FS_EmptySet
  <2> HIDE DEF due
  <2> QED
    BY <1>2, <2>1, <2>2
<1>6. /\ IsFiniteSet(made)
      /\ new \in Seq(made)
      /\ \A i, j \in DOMAIN new : new[i] = new[j] => i = j
  <2>1. IsFiniteSet(made)
    <3> DEFINE f == [r \in chosen |-> AlertsOfTwo!Firing(r)]
    <3>1. f \in Surjection(chosen, made)
      BY DEF Surjection
    <3> QED
      BY <1>3, <3>1, FS_Surjection
  <2> HIDE DEF made
  <2> QED
    BY <2>1, AlertsOfTwoListed
<1>7. \A x \in made : x \in AlertsOf(TwoAlerts) /\ x.status = "firing" /\ x.type \in types
  <2> SUFFICES ASSUME NEW r \in chosen
               PROVE  /\ AlertsOfTwo!Firing(r) \in AlertsOf(TwoAlerts)
                      /\ AlertsOfTwo!Firing(r).status = "firing" /\ AlertsOfTwo!Firing(r).type \in types
    OBVIOUS
  <2>1. r \in TwoAlerts.rule
    BY <1>2
  <2> HIDE DEF due
  <2> QED
    BY <2>1 DEF AlertsOfTwo!Firing, AlertsOf
<1>8. \A x, y \in made : x.type = y.type => x = y
  <2> SUFFICES ASSUME NEW r \in chosen, NEW q \in chosen, AlertsOfTwo!Firing(r).type = AlertsOfTwo!Firing(q).type
               PROVE  AlertsOfTwo!Firing(r) = AlertsOfTwo!Firing(q)
    OBVIOUS
  <2>1. r.type = q.type
    BY DEF AlertsOfTwo!Firing
  <2> QED
    BY <1>4, <2>1
<1>9. \A i \in DOMAIN alerts : alerts[i].type \in types => alerts[i].status = "resolved"
  BY <1>2, Zenon DEF AlertsOfTwo!Unresolved
<1>10. \A r \in ruleSet : Breach(r, st, mNow) =>
         r.type \in types \/ \E i \in DOMAIN alerts : alerts[i].type = r.type /\ alerts[i].status # "resolved"
  <2> SUFFICES ASSUME NEW r \in ruleSet, Breach(r, st, mNow)
               PROVE  r.type \in types \/ \E i \in DOMAIN alerts : alerts[i].type = r.type /\ alerts[i].status # "resolved"
    OBVIOUS
  <2>1. AlertsOfTwo!Breached(r, st)
    BY Zenon DEF AlertsOfTwo!Breached, AlertsOfTwo!BreachedAt, Breach
  <2>2. CASE AlertsOfTwo!Unresolved(r.type) = {}
    BY <1>5, <2>1, <2>2
  <2>3. CASE AlertsOfTwo!Unresolved(r.type) # {}
    BY <2>3, Zenon DEF AlertsOfTwo!Unresolved
  <2> QED
    BY <2>2, <2>3
<1> HIDE DEF made, due, types, new
<1>11. /\ new \in Seq(AlertsOf(TwoAlerts))
       /\ \A i \in DOMAIN new : new[i].status = "firing" /\ new[i].type \in types
       /\ \A i, j \in DOMAIN new : new[i].type = new[j].type => i = j
  <2>1. /\ new \in Seq(made) /\ made \subseteq AlertsOf(TwoAlerts)
        /\ \A i \in DOMAIN new : new[i] \in made
    BY <1>6, <1>7
  <2>2. new \in Seq(AlertsOf(TwoAlerts))
    BY <2>1
  <2> QED
    BY <1>6, <1>7, <1>8, <2>1, <2>2, Zenon
<1>12. /\ alerts' = alerts \o new /\ stored' = stored \o new /\ raised' = raised \cup types
  BY <1>1 DEF new, types, made
<1> QED
  BY <1>9, <1>10, <1>11, <1>12, Zenon DEF AlertsRaised

LEMMA AlertsOfTwoInit == AlertsOfTwo!Init => AlertsInv(TwoAlerts)
<1> SUFFICES ASSUME AlertsOfTwo!Init PROVE AlertsInv(TwoAlerts)
  OBVIOUS
<1>1. /\ mNow = 0 /\ asof = [r \in TwoAlerts.rule |-> 0] /\ mStatus = {} /\ mRules = {} /\ alerts = <<>> /\ stored = <<>>
      /\ mOp = [c \in TwoAlerts.client |-> [pc |-> "idle"]]
  BY DEF AlertsOfTwo!Init, AlertsOfTwo!Idle
<1>2. AlertsTyped(TwoAlerts)
  BY <1>1 DEF AlertsTyped
<1> QED
  BY <1>1, <1>2 DEF AlertsInv, AlertsKnown, AlertsSingle, AlertsDue

LEMMA AlertsOfTwoCalls ==
  ASSUME AlertsConstants(TwoAlerts), AlertsInv(TwoAlerts), NEW c \in TwoAlerts.client, \A st \in Reported : st.age \in Int,
         \/ \E st \in Reported : AlertsOfTwo!ReportStatus(c, st) \/ AlertsOfTwo!ReportMetrics(c, st)
         \/ AlertsOfTwo!EvaluateAlerts(c) \/ AlertsOfTwo!Refresh(c)
  PROVE  AlertsInv(TwoAlerts)'
<1>1. \A t : AlertsOfTwo!Unresolved(t) # {} <=>
             \E i \in DOMAIN alerts : alerts[i].type = t /\ alerts[i].status # "resolved"
  BY DEF AlertsOfTwo!Unresolved
<1>2. {t \in AlertsOfTwo!Types : AlertsOfTwo!Unresolved(t) # {}} =
      {t \in {r.type : r \in TwoAlerts.rule} :
         \E i \in DOMAIN alerts : alerts[i].type = t /\ alerts[i].status # "resolved"}
  BY <1>1, Zenon DEF AlertsOfTwo!Types
<1>3. ASSUME NEW st \in Reported, AlertsOfTwo!ReportStatus(c, st) PROVE AlertsInv(TwoAlerts)'
  <2> DEFINE filed == [cpu |-> st.cpu, failed |-> st.failed, seen |-> mNow - st.age]
             call == [pc |-> "evaluate", status |-> filed]
  <2>1. /\ mOp' = [mOp EXCEPT ![c] = call] /\ mStatus' = {filed} /\ asof' = [r \in TwoAlerts.rule |-> mNow]
        /\ UNCHANGED <<mNow, mRules, alerts, stored, reopened>>
        /\ raised' = {t \in AlertsOfTwo!Types : AlertsOfTwo!Unresolved(t) # {}}
    BY <1>3, Zenon DEF AlertsOfTwo!ReportStatus, AlertsOfTwo!Begin, AlertsOfTwo!Go, AlertsOfTwo!Store
  <2>2. call.pc = "evaluate" /\ call.status = filed /\ filed.seen \in Int
    BY DEF AlertsInv, AlertsTyped
  <2> HIDE DEF filed
  <2> HIDE DEF call
  <2> QED
    BY <1>2, <2>1, <2>2, AlertsCallKeeps
<1>4. ASSUME NEW st \in Reported, AlertsOfTwo!ReportMetrics(c, st) PROVE AlertsInv(TwoAlerts)'
  <2> DEFINE found == [cpu |-> st.cpu, failed |-> \E s \in mStatus : s.failed, seen |-> mNow - st.age]
             call == [pc |-> "refresh", status |-> found]
  <2>1. /\ mOp[c] = [pc |-> "idle"] /\ mOp' = [mOp EXCEPT ![c] = call]
        /\ UNCHANGED <<mNow, mStatus, mRules, alerts, stored, asof, raised, reopened>>
    BY <1>4, Zenon DEF AlertsOfTwo!ReportMetrics, AlertsOfTwo!Begin, AlertsOfTwo!Go, AlertsOfTwo!Idle
  <2>3. found.seen \in Int
    BY DEF AlertsInv, AlertsTyped
  <2> HIDE DEF found
  <2>2. mOp[c].pc # "evaluate" /\ {"pc", "status"} \subseteq DOMAIN call /\ call.status.seen \in Int
    BY <2>1, <2>3
  <2> HIDE DEF call
  <2> QED
    BY <2>1, <2>2, AlertsCallKeeps
<1>5. CASE AlertsOfTwo!EvaluateAlerts(c)
  <2>1. /\ mOp[c].pc = "evaluate" /\ AlertsOfTwo!Evaluate(mRules, mOp[c].status)
        /\ mOp' = [mOp EXCEPT ![c] = [pc |-> "idle"]] /\ UNCHANGED <<mNow, mStatus, mRules, asof, reopened>>
    BY <1>5, Zenon DEF AlertsOfTwo!EvaluateAlerts, AlertsOfTwo!Go, AlertsOfTwo!Idle
  <2>2. /\ AlertsTyped(TwoAlerts) /\ AlertsKnown /\ AlertsSingle /\ mRules \in SUBSET TwoAlerts.rule
    BY DEF AlertsInv, AlertsTyped
  <2>3. AlertsRaised(TwoAlerts, mRules, mOp[c].status)
    BY <2>1, <2>2, AlertsOfTwoEvaluate
  <2>4. /\ alerts' \in Seq(AlertsOf(TwoAlerts)) /\ stored' = alerts' /\ raised \subseteq raised'
        /\ AlertsKnown' /\ AlertsSingle'
        /\ \A r \in mRules : Breach(r, mOp[c].status, mNow) => r.type \in raised'
    BY <2>1, <2>2, <2>3, AlertsRaisedKeeps
  <2>5. /\ DOMAIN mOp' = TwoAlerts.client
        /\ \A d \in TwoAlerts.client : mOp'[d] = IF d = c THEN [pc |-> "idle"] ELSE mOp[d]
    BY <2>1 DEF AlertsInv, AlertsTyped
  <2>6. AlertsTyped(TwoAlerts)'
    <3>1. AlertsOf(TwoAlerts)' = AlertsOf(TwoAlerts)
      BY DEF AlertsOf
    <3> QED
      BY <2>1, <2>2, <2>4, <2>5, <3>1 DEF AlertsTyped
  <2>7. AlertsDue(TwoAlerts)'
    <3> SUFFICES ASSUME NEW rule \in mRules, NEW st \in mStatus, Breach(rule, st, asof[rule])
                 PROVE  rule.type \in raised' \/ \E d \in TwoAlerts.client : mOp'[d].pc = "evaluate" /\ mOp'[d].status = st
      BY <2>1 DEF AlertsDue
    <3>0. Breach(rule, st, mNow)
      BY <2>2, BreachStays DEF AlertsTyped
    <3>1. CASE rule.type \in raised
      BY <2>4, <3>1
    <3>2. ASSUME NEW d \in TwoAlerts.client, mOp[d].pc = "evaluate", mOp[d].status = st
          PROVE  rule.type \in raised' \/ \E e \in TwoAlerts.client : mOp'[e].pc = "evaluate" /\ mOp'[e].status = st
      BY <2>4, <2>5, <3>0, <3>2
    <3> QED
      BY <3>1, <3>2 DEF AlertsInv, AlertsDue
  <2> QED
    BY <2>4, <2>6, <2>7 DEF AlertsInv
<1>6. CASE AlertsOfTwo!Refresh(c)
  <2> DEFINE call == [mOp[c] EXCEPT !.pc = "evaluate"]
  <2>1. /\ mOp[c].pc = "refresh" /\ mOp' = [mOp EXCEPT ![c] = call] /\ mStatus' = {mOp[c].status}
        /\ asof' = [r \in TwoAlerts.rule |-> mNow] /\ UNCHANGED <<mNow, mRules, alerts, stored, reopened>>
        /\ raised' = {t \in AlertsOfTwo!Types : AlertsOfTwo!Unresolved(t) # {}}
    BY <1>6, Zenon DEF AlertsOfTwo!Refresh, AlertsOfTwo!Go, AlertsOfTwo!Store
  <2>2. call.pc = "evaluate" /\ call.status = mOp[c].status /\ call.status.seen \in Int
    BY <2>1 DEF AlertsInv, AlertsTyped
  <2> HIDE DEF call
  <2> QED
    BY <1>2, <2>1, <2>2, AlertsCallKeeps
<1> QED
  BY <1>3, <1>4, <1>5, <1>6

LEMMA AlertsOfTwoRules ==
  ASSUME AlertsConstants(TwoAlerts), AlertsInv(TwoAlerts), NEW rule \in TwoAlerts.rule,
         AlertsOfTwo!CreateAlert(rule) \/ AlertsOfTwo!DeleteAlert(rule)
  PROVE  AlertsInv(TwoAlerts)'
<1> HIDE DEF AlertsOf
<1>1. AlertsOf(TwoAlerts)' = AlertsOf(TwoAlerts)
  BY DEF AlertsOf
<1>2. CASE UNCHANGED <<alerts, stored, raised>> /\ mStatus = {}
  <2>1. /\ UNCHANGED <<mNow, mStatus, mOp, reopened>> /\ mRules' \subseteq TwoAlerts.rule
        /\ asof' = asof \/ asof' = [asof EXCEPT ![rule] = mNow]
    BY DEF AlertsInv, AlertsTyped, AlertsOfTwo!CreateAlert, AlertsOfTwo!DeleteAlert
  <2> QED
    BY <1>1, <1>2, <2>1 DEF AlertsInv, AlertsTyped, AlertsKnown, AlertsSingle, AlertsDue
<1>3. CASE AlertsOfTwo!DeleteAlert(rule)
  <2>1. UNCHANGED <<mNow, asof, alerts, stored, raised, mStatus, mOp, reopened>> /\ mRules' \subseteq mRules
    BY <1>3 DEF AlertsOfTwo!DeleteAlert
  <2> QED
    BY <1>1, <2>1 DEF AlertsInv, AlertsTyped, AlertsKnown, AlertsSingle, AlertsDue
<1>4. CASE AlertsOfTwo!CreateAlert(rule) /\ mStatus # {}
  <2>1. PICK st \in mStatus : AlertsOfTwo!Evaluate(mRules', st)
    BY <1>4, Zenon DEF AlertsOfTwo!CreateAlert
  <2>2. /\ mRules' = mRules \cup {rule} /\ UNCHANGED <<mNow, mStatus, mOp, reopened>>
        /\ asof' = [asof EXCEPT ![rule] = mNow]
    BY <1>4 DEF AlertsOfTwo!CreateAlert
  <2>3. AlertsTyped(TwoAlerts) /\ AlertsKnown /\ AlertsSingle /\ mRules' \in SUBSET TwoAlerts.rule
    BY <2>2 DEF AlertsInv, AlertsTyped
  <2>4. AlertsRaised(TwoAlerts, mRules', st)
    BY <2>1, <2>3, AlertsOfTwoEvaluate
  <2>5. /\ alerts' \in Seq(AlertsOf(TwoAlerts)) /\ stored' = alerts' /\ raised \subseteq raised'
        /\ AlertsKnown' /\ AlertsSingle'
        /\ \A r \in mRules' : Breach(r, st, mNow) => r.type \in raised'
    BY <2>2, <2>3, <2>4, AlertsRaisedKeeps
  <2>6. AlertsTyped(TwoAlerts)'
    BY <1>1, <2>2, <2>3, <2>5 DEF AlertsTyped
  <2>7. AlertsDue(TwoAlerts)'
    <3> SUFFICES ASSUME NEW r \in mRules', NEW s \in mStatus, Breach(r, s, asof'[r])
                 PROVE  r.type \in raised'
      BY <2>2 DEF AlertsDue
    <3>1. r \in TwoAlerts.rule /\ s = st /\ asof'[r] \in Int /\ asof'[r] <= mNow /\ s.seen \in Int /\ mNow \in Int
      BY <2>2, <2>3 DEF AlertsTyped
    <3>2. Breach(r, st, mNow)
      BY <3>1, BreachStays
    <3> QED
      BY <2>5, <3>2
  <2> QED
    BY <2>5, <2>6, <2>7 DEF AlertsInv
<1> QED
  BY <1>2, <1>3, <1>4 DEF AlertsOfTwo!CreateAlert

LEMMA AlertsOfTwoMove ==
  ASSUME AlertsInv(TwoAlerts), NEW i \in DOMAIN alerts,
         \/ AlertsOfTwo!ResolveAlert(i)
         \/ \E action \in {"ack", "resolve", "reopen"}, who \in Operator : AlertsOfTwo!Transition(i, action, who)
  PROVE  AlertsInv(TwoAlerts)'
<1>1. alerts[i] \in AlertsOf(TwoAlerts)
  BY DEF AlertsInv, AlertsTyped
<1>2. CASE AlertsOfTwo!ResolveAlert(i)
  <2> DEFINE a == [alerts[i] EXCEPT !.status = "resolved"]
  <2>1. a \in AlertsOf(TwoAlerts) /\ a.type = alerts[i].type /\ a.status = "resolved"
    BY <1>1 DEF AlertsOf
  <2>2. /\ alerts' = [alerts EXCEPT ![i] = a] /\ stored' = [stored EXCEPT ![i] = alerts'[i]]
        /\ UNCHANGED <<mNow, mStatus, mRules, mOp, asof, raised, reopened>>
    BY <1>2 DEF AlertsOfTwo!ResolveAlert
  <2> HIDE DEF a, AlertsOf
  <2> QED
    BY <2>1, <2>2, AlertsChangedKeeps
<1>3. ASSUME NEW action \in {"ack", "resolve", "reopen"}, NEW who \in Operator, AlertsOfTwo!Transition(i, action, who)
      PROVE  AlertsInv(TwoAlerts)'
  <2> DEFINE a == AlertsOfTwo!Moved(alerts[i], action, who)
  <2>1. /\ a \in AlertsOf(TwoAlerts) /\ a.type = alerts[i].type
        /\ a.status = AlertsOfTwo!To(action)
    <3> DEFINE was == alerts[i]
               to == AlertsOfTwo!To(action)
               ackBy == CASE action = "ack" -> who [] action = "resolve" -> was.ackBy [] action = "reopen" -> ""
               resolvedBy == CASE action = "ack" -> was.resolvedBy [] action = "resolve" -> who [] action = "reopen" -> ""
    <3>1. a = [was EXCEPT !.status = to, !.ackBy = ackBy, !.resolvedBy = resolvedBy, !.count = @ + 1]
      BY DEF AlertsOfTwo!Moved
    <3>2. to \in {"firing", "acknowledged", "resolved"}
      BY DEF AlertsOfTwo!To
    <3>3. ackBy \in Operator \cup {""} /\ resolvedBy \in Operator \cup {""}
      BY <1>1 DEF AlertsOf
    <3> HIDE DEF a, to, ackBy, resolvedBy
    <3>4. was \in AlertsOf(TwoAlerts)
      BY <1>1
    <3> HIDE DEF was
    <3> DEFINE types == {r.type : r \in TwoAlerts.rule}
               thresholds == {r.threshold : r \in TwoAlerts.rule}
               names == Operator \cup {""}
    <3>5. AlertsOf(TwoAlerts) =
            [type : types, threshold : thresholds, status : {"firing", "acknowledged", "resolved"},
             ackBy : names, resolvedBy : names, count : Nat]
      BY DEF AlertsOf
    <3>6. ackBy \in names /\ resolvedBy \in names
      BY <3>3
    <3> HIDE DEF types, thresholds, names
    <3> DEFINE moved == [type |-> was.type, threshold |-> was.threshold, status |-> to,
                        ackBy |-> ackBy, resolvedBy |-> resolvedBy, count |-> was.count + 1]
    <3>7. /\ was.type \in types /\ was.threshold \in thresholds /\ was.count \in Nat
          /\ was = [type |-> was.type, threshold |-> was.threshold, status |-> was.status,
                    ackBy |-> was.ackBy, resolvedBy |-> was.resolvedBy, count |-> was.count]
      BY <3>4, <3>5
    <3>8. a = moved
      BY <3>1, <3>7
    <3>9. moved \in AlertsOf(TwoAlerts)
      BY <3>2, <3>5, <3>6, <3>7
    <3>10. a \in AlertsOf(TwoAlerts) /\ a.type = was.type /\ a.status = to
      BY <3>8, <3>9
    <3> QED
      BY <3>10 DEF was, to
  <2>2. /\ alerts[i].status \in AlertsOfTwo!From(action)
        /\ alerts' = [alerts EXCEPT ![i] = a] /\ stored' = [stored EXCEPT ![i] = alerts'[i]]
        /\ reopened' = IF action = "reopen" THEN reopened \cup {alerts[i].type} ELSE reopened
        /\ raised' = IF action = "reopen" THEN raised \cup {alerts[i].type} ELSE raised
        /\ UNCHANGED <<mNow, mStatus, mRules, mOp, asof>>
    BY <1>3 DEF AlertsOfTwo!Transition
  <2>3. alerts[i].status = "resolved" => action = "reopen"
    BY <2>2 DEF AlertsOfTwo!From
  <2> HIDE DEF a, AlertsOf
  <2>4. alerts[i].status = "resolved" /\ a.status # "resolved" => a.type \in raised' /\ a.type \in reopened'
    BY <2>1, <2>2, <2>3
  <2>5. raised \subseteq raised' /\ reopened \subseteq reopened'
    BY <2>2
  <2> QED
    BY <2>1, <2>2, <2>4, <2>5, AlertsChangedKeeps
<1> QED
  BY <1>2, <1>3

LEMMA AlertsOfTwoTick == ASSUME AlertsInv(TwoAlerts), AlertsOfTwo!Tick PROVE AlertsInv(TwoAlerts)'
<1>1. /\ mNow' = mNow + 1 /\ UNCHANGED <<mStatus, mRules, mOp, asof, alerts, stored, raised, reopened>>
      /\ AlertsOf(TwoAlerts)' = AlertsOf(TwoAlerts)
  BY DEF AlertsOfTwo!Tick, AlertsOf
<1> HIDE DEF AlertsOf
<1>2. AlertsTyped(TwoAlerts)'
  BY <1>1 DEF AlertsInv, AlertsTyped
<1> QED
  BY <1>1, <1>2 DEF AlertsInv, AlertsKnown, AlertsSingle, AlertsDue

LEMMA AlertsOfTwoStep ==
  ASSUME AlertsConstants(TwoAlerts), \A st \in Reported : st.age \in Int, AlertsInv(TwoAlerts), AlertsOfTwo!Next
  PROVE  AlertsInv(TwoAlerts)'
BY AlertsOfTwoTick, AlertsOfTwoCalls, AlertsOfTwoRules, AlertsOfTwoMove DEF AlertsOfTwo!Next

LEMMA AlertsOfTwoGives ==
  ASSUME AlertsConstants(TwoAlerts), AlertsInv(TwoAlerts)
  PROVE  AlertsOfTwo!BreachRaised /\ AlertsOfTwo!RaisedOnce /\ AlertsOfTwo!AlertsStored
<1>1. AlertsOfTwo!BreachRaised
  <2>1. \A r, s, t : AlertsOfTwo!BreachedAt(r, s, t) <=> Breach(r, s, t)
    BY Zenon DEF AlertsOfTwo!BreachedAt, Breach
  <2> QED
    BY <2>1 DEF AlertsInv, AlertsDue, AlertsOfTwo!BreachRaised, AlertsOfTwo!Settled
<1>2. ASSUME NEW type, type \notin reopened PROVE AlertsOfTwo!Cardinality(AlertsOfTwo!Unresolved(type)) <= 1
  <2> DEFINE S == AlertsOfTwo!Unresolved(type)
  <2>1. \A i, j \in S : i = j
    BY <1>2 DEF AlertsInv, AlertsSingle, AlertsOfTwo!Unresolved
  <2>2. AlertsOfTwo!Cardinality(S) = Cardinality(S)
    BY DEF AlertsOfTwo!Cardinality, Cardinality
  <2> HIDE DEF S
  <2>3. S = {} \/ \E x : S = {x}
    BY <2>1
  <2>4. Cardinality(S) = 0 \/ Cardinality(S) = 1
    BY <2>3, FS_EmptySet, FS_Singleton
  <2> QED
    BY <2>2, <2>4 DEF S
<1>3. AlertsOfTwo!RaisedOnce
  BY <1>2, Zenon DEF AlertsOfTwo!RaisedOnce
<1>4. AlertsOfTwo!AlertsStored
  BY DEF AlertsInv, AlertsTyped, AlertsOfTwo!AlertsStored
<1> QED
  BY <1>1, <1>3, <1>4

\* SetToSeq of finitely many: each of them once.
LEMMA AlertsOfOneListed ==
  ASSUME NEW S, IsFiniteSet(S)
  PROVE  /\ AlertsOfOne!SetToSeq(S) \in Seq(S)
         /\ \A i, j \in DOMAIN AlertsOfOne!SetToSeq(S) :
              AlertsOfOne!SetToSeq(S)[i] = AlertsOfOne!SetToSeq(S)[j] => i = j
<1> DEFINE n == AlertsOfOne!Cardinality(S)
<1>1. n = Cardinality(S) /\ n \in Nat
  <2>1. n = Cardinality(S)
    BY DEF AlertsOfOne!Cardinality, Cardinality
  <2> QED
    BY <2>1, FS_CardinalityType
<1>2. ExistsBijection(1..n, S)
  BY <1>1, FS_CardinalityType
<1> HIDE DEF n
<1>3. PICK f \in [1..n -> S] : \A i, j \in 1..n : f[i] = f[j] => i = j
  BY <1>2 DEF ExistsBijection, Bijection, Injection, IsInjective
<1>4. AlertsOfOne!IsInjective(f)
  BY <1>3 DEF AlertsOfOne!IsInjective
<1>5. AlertsOfOne!SetToSeq(S) \in [1..n -> S] /\ AlertsOfOne!IsInjective(AlertsOfOne!SetToSeq(S))
  BY <1>4, Zenon DEF AlertsOfOne!SetToSeq, n
<1>6. AlertsOfOne!SetToSeq(S) \in Seq(S)
  BY <1>1, <1>5
<1> QED
  BY <1>5, <1>6, Zenon DEF AlertsOfOne!IsInjective

LEMMA AlertsOfOneEvaluate ==
  ASSUME AlertsConstants(OneAlerts), AlertsTyped(OneAlerts),
         NEW ruleSet \in SUBSET OneAlerts.rule, NEW st, AlertsOfOne!Evaluate(ruleSet, st)
  PROVE  AlertsRaised(OneAlerts, ruleSet, st)
<1> DEFINE due == {r \in ruleSet : AlertsOfOne!Breached(r, st) /\ AlertsOfOne!Unresolved(r.type) = {}}
<1>1. PICK chosen \in AlertsOfOne!OneOfEachType(due) :
        /\ alerts' = alerts \o AlertsOfOne!SetToSeq({AlertsOfOne!Firing(r) : r \in chosen})
        /\ stored' = stored \o AlertsOfOne!SetToSeq({AlertsOfOne!Firing(r) : r \in chosen})
        /\ raised' = raised \cup {r.type : r \in chosen}
  BY Zenon DEF AlertsOfOne!Evaluate, AlertsOfOne!Raising
<1> DEFINE made == {AlertsOfOne!Firing(r) : r \in chosen}
           new == AlertsOfOne!SetToSeq(made)
           types == {r.type : r \in chosen}
<1>2. chosen \subseteq due /\ \A r \in due : AlertsOfOne!Cardinality({q \in chosen : q.type = r.type}) = 1
  BY <1>1, Zenon DEF AlertsOfOne!OneOfEachType
<1>3. IsFiniteSet(chosen)
  <2>1. chosen \subseteq OneAlerts.rule
    BY <1>2
  <2> QED
    BY <2>1, FS_Subset DEF AlertsConstants
<1>4. \A r, q \in chosen : r.type = q.type => r = q
  <2> SUFFICES ASSUME NEW r \in chosen, NEW q \in chosen, r.type = q.type PROVE r = q
    OBVIOUS
  <2> DEFINE same == {p \in chosen : p.type = r.type}
  <2>1. AlertsOfOne!Cardinality(same) = Cardinality(same)
    BY DEF AlertsOfOne!Cardinality, Cardinality
  <2>2. Cardinality(same) = 1 /\ IsFiniteSet(same)
    BY <1>2, <1>3, <2>1, FS_Subset
  <2>3. r \in same /\ q \in same
    OBVIOUS
  <2> HIDE DEF same
  <2> QED
    BY <2>2, <2>3, FS_Singleton
<1>5. \A r \in due : \E q \in chosen : q.type = r.type
  <2> SUFFICES ASSUME NEW r \in due, \A q \in chosen : q.type # r.type PROVE FALSE
    OBVIOUS
  <2>1. {q \in chosen : q.type = r.type} = {}
    OBVIOUS
  <2>2. AlertsOfOne!Cardinality({}) = 0
    <3>1. AlertsOfOne!Cardinality({}) = Cardinality({})
      BY DEF AlertsOfOne!Cardinality, Cardinality
    <3> QED
      BY <3>1, FS_EmptySet
  <2> HIDE DEF due
  <2> QED
    BY <1>2, <2>1, <2>2
<1>6. /\ IsFiniteSet(made)
      /\ new \in Seq(made)
      /\ \A i, j \in DOMAIN new : new[i] = new[j] => i = j
  <2>1. IsFiniteSet(made)
    <3> DEFINE f == [r \in chosen |-> AlertsOfOne!Firing(r)]
    <3>1. f \in Surjection(chosen, made)
      BY DEF Surjection
    <3> QED
      BY <1>3, <3>1, FS_Surjection
  <2> HIDE DEF made
  <2> QED
    BY <2>1, AlertsOfOneListed
<1>7. \A x \in made : x \in AlertsOf(OneAlerts) /\ x.status = "firing" /\ x.type \in types
  <2> SUFFICES ASSUME NEW r \in chosen
               PROVE  /\ AlertsOfOne!Firing(r) \in AlertsOf(OneAlerts)
                      /\ AlertsOfOne!Firing(r).status = "firing" /\ AlertsOfOne!Firing(r).type \in types
    OBVIOUS
  <2>1. r \in OneAlerts.rule
    BY <1>2
  <2> HIDE DEF due
  <2> QED
    BY <2>1 DEF AlertsOfOne!Firing, AlertsOf
<1>8. \A x, y \in made : x.type = y.type => x = y
  <2> SUFFICES ASSUME NEW r \in chosen, NEW q \in chosen, AlertsOfOne!Firing(r).type = AlertsOfOne!Firing(q).type
               PROVE  AlertsOfOne!Firing(r) = AlertsOfOne!Firing(q)
    OBVIOUS
  <2>1. r.type = q.type
    BY DEF AlertsOfOne!Firing
  <2> QED
    BY <1>4, <2>1
<1>9. \A i \in DOMAIN alerts : alerts[i].type \in types => alerts[i].status = "resolved"
  BY <1>2, Zenon DEF AlertsOfOne!Unresolved
<1>10. \A r \in ruleSet : Breach(r, st, mNow) =>
         r.type \in types \/ \E i \in DOMAIN alerts : alerts[i].type = r.type /\ alerts[i].status # "resolved"
  <2> SUFFICES ASSUME NEW r \in ruleSet, Breach(r, st, mNow)
               PROVE  r.type \in types \/ \E i \in DOMAIN alerts : alerts[i].type = r.type /\ alerts[i].status # "resolved"
    OBVIOUS
  <2>1. AlertsOfOne!Breached(r, st)
    BY Zenon DEF AlertsOfOne!Breached, AlertsOfOne!BreachedAt, Breach
  <2>2. CASE AlertsOfOne!Unresolved(r.type) = {}
    BY <1>5, <2>1, <2>2
  <2>3. CASE AlertsOfOne!Unresolved(r.type) # {}
    BY <2>3, Zenon DEF AlertsOfOne!Unresolved
  <2> QED
    BY <2>2, <2>3
<1> HIDE DEF made, due, types, new
<1>11. /\ new \in Seq(AlertsOf(OneAlerts))
       /\ \A i \in DOMAIN new : new[i].status = "firing" /\ new[i].type \in types
       /\ \A i, j \in DOMAIN new : new[i].type = new[j].type => i = j
  <2>1. /\ new \in Seq(made) /\ made \subseteq AlertsOf(OneAlerts)
        /\ \A i \in DOMAIN new : new[i] \in made
    BY <1>6, <1>7
  <2>2. new \in Seq(AlertsOf(OneAlerts))
    BY <2>1
  <2> QED
    BY <1>6, <1>7, <1>8, <2>1, <2>2, Zenon
<1>12. /\ alerts' = alerts \o new /\ stored' = stored \o new /\ raised' = raised \cup types
  BY <1>1 DEF new, types, made
<1> QED
  BY <1>9, <1>10, <1>11, <1>12, Zenon DEF AlertsRaised

LEMMA AlertsOfOneInit == AlertsOfOne!Init => AlertsInv(OneAlerts)
<1> SUFFICES ASSUME AlertsOfOne!Init PROVE AlertsInv(OneAlerts)
  OBVIOUS
<1>1. /\ mNow = 0 /\ asof = [r \in OneAlerts.rule |-> 0] /\ mStatus = {} /\ mRules = {} /\ alerts = <<>> /\ stored = <<>>
      /\ mOp = [c \in OneAlerts.client |-> [pc |-> "idle"]]
  BY DEF AlertsOfOne!Init, AlertsOfOne!Idle
<1>2. AlertsTyped(OneAlerts)
  BY <1>1 DEF AlertsTyped
<1> QED
  BY <1>1, <1>2 DEF AlertsInv, AlertsKnown, AlertsSingle, AlertsDue

LEMMA AlertsOfOneCalls ==
  ASSUME AlertsConstants(OneAlerts), AlertsInv(OneAlerts), NEW c \in OneAlerts.client, \A st \in Reported : st.age \in Int,
         \/ \E st \in Reported : AlertsOfOne!ReportStatus(c, st) \/ AlertsOfOne!ReportMetrics(c, st)
         \/ AlertsOfOne!EvaluateAlerts(c) \/ AlertsOfOne!Refresh(c)
  PROVE  AlertsInv(OneAlerts)'
<1>1. \A t : AlertsOfOne!Unresolved(t) # {} <=>
             \E i \in DOMAIN alerts : alerts[i].type = t /\ alerts[i].status # "resolved"
  BY DEF AlertsOfOne!Unresolved
<1>2. {t \in AlertsOfOne!Types : AlertsOfOne!Unresolved(t) # {}} =
      {t \in {r.type : r \in OneAlerts.rule} :
         \E i \in DOMAIN alerts : alerts[i].type = t /\ alerts[i].status # "resolved"}
  BY <1>1, Zenon DEF AlertsOfOne!Types
<1>3. ASSUME NEW st \in Reported, AlertsOfOne!ReportStatus(c, st) PROVE AlertsInv(OneAlerts)'
  <2> DEFINE filed == [cpu |-> st.cpu, failed |-> st.failed, seen |-> mNow - st.age]
             call == [pc |-> "evaluate", status |-> filed]
  <2>1. /\ mOp' = [mOp EXCEPT ![c] = call] /\ mStatus' = {filed} /\ asof' = [r \in OneAlerts.rule |-> mNow]
        /\ UNCHANGED <<mNow, mRules, alerts, stored, reopened>>
        /\ raised' = {t \in AlertsOfOne!Types : AlertsOfOne!Unresolved(t) # {}}
    BY <1>3, Zenon DEF AlertsOfOne!ReportStatus, AlertsOfOne!Begin, AlertsOfOne!Go, AlertsOfOne!Store
  <2>2. call.pc = "evaluate" /\ call.status = filed /\ filed.seen \in Int
    BY DEF AlertsInv, AlertsTyped
  <2> HIDE DEF filed
  <2> HIDE DEF call
  <2> QED
    BY <1>2, <2>1, <2>2, AlertsCallKeeps
<1>4. ASSUME NEW st \in Reported, AlertsOfOne!ReportMetrics(c, st) PROVE AlertsInv(OneAlerts)'
  <2> DEFINE found == [cpu |-> st.cpu, failed |-> \E s \in mStatus : s.failed, seen |-> mNow - st.age]
             call == [pc |-> "refresh", status |-> found]
  <2>1. /\ mOp[c] = [pc |-> "idle"] /\ mOp' = [mOp EXCEPT ![c] = call]
        /\ UNCHANGED <<mNow, mStatus, mRules, alerts, stored, asof, raised, reopened>>
    BY <1>4, Zenon DEF AlertsOfOne!ReportMetrics, AlertsOfOne!Begin, AlertsOfOne!Go, AlertsOfOne!Idle
  <2>3. found.seen \in Int
    BY DEF AlertsInv, AlertsTyped
  <2> HIDE DEF found
  <2>2. mOp[c].pc # "evaluate" /\ {"pc", "status"} \subseteq DOMAIN call /\ call.status.seen \in Int
    BY <2>1, <2>3
  <2> HIDE DEF call
  <2> QED
    BY <2>1, <2>2, AlertsCallKeeps
<1>5. CASE AlertsOfOne!EvaluateAlerts(c)
  <2>1. /\ mOp[c].pc = "evaluate" /\ AlertsOfOne!Evaluate(mRules, mOp[c].status)
        /\ mOp' = [mOp EXCEPT ![c] = [pc |-> "idle"]] /\ UNCHANGED <<mNow, mStatus, mRules, asof, reopened>>
    BY <1>5, Zenon DEF AlertsOfOne!EvaluateAlerts, AlertsOfOne!Go, AlertsOfOne!Idle
  <2>2. /\ AlertsTyped(OneAlerts) /\ AlertsKnown /\ AlertsSingle /\ mRules \in SUBSET OneAlerts.rule
    BY DEF AlertsInv, AlertsTyped
  <2>3. AlertsRaised(OneAlerts, mRules, mOp[c].status)
    BY <2>1, <2>2, AlertsOfOneEvaluate
  <2>4. /\ alerts' \in Seq(AlertsOf(OneAlerts)) /\ stored' = alerts' /\ raised \subseteq raised'
        /\ AlertsKnown' /\ AlertsSingle'
        /\ \A r \in mRules : Breach(r, mOp[c].status, mNow) => r.type \in raised'
    BY <2>1, <2>2, <2>3, AlertsRaisedKeeps
  <2>5. /\ DOMAIN mOp' = OneAlerts.client
        /\ \A d \in OneAlerts.client : mOp'[d] = IF d = c THEN [pc |-> "idle"] ELSE mOp[d]
    BY <2>1 DEF AlertsInv, AlertsTyped
  <2>6. AlertsTyped(OneAlerts)'
    <3>1. AlertsOf(OneAlerts)' = AlertsOf(OneAlerts)
      BY DEF AlertsOf
    <3> QED
      BY <2>1, <2>2, <2>4, <2>5, <3>1 DEF AlertsTyped
  <2>7. AlertsDue(OneAlerts)'
    <3> SUFFICES ASSUME NEW rule \in mRules, NEW st \in mStatus, Breach(rule, st, asof[rule])
                 PROVE  rule.type \in raised' \/ \E d \in OneAlerts.client : mOp'[d].pc = "evaluate" /\ mOp'[d].status = st
      BY <2>1 DEF AlertsDue
    <3>0. Breach(rule, st, mNow)
      BY <2>2, BreachStays DEF AlertsTyped
    <3>1. CASE rule.type \in raised
      BY <2>4, <3>1
    <3>2. ASSUME NEW d \in OneAlerts.client, mOp[d].pc = "evaluate", mOp[d].status = st
          PROVE  rule.type \in raised' \/ \E e \in OneAlerts.client : mOp'[e].pc = "evaluate" /\ mOp'[e].status = st
      BY <2>4, <2>5, <3>0, <3>2
    <3> QED
      BY <3>1, <3>2 DEF AlertsInv, AlertsDue
  <2> QED
    BY <2>4, <2>6, <2>7 DEF AlertsInv
<1>6. CASE AlertsOfOne!Refresh(c)
  <2> DEFINE call == [mOp[c] EXCEPT !.pc = "evaluate"]
  <2>1. /\ mOp[c].pc = "refresh" /\ mOp' = [mOp EXCEPT ![c] = call] /\ mStatus' = {mOp[c].status}
        /\ asof' = [r \in OneAlerts.rule |-> mNow] /\ UNCHANGED <<mNow, mRules, alerts, stored, reopened>>
        /\ raised' = {t \in AlertsOfOne!Types : AlertsOfOne!Unresolved(t) # {}}
    BY <1>6, Zenon DEF AlertsOfOne!Refresh, AlertsOfOne!Go, AlertsOfOne!Store
  <2>2. call.pc = "evaluate" /\ call.status = mOp[c].status /\ call.status.seen \in Int
    BY <2>1 DEF AlertsInv, AlertsTyped
  <2> HIDE DEF call
  <2> QED
    BY <1>2, <2>1, <2>2, AlertsCallKeeps
<1> QED
  BY <1>3, <1>4, <1>5, <1>6

LEMMA AlertsOfOneRules ==
  ASSUME AlertsConstants(OneAlerts), AlertsInv(OneAlerts), NEW rule \in OneAlerts.rule,
         AlertsOfOne!CreateAlert(rule) \/ AlertsOfOne!DeleteAlert(rule)
  PROVE  AlertsInv(OneAlerts)'
<1> HIDE DEF AlertsOf
<1>1. AlertsOf(OneAlerts)' = AlertsOf(OneAlerts)
  BY DEF AlertsOf
<1>2. CASE UNCHANGED <<alerts, stored, raised>> /\ mStatus = {}
  <2>1. /\ UNCHANGED <<mNow, mStatus, mOp, reopened>> /\ mRules' \subseteq OneAlerts.rule
        /\ asof' = asof \/ asof' = [asof EXCEPT ![rule] = mNow]
    BY DEF AlertsInv, AlertsTyped, AlertsOfOne!CreateAlert, AlertsOfOne!DeleteAlert
  <2> QED
    BY <1>1, <1>2, <2>1 DEF AlertsInv, AlertsTyped, AlertsKnown, AlertsSingle, AlertsDue
<1>3. CASE AlertsOfOne!DeleteAlert(rule)
  <2>1. UNCHANGED <<mNow, asof, alerts, stored, raised, mStatus, mOp, reopened>> /\ mRules' \subseteq mRules
    BY <1>3 DEF AlertsOfOne!DeleteAlert
  <2> QED
    BY <1>1, <2>1 DEF AlertsInv, AlertsTyped, AlertsKnown, AlertsSingle, AlertsDue
<1>4. CASE AlertsOfOne!CreateAlert(rule) /\ mStatus # {}
  <2>1. PICK st \in mStatus : AlertsOfOne!Evaluate(mRules', st)
    BY <1>4, Zenon DEF AlertsOfOne!CreateAlert
  <2>2. /\ mRules' = mRules \cup {rule} /\ UNCHANGED <<mNow, mStatus, mOp, reopened>>
        /\ asof' = [asof EXCEPT ![rule] = mNow]
    BY <1>4 DEF AlertsOfOne!CreateAlert
  <2>3. AlertsTyped(OneAlerts) /\ AlertsKnown /\ AlertsSingle /\ mRules' \in SUBSET OneAlerts.rule
    BY <2>2 DEF AlertsInv, AlertsTyped
  <2>4. AlertsRaised(OneAlerts, mRules', st)
    BY <2>1, <2>3, AlertsOfOneEvaluate
  <2>5. /\ alerts' \in Seq(AlertsOf(OneAlerts)) /\ stored' = alerts' /\ raised \subseteq raised'
        /\ AlertsKnown' /\ AlertsSingle'
        /\ \A r \in mRules' : Breach(r, st, mNow) => r.type \in raised'
    BY <2>2, <2>3, <2>4, AlertsRaisedKeeps
  <2>6. AlertsTyped(OneAlerts)'
    BY <1>1, <2>2, <2>3, <2>5 DEF AlertsTyped
  <2>7. AlertsDue(OneAlerts)'
    <3> SUFFICES ASSUME NEW r \in mRules', NEW s \in mStatus, Breach(r, s, asof'[r])
                 PROVE  r.type \in raised'
      BY <2>2 DEF AlertsDue
    <3>1. r \in OneAlerts.rule /\ s = st /\ asof'[r] \in Int /\ asof'[r] <= mNow /\ s.seen \in Int /\ mNow \in Int
      BY <2>2, <2>3 DEF AlertsTyped
    <3>2. Breach(r, st, mNow)
      BY <3>1, BreachStays
    <3> QED
      BY <2>5, <3>2
  <2> QED
    BY <2>5, <2>6, <2>7 DEF AlertsInv
<1> QED
  BY <1>2, <1>3, <1>4 DEF AlertsOfOne!CreateAlert

LEMMA AlertsOfOneMove ==
  ASSUME AlertsInv(OneAlerts), NEW i \in DOMAIN alerts,
         \/ AlertsOfOne!ResolveAlert(i)
         \/ \E action \in {"ack", "resolve", "reopen"}, who \in Operator : AlertsOfOne!Transition(i, action, who)
  PROVE  AlertsInv(OneAlerts)'
<1>1. alerts[i] \in AlertsOf(OneAlerts)
  BY DEF AlertsInv, AlertsTyped
<1>2. CASE AlertsOfOne!ResolveAlert(i)
  <2> DEFINE a == [alerts[i] EXCEPT !.status = "resolved"]
  <2>1. a \in AlertsOf(OneAlerts) /\ a.type = alerts[i].type /\ a.status = "resolved"
    BY <1>1 DEF AlertsOf
  <2>2. /\ alerts' = [alerts EXCEPT ![i] = a] /\ stored' = [stored EXCEPT ![i] = alerts'[i]]
        /\ UNCHANGED <<mNow, mStatus, mRules, mOp, asof, raised, reopened>>
    BY <1>2 DEF AlertsOfOne!ResolveAlert
  <2> HIDE DEF a, AlertsOf
  <2> QED
    BY <2>1, <2>2, AlertsChangedKeeps
<1>3. ASSUME NEW action \in {"ack", "resolve", "reopen"}, NEW who \in Operator, AlertsOfOne!Transition(i, action, who)
      PROVE  AlertsInv(OneAlerts)'
  <2> DEFINE a == AlertsOfOne!Moved(alerts[i], action, who)
  <2>1. /\ a \in AlertsOf(OneAlerts) /\ a.type = alerts[i].type
        /\ a.status = AlertsOfOne!To(action)
    <3> DEFINE was == alerts[i]
               to == AlertsOfOne!To(action)
               ackBy == CASE action = "ack" -> who [] action = "resolve" -> was.ackBy [] action = "reopen" -> ""
               resolvedBy == CASE action = "ack" -> was.resolvedBy [] action = "resolve" -> who [] action = "reopen" -> ""
    <3>1. a = [was EXCEPT !.status = to, !.ackBy = ackBy, !.resolvedBy = resolvedBy, !.count = @ + 1]
      BY DEF AlertsOfOne!Moved
    <3>2. to \in {"firing", "acknowledged", "resolved"}
      BY DEF AlertsOfOne!To
    <3>3. ackBy \in Operator \cup {""} /\ resolvedBy \in Operator \cup {""}
      BY <1>1 DEF AlertsOf
    <3> HIDE DEF a, to, ackBy, resolvedBy
    <3>4. was \in AlertsOf(OneAlerts)
      BY <1>1
    <3> HIDE DEF was
    <3> DEFINE types == {r.type : r \in OneAlerts.rule}
               thresholds == {r.threshold : r \in OneAlerts.rule}
               names == Operator \cup {""}
    <3>5. AlertsOf(OneAlerts) =
            [type : types, threshold : thresholds, status : {"firing", "acknowledged", "resolved"},
             ackBy : names, resolvedBy : names, count : Nat]
      BY DEF AlertsOf
    <3>6. ackBy \in names /\ resolvedBy \in names
      BY <3>3
    <3> HIDE DEF types, thresholds, names
    <3> DEFINE moved == [type |-> was.type, threshold |-> was.threshold, status |-> to,
                        ackBy |-> ackBy, resolvedBy |-> resolvedBy, count |-> was.count + 1]
    <3>7. /\ was.type \in types /\ was.threshold \in thresholds /\ was.count \in Nat
          /\ was = [type |-> was.type, threshold |-> was.threshold, status |-> was.status,
                    ackBy |-> was.ackBy, resolvedBy |-> was.resolvedBy, count |-> was.count]
      BY <3>4, <3>5
    <3>8. a = moved
      BY <3>1, <3>7
    <3>9. moved \in AlertsOf(OneAlerts)
      BY <3>2, <3>5, <3>6, <3>7
    <3>10. a \in AlertsOf(OneAlerts) /\ a.type = was.type /\ a.status = to
      BY <3>8, <3>9
    <3> QED
      BY <3>10 DEF was, to
  <2>2. /\ alerts[i].status \in AlertsOfOne!From(action)
        /\ alerts' = [alerts EXCEPT ![i] = a] /\ stored' = [stored EXCEPT ![i] = alerts'[i]]
        /\ reopened' = IF action = "reopen" THEN reopened \cup {alerts[i].type} ELSE reopened
        /\ raised' = IF action = "reopen" THEN raised \cup {alerts[i].type} ELSE raised
        /\ UNCHANGED <<mNow, mStatus, mRules, mOp, asof>>
    BY <1>3 DEF AlertsOfOne!Transition
  <2>3. alerts[i].status = "resolved" => action = "reopen"
    BY <2>2 DEF AlertsOfOne!From
  <2> HIDE DEF a, AlertsOf
  <2>4. alerts[i].status = "resolved" /\ a.status # "resolved" => a.type \in raised' /\ a.type \in reopened'
    BY <2>1, <2>2, <2>3
  <2>5. raised \subseteq raised' /\ reopened \subseteq reopened'
    BY <2>2
  <2> QED
    BY <2>1, <2>2, <2>4, <2>5, AlertsChangedKeeps
<1> QED
  BY <1>2, <1>3

LEMMA AlertsOfOneTick == ASSUME AlertsInv(OneAlerts), AlertsOfOne!Tick PROVE AlertsInv(OneAlerts)'
<1>1. /\ mNow' = mNow + 1 /\ UNCHANGED <<mStatus, mRules, mOp, asof, alerts, stored, raised, reopened>>
      /\ AlertsOf(OneAlerts)' = AlertsOf(OneAlerts)
  BY DEF AlertsOfOne!Tick, AlertsOf
<1> HIDE DEF AlertsOf
<1>2. AlertsTyped(OneAlerts)'
  BY <1>1 DEF AlertsInv, AlertsTyped
<1> QED
  BY <1>1, <1>2 DEF AlertsInv, AlertsKnown, AlertsSingle, AlertsDue

LEMMA AlertsOfOneStep ==
  ASSUME AlertsConstants(OneAlerts), \A st \in Reported : st.age \in Int, AlertsInv(OneAlerts), AlertsOfOne!Next
  PROVE  AlertsInv(OneAlerts)'
BY AlertsOfOneTick, AlertsOfOneCalls, AlertsOfOneRules, AlertsOfOneMove DEF AlertsOfOne!Next

LEMMA AlertsOfOneGives ==
  ASSUME AlertsConstants(OneAlerts), AlertsInv(OneAlerts)
  PROVE  AlertsOfOne!BreachRaised /\ AlertsOfOne!RaisedOnce /\ AlertsOfOne!AlertsStored
<1>1. AlertsOfOne!BreachRaised
  <2>1. \A r, s, t : AlertsOfOne!BreachedAt(r, s, t) <=> Breach(r, s, t)
    BY Zenon DEF AlertsOfOne!BreachedAt, Breach
  <2> QED
    BY <2>1 DEF AlertsInv, AlertsDue, AlertsOfOne!BreachRaised, AlertsOfOne!Settled
<1>2. ASSUME NEW type, type \notin reopened PROVE AlertsOfOne!Cardinality(AlertsOfOne!Unresolved(type)) <= 1
  <2> DEFINE S == AlertsOfOne!Unresolved(type)
  <2>1. \A i, j \in S : i = j
    BY <1>2 DEF AlertsInv, AlertsSingle, AlertsOfOne!Unresolved
  <2>2. AlertsOfOne!Cardinality(S) = Cardinality(S)
    BY DEF AlertsOfOne!Cardinality, Cardinality
  <2> HIDE DEF S
  <2>3. S = {} \/ \E x : S = {x}
    BY <2>1
  <2>4. Cardinality(S) = 0 \/ Cardinality(S) = 1
    BY <2>3, FS_EmptySet, FS_Singleton
  <2> QED
    BY <2>2, <2>4 DEF S
<1>3. AlertsOfOne!RaisedOnce
  BY <1>2, Zenon DEF AlertsOfOne!RaisedOnce
<1>4. AlertsOfOne!AlertsStored
  BY DEF AlertsInv, AlertsTyped, AlertsOfOne!AlertsStored
<1> QED
  BY <1>1, <1>3, <1>4


=============================================================================
