------------------------------ MODULE Presence ------------------------------
(***************************************************************************)
(* communication.PresenceManager (internal/communication/presence.go): the *)
(* last heartbeat of every agent, and a reaper that marks the expired ones *)
(* as offline every few seconds.  Time is the age of each heartbeat.       *)
(***************************************************************************)
EXTENDS Naturals

CONSTANTS
  Agent,
  Status,    \* the statuses an agent reports besides "offline"
  Timeout    \* PresenceManager.timeout, in ticks

VARIABLES
  entries,   \* the tracked agents with their Status and the age of LastSeen
  reaper     \* the reaper goroutine is "on" or "off"; "panic": Stop was called twice

vars == <<entries, reaper>>

Absent == [status |-> "absent", age |-> 0]

Init == entries = [a \in Agent |-> Absent] /\ reaper = "on"

Tracked(a) == entries[a].status # "absent"
Expired(a) == entries[a].age > Timeout
Up == reaper # "panic"

\* An age beyond the timeout is as good as any other.
Tick ==
  /\ Up
  /\ entries' = [a \in Agent |-> IF Tracked(a) /\ ~Expired(a)
                                  THEN [entries[a] EXCEPT !.age = @ + 1] ELSE entries[a]]
  /\ UNCHANGED reaper

\* Also what ReportStatus does.
Heartbeat(a, s) ==
  /\ Up
  /\ entries' = [entries EXCEPT ![a] = [status |-> s, age |-> 0]]
  /\ UNCHANGED reaper

\* The heartbeat of an agent that is known is not refreshed.
SetStatus(a, s) ==
  /\ Up
  /\ entries' = [entries EXCEPT ![a] = [status |-> s, age |-> IF Tracked(a) THEN @.age ELSE 0]]
  /\ UNCHANGED reaper

RemoveAgent(a) ==
  /\ Up
  /\ entries' = [entries EXCEPT ![a] = Absent]
  /\ UNCHANGED reaper

Reap ==
  /\ reaper = "on"
  /\ entries' = [a \in Agent |-> IF Tracked(a) /\ Expired(a)
                                  THEN [entries[a] EXCEPT !.status = "offline"] ELSE entries[a]]
  /\ UNCHANGED reaper

\* Stop closes stopCh; a second close is fatal.
Stop ==
  /\ Up
  /\ reaper' = IF reaper = "on" THEN "off" ELSE "panic"
  /\ UNCHANGED entries

Next ==
  \/ Tick \/ Reap \/ Stop
  \/ \E a \in Agent :
       \/ RemoveAgent(a)
       \/ \E s \in Status : Heartbeat(a, s)
       \/ \E s \in Status \cup {"offline"} : SetStatus(a, s)

Spec == Init /\ [][Next]_vars /\ WF_vars(Tick) /\ WF_vars(Reap)

-----------------------------------------------------------------------------
\* Mutant of GetStatus: the reaper is trusted to have marked every expired entry.
GetStatusAsMarked(a) == IF ~Tracked(a) THEN "offline" ELSE entries[a].status

\* What a caller sees.
GetStatus(a) == IF ~Tracked(a) \/ Expired(a) THEN "offline" ELSE entries[a].status
ListOnline == {a \in Agent : Tracked(a) /\ ~Expired(a) /\ entries[a].status # "offline"}

TypeOK ==
  /\ entries \in [Agent -> [status : Status \cup {"offline", "absent"}, age : 0..(Timeout + 1)]]
  /\ reaper \in {"on", "off", "panic"}

\* An agent comes online only through a heartbeat, or by being entered or
\* relabelled within the timeout of its last one: neither the reaper nor time
\* nor a status set on an expired entry changes what a caller sees of it.
OnlineNeedsHeartbeat ==
  [][/\ \A a \in Agent : GetStatus(a)' # "offline" /\ GetStatus(a) = "offline" =>
          entries'[a].age = 0 \/ (Tracked(a) /\ ~Expired(a) /\ entries'[a].age = entries[a].age)
     /\ Reap => \A a \in Agent : GetStatus(a)' = GetStatus(a)]_vars
=============================================================================
