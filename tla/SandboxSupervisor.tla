------------------------- MODULE SandboxSupervisor -------------------------
(***************************************************************************)
(* sandbox.Supervisor (internal/sandbox/run.go): a program that is started *)
(* once and lives until somebody stops it or it ends by itself.  Stop may  *)
(* be called more than once, also at the same time: the first call kills   *)
(* the group and waits, every call removes the cgroup that it finds.       *)
(***************************************************************************)
EXTENDS SandboxLimits

CONSTANTS
  Config,     \* settings: the limits asked for, and DisableCgroup
  Stopper     \* callers of Stop

VARIABLES
  limits,     \* the setting
  pc,         \* where Start is
  applied,    \* Applied, as Prepare made it
  cg,         \* the directory of the cgroup
  inside,     \* the program is in it
  handle,     \* lim.cg is not nil
  main,       \* the program
  kids,       \* the processes it has forked and that are alive, by their kind
  exitCh,     \* closed when Wait has returned
  stopped,    \* a Stop has begun
  op,         \* the call each stopper is in, and at the end whether it reported an error
  found,      \* history: the first Stop found the program running
  escaped,    \* history: a process has left the group
  crossed     \* history: two calls of Stop have been under way at once

vars == <<limits, pc, applied, inside, cg, handle, main, kids, exitCh, stopped, op, found, escaped, crossed>>
started == <<limits, pc, applied, inside>>
history == <<found, escaped, crossed>>

Init ==
  /\ limits \in Config
  /\ pc = "prepare" /\ applied = {}
  /\ cg = "none" /\ inside = FALSE /\ handle = FALSE
  /\ main = "none" /\ kids = {} /\ exitCh = FALSE
  /\ stopped = FALSE
  /\ op = [c \in Stopper |-> [pc |-> "idle", errs |-> {}]]
  /\ found = FALSE /\ escaped = FALSE /\ crossed = FALSE

\* Start: limits are prepared, and the program is started as it is: no shell
\* is there to set its ulimits.  If it does not start the cgroup goes.
Start ==
  /\ pc = "prepare"
  /\ \E p \in Prepare(limits.set, limits.disabled) :
       /\ applied' = p.applied
       /\ \/ /\ AnyEnforced(p.applied)
             /\ pc' = "started" /\ main' = "running"
             /\ cg' = (IF p.cg THEN "there" ELSE "none") /\ handle' = p.cg
             /\ inside' \in {FALSE, p.cg}
          \/ /\ pc' = "failed"
             /\ cg' = (IF p.cg THEN "removed" ELSE "none")
             /\ UNCHANGED <<main, inside, handle>>
  /\ UNCHANGED <<limits, kids, exitCh, stopped, op, history>>

MayFork(k) ==
  main = "running" \/ \E j \in kids : (k.pipe => j.pipe) /\ (k.group => j.group)

Fork ==
  /\ \E k \in Kid : MayFork(k) /\ kids' = kids \cup {k} /\ escaped' = (escaped \/ ~k.group)
  /\ UNCHANGED <<started, cg, handle, main, exitCh, stopped, op, found, crossed>>

\* By itself, or killed as the context of Start was cancelled.
MainExits ==
  /\ main = "running"
  /\ main' = "exited"
  /\ UNCHANGED <<started, cg, handle, kids, exitCh, stopped, op, history>>

KidExits ==
  /\ \E k \in kids : kids' = kids \ {k}
  /\ UNCHANGED <<started, cg, handle, main, exitCh, stopped, op, history>>

\* Wait does not wait for those who hold the pipes: they are its reader's.
WaitLoop ==
  /\ main = "exited" /\ ~exitCh
  /\ exitCh' = TRUE
  /\ UNCHANGED <<started, cg, handle, main, kids, stopped, op, history>>

Go(c, to) == op' = [op EXCEPT ![c].pc = to]
Fail(c, to, err) == op' = [op EXCEPT ![c] = [pc |-> to, errs |-> op[c].errs \cup {err}]]

\* Mutant of Stop: every call takes itself for the first one.
StopUnswapped(c) ==
  /\ pc = "started" /\ op[c].pc = "idle"
  /\ stopped' = TRUE
  /\ Go(c, "check")
  /\ found' = (found \/ ~exitCh)
  /\ crossed' = (crossed \/ \E d \in Stopper : op[d].pc \notin {"idle", "done"})
  /\ UNCHANGED <<started, cg, handle, main, kids, exitCh, escaped>>

\* Stop, its first step: only the first call, and only of a program that has
\* not exited, kills.
Stop(c) ==
  /\ pc = "started" /\ op[c].pc = "idle"
  /\ stopped' = TRUE
  /\ Go(c, IF ~stopped /\ ~exitCh THEN "kill" ELSE "check")
  /\ found' = (found \/ (~stopped /\ ~exitCh))
  /\ crossed' = (crossed \/ \E d \in Stopper : op[d].pc \notin {"idle", "done"})
  /\ UNCHANGED <<started, cg, handle, main, kids, exitCh, escaped>>

KillGroup(c) ==
  /\ op[c].pc = "kill"
  /\ kids' = Escaped(kids)
  /\ main' = "exited"
  /\ Go(c, "wait")
  /\ UNCHANGED <<started, cg, handle, exitCh, stopped, history>>

AwaitExit(c) ==
  /\ op[c].pc = "wait"
  /\ \/ exitCh /\ Go(c, "check")
     \/ Fail(c, "check", "alive after 3s")
  /\ UNCHANGED <<started, cg, handle, main, kids, exitCh, stopped, history>>

\* The handle is looked at ...
CheckHandle(c) ==
  /\ op[c].pc = "check"
  /\ Go(c, IF handle THEN "remove" ELSE "done")
  /\ UNCHANGED <<started, cg, handle, main, kids, exitCh, stopped, history>>

\* ... used, which panics if another call has cleared it meanwhile ...
Remove(c) ==
  /\ op[c].pc = "remove"
  /\ IF ~handle
     THEN Go(c, "panic") /\ UNCHANGED cg
     ELSE IF cg = "there" /\ (inside => main # "running" /\ kids = {})
          THEN cg' = "removed" /\ Go(c, "clear")
          ELSE Fail(c, "clear", "cgroup") /\ UNCHANGED cg
  /\ UNCHANGED <<started, handle, main, kids, exitCh, stopped, history>>

\* ... and cleared, whether the directory went or not.
ClearHandle(c) ==
  /\ op[c].pc = "clear"
  /\ handle' = FALSE
  /\ Go(c, "done")
  /\ UNCHANGED <<started, cg, main, kids, exitCh, stopped, history>>

Next ==
  \/ Start \/ Fork \/ MainExits \/ KidExits \/ WaitLoop
  \/ \E c \in Stopper :
       Stop(c) \/ KillGroup(c) \/ AwaitExit(c) \/ CheckHandle(c) \/ Remove(c) \/ ClearHandle(c)

Fairness ==
  \A c \in Stopper : WF_vars(KillGroup(c) \/ AwaitExit(c) \/ CheckHandle(c) \/ Remove(c) \/ ClearHandle(c))

Spec == Init /\ [][Next]_vars /\ Fairness

-----------------------------------------------------------------------------
Ended(c) == op[c].pc \in {"done", "panic"}

TypeOK ==
  /\ pc \in {"prepare", "started", "failed"}
  /\ cg \in {"none", "there", "removed"}
  /\ main \in {"none", "running", "exited"} /\ kids \subseteq Kid
  /\ \A c \in Stopper : op[c].errs \subseteq {"alive after 3s", "cgroup"}
  /\ {inside, handle, exitCh, stopped, found, escaped, crossed} \subseteq BOOLEAN

\* A Stop that found the program running has ended it, and all of its group,
\* when it returns; whatever it forked on the way.
FoundIsKilled ==
  found /\ (\A c \in Stopper : op[c].pc \in {"idle", "done"}) =>
    main = "exited" /\ \A k \in kids : ~k.group

\* A cgroup that stays behind has been reported by some call of Stop, and
\* stays for a reason: the program had ended before and left processes, one
\* had left the group, or two calls of Stop met.  Only these panic.
LeftIsReported ==
  /\ cg = "there" /\ (\E c \in Stopper : Ended(c)) /\ ~handle =>
       /\ \E c \in Stopper : "cgroup" \in op[c].errs
       /\ crossed \/ escaped \/ ~found
  /\ (\E c \in Stopper : op[c].pc = "panic") => crossed

\* What the comment on Stop says: it ends the process and its whole tree.
TreeStopped ==
  \A c \in Stopper : op[c].pc = "done" /\ ~crossed => \A k \in kids : ~k.group

\* What the comment on Applied says: it is fact, not intention.  Of a program
\* that is started no limit is in force but those of its cgroup.
AppliedIsFact ==
  main = "running" => applied \subseteq (IF inside THEN Controlled ELSE {})

\* Every call of Stop returns.
StopEnds(c) == op[c].pc # "idle" ~> Ended(c)
=============================================================================
