----------------------------- MODULE SandboxRun -----------------------------
(***************************************************************************)
(* sandbox.Manager.Run (internal/sandbox/run.go): one script under limits. *)
(* The command is killed when its context ends, by its main process alone; *)
(* Wait returns when the main process is gone and nobody holds the output  *)
(* pipe any more; a timer cuts that short.  Only a run that timed out      *)
(* kills the process group.                                                *)
(***************************************************************************)
EXTENDS SandboxLimits

CONSTANT Config   \* settings: the limits asked for, and DisableCgroup

VARIABLES
  limits,     \* the setting
  pc,         \* where Run is
  cg,         \* the directory of the cgroup
  inside,     \* the process is in it
  applied,    \* Applied, as Prepare made it
  main,       \* the main process: how it ended
  kids,       \* the processes it has forked and that are alive, by their kind
  spawned,    \* history: the kinds of all of them
  ctxErr,     \* runCtx.Err(): the deadline, or a cancel from outside
  overdue,    \* the timer of waitWithDeadline has fired
  waitErr,    \* what cmd.Wait returns; Waiting before
  result      \* RunContext

vars == <<limits, pc, cg, inside, applied, main, kids, spawned, ctxErr, overdue, waitErr, result>>
process == <<main, kids, spawned>>
setup == <<limits, inside, applied>>

\* Exit codes.  137 is 128 + SIGKILL, 124 that of timeout(1).
Code == {"none", "error", "0", "1", "-1", "124", "137"}
NoResult == [timedOut |-> FALSE, code |-> "none"]

Init ==
  /\ limits \in Config
  /\ pc = "prepare"
  /\ cg = "none" /\ inside = FALSE /\ applied = {}
  /\ main = "none" /\ kids = {} /\ spawned = {}
  /\ ctxErr = "nil" /\ overdue = FALSE /\ waitErr = "waiting"
  /\ result = NoResult

PrepareRun ==
  /\ pc = "prepare"
  /\ \E p \in Prepare(limits.set, limits.disabled) :
       /\ applied' = p.applied
       /\ cg' = IF p.cg THEN "there" ELSE "none"
       /\ pc' = IF AnyEnforced(p.applied) THEN "start" ELSE "refused"
  /\ UNCHANGED <<limits, inside, process, ctxErr, overdue, waitErr, result>>

\* The process starts, with CgroupFD or Track in its cgroup, or in neither way;
\* or it does not start, and Run ends with the cgroup removed.
Start ==
  /\ pc = "start"
  /\ \/ /\ main' = "running"
        /\ inside' \in {FALSE, cg = "there"}
        /\ pc' = "wait"
        /\ UNCHANGED <<cg, result>>
     \/ /\ pc' = "close"
        /\ result' = [result EXCEPT !.code = "error"]
        /\ UNCHANGED <<main, inside, cg>>
  /\ UNCHANGED <<limits, applied, kids, spawned, ctxErr, overdue, waitErr>>

-----------------------------------------------------------------------------
\* The processes, in no particular hurry.
MayFork(k) ==
  main = "running" \/ \E j \in kids : (k.pipe => j.pipe) /\ (k.group => j.group)

Fork ==
  /\ \E k \in Kid : MayFork(k) /\ kids' = kids \cup {k} /\ spawned' = spawned \cup {k}
  /\ UNCHANGED <<setup, pc, cg, main, ctxErr, overdue, waitErr, result>>

\* The error of a process that ends well is that of its context, if the
\* context ended first and the kill could still be sent.
MainExits ==
  /\ main = "running"
  /\ \/ main' = "ok" /\ waitErr' \in {"nil"} \cup (IF ctxErr = "nil" THEN {} ELSE {"context"})
     \/ main' = "failed" /\ waitErr' = "exit"
  /\ UNCHANGED <<setup, pc, cg, kids, spawned, ctxErr, overdue, result>>

KidExits ==
  /\ \E k \in kids : kids' = kids \ {k}
  /\ UNCHANGED <<setup, pc, cg, main, spawned, ctxErr, overdue, waitErr, result>>

-----------------------------------------------------------------------------
\* The deadline of runCtx, and a cancel from outside: the first one counts.
Deadline ==
  /\ pc = "wait" /\ ctxErr = "nil"
  /\ ctxErr' = "deadline"
  /\ UNCHANGED <<setup, pc, cg, process, overdue, waitErr, result>>

Cancel ==
  /\ pc = "wait" /\ ctxErr = "nil"
  /\ ctxErr' = "canceled"
  /\ UNCHANGED <<setup, pc, cg, process, overdue, waitErr, result>>

\* CommandContext kills the main process, and nobody else.
KillMain ==
  /\ ctxErr # "nil" /\ main = "running"
  /\ main' = "killed"
  /\ waitErr' = "exit"
  /\ UNCHANGED <<setup, pc, cg, kids, spawned, ctxErr, overdue, result>>

\* The timer of waitWithDeadline is 5 s behind the deadline.
Overdue ==
  /\ pc = "wait" /\ ctxErr # "nil" /\ ~overdue
  /\ overdue' = TRUE
  /\ UNCHANGED <<setup, pc, cg, process, ctxErr, waitErr, result>>

PipeHeld == main = "running" \/ \E k \in kids : k.pipe
Waited == main # "running" /\ ~PipeHeld

ExitCode(err, timedOut) ==
  CASE err = "exit" -> IF main = "killed" THEN "137" ELSE "1"
    [] err = "context" -> "-1"
    [] OTHER -> IF timedOut THEN "124" ELSE "0"

\* Mutant of Return: the code of a timed out command is that of its shell.
ReturnShellCode ==
  /\ pc = "wait"
  /\ \E late \in {l \in BOOLEAN : IF l THEN overdue ELSE Waited} :
       LET timedOut == ctxErr = "deadline" \/ late IN
         /\ result' = [timedOut |-> timedOut, code |-> ExitCode(IF late THEN "nil" ELSE waitErr, FALSE)]
         /\ pc' = IF timedOut THEN "kill" ELSE "close"
  /\ UNCHANGED <<setup, cg, process, ctxErr, overdue, waitErr>>

\* Wait has returned, or the timer has fired.
Return ==
  /\ pc = "wait"
  /\ \E late \in {l \in BOOLEAN : IF l THEN overdue ELSE Waited} :
       LET timedOut == ctxErr = "deadline" \/ late IN
         /\ result' = [timedOut |-> timedOut, code |-> ExitCode(IF late THEN "nil" ELSE waitErr, timedOut)]
         /\ pc' = IF timedOut THEN "kill" ELSE "close"
  /\ UNCHANGED <<setup, cg, process, ctxErr, overdue, waitErr>>

\* Of a command that timed out the whole group is killed.
KillGroup ==
  /\ pc = "kill"
  /\ kids' = Escaped(kids)
  /\ IF main = "running" THEN main' = "killed" /\ waitErr' = "exit" ELSE UNCHANGED <<main, waitErr>>
  /\ pc' = "drain"
  /\ UNCHANGED <<setup, cg, spawned, ctxErr, overdue, result>>

\* Mutant of Drain: it waits for whoever holds the output.
DrainToTheEnd ==
  /\ pc = "drain" /\ \A k \in kids : ~k.pipe
  /\ pc' = "close"
  /\ UNCHANGED <<setup, cg, process, ctxErr, overdue, waitErr, result>>

\* CleanupAfter and drainWait: it is over, or their timers fire.
Drain ==
  /\ pc = "drain"
  /\ pc' = "close"
  /\ UNCHANGED <<setup, cg, process, ctxErr, overdue, waitErr, result>>

\* The cgroup goes, unless a process is left in it: then its directory stays,
\* which nobody is told, as the warnings have been copied already.
Close ==
  /\ pc = "close"
  /\ cg' = IF cg # "there" THEN cg ELSE IF inside /\ kids # {} THEN "left" ELSE "removed"
  /\ pc' = "done"
  /\ UNCHANGED <<setup, process, ctxErr, overdue, waitErr, result>>

Next ==
  \/ PrepareRun \/ Start \/ Fork \/ MainExits \/ KidExits \/ Deadline \/ Cancel \/ KillMain
  \/ Overdue \/ Return \/ KillGroup \/ Drain \/ Close

\* Timers fire and goroutines go on; the processes may run for ever.
Steps == PrepareRun \/ Start \/ Return \/ KillGroup \/ Drain \/ Close
Timers == Deadline \/ Overdue
Fairness == WF_vars(Steps) /\ WF_vars(Timers)

Spec == Init /\ [][Next]_vars /\ Fairness

-----------------------------------------------------------------------------
TypeOK ==
  /\ pc \in {"prepare", "start", "wait", "kill", "drain", "close", "done", "refused"}
  /\ cg \in {"none", "there", "removed", "left"}
  /\ applied \subseteq Limit \cup {"rlimit"}
  /\ main \in {"none", "running", "ok", "failed", "killed"}
  /\ kids \subseteq spawned /\ spawned \subseteq Kid
  /\ ctxErr \in {"nil", "deadline", "canceled"}
  /\ waitErr \in {"waiting", "nil", "exit", "context"}
  /\ result \in [timedOut : BOOLEAN, code : Code]

\* A command that was cut short is never reported as one that succeeded: exit
\* code 0 says that the main process ended well and that nobody else held its
\* output when it was read.
ZeroIsSuccess ==
  pc \in {"close", "done"} /\ result.code = "0" => main = "ok" /\ ~result.timedOut

\* A run that timed out leaves no member of its process group behind; one that
\* did not, also one that was cancelled, leaves only processes that had given up its output.
GroupReclaimed ==
  pc = "done" => IF result.timedOut THEN \A k \in kids : ~k.group ELSE \A k \in kids : ~k.pipe

\* No process without a limit; and the cgroup is removed, but for what outlived
\* the run: a process that left the group, or a background one nobody waited for.
CgroupReclaimed ==
  /\ main # "none" => AnyEnforced(applied)
  /\ pc = "refused" => cg = "none"
  /\ pc = "done" /\ cg = "left" =>
       IF result.timedOut THEN Escaped(spawned) # {} ELSE \E k \in spawned : ~k.pipe

\* A run ends, however long its processes live and whoever holds its output.
RunEnds == <>(pc \in {"done", "refused"})
=============================================================================
