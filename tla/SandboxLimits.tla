--------------------------- MODULE SandboxLimits ---------------------------
(***************************************************************************)
(* sandbox.Manager.Prepare (internal/sandbox/types.go) over newCgroupV2    *)
(* (cgroup_linux.go): which limits a process gets, and what the caller is  *)
(* told.  A cgroup takes part of the limits or none; where it takes none   *)
(* the manager falls back to rlimits.                                      *)
(***************************************************************************)
EXTENDS FiniteSets

\* The limits a Config may ask for.
Limit == {"cpu", "memory", "pids", "fsize", "nofile"}
Controlled == {"cpu", "memory", "pids"}

\* Those that ulimit can set.
Rlimits(limits) == limits \ {"pids"}

\* What newCgroupV2 may return: no cgroup where there is no cgroup2 file
\* system or no controller, else one with the limits whose files it could
\* write.  One that takes none although some were asked for is removed.
NoCgroup == [cg |-> FALSE, set |-> {}]
NewCgroup(limits) ==
  {NoCgroup} \cup
  {[cg |-> TRUE, set |-> set] : set \in
     {w \in SUBSET (limits \cap Controlled) : w # {} \/ limits \cap Controlled = {}}}

\* Applied: what the caller is told is enforced.
Applied(cgroup, limits) ==
  cgroup.set \cup (IF Rlimits(limits) = {} THEN {} ELSE {"rlimit"} \cup (limits \cap {"fsize", "nofile"}))

AnyEnforced(applied) == applied # {}

\* The outcomes of Prepare; with nothing enforced it refuses and removes the cgroup.
Prepare(limits, disabled) ==
  {[cg |-> g.cg /\ AnyEnforced(Applied(g, limits)), applied |-> Applied(g, limits)] :
     g \in IF disabled THEN {NoCgroup} ELSE NewCgroup(limits)}

\* A process that a process has forked: whether it holds the output pipe open
\* and whether it is still in the group of its parent.
Kid == [pipe : BOOLEAN, group : BOOLEAN]
Escaped(kids) == {k \in kids : ~k.group}
=============================================================================
