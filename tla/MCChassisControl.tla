-------------------------- MODULE MCChassisControl --------------------------
(* The instance of ChassisControl for TLC.                                  *)
EXTENDS ChassisControl, TLC

CONSTANTS t1, t2

TaskSymmetry == Permutations(Tasks)

\* One option set for each path through the modules: a power command that
\* converges and one that does not in check mode, one transition nobody waits
\* for, one persistent override, every duration, and the rest in full.
DistinctOptions ==
    {o \in Power :
        IF o.check THEN ~o.wait /\ o.state \in {"on", "boot"}
        ELSE o.wait <=> o.state \in CONFIRMABLE_STATES}
    \cup {o \in Power : o.state = "shutdown" /\ ~o.wait /\ ~o.check}
    \cup {o \in Boot : o.persistent => ~o.check /\ ~o.uefi /\ o.device = "default"}
    \cup Reset
    \cup {o \in Identify : o.check => o.state = "off" /\ o.duration = None}
=============================================================================
