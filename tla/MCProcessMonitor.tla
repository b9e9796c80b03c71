-------------------------- MODULE MCProcessMonitor --------------------------
(***************************************************************************)
(* Instances of ProcessMonitor: two program names, two PIDs besides        *)
(* EdgeSentinel's own, and the kinds of configuration main.c distinguishes.*)
(***************************************************************************)
EXTENDS ProcessMonitor

CONSTANTS a, b

MCNames == {a, b}
MCPids == 1 .. 3
MCSelfPid == 1

ByName(name) == [name |-> name, pid |-> 0]
ByPid(p) == [name |-> None, pid |-> p]

\* Two targets by name; one target by PID, EdgeSentinel itself by default.
MCConfigs == {<<ByName(a), ByName(b)>>, <<ByPid(2)>>, <<ByPid(0)>>}

\* One target by name: what a single process_name configures.
MCSingleName == {<<ByName(a)>>}

\* Only the targets by name.
MCTwoNames == {<<ByName(a), ByName(b)>>}

=============================================================================
