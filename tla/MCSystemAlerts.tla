--------------------------- MODULE MCSystemAlerts ---------------------------
(***************************************************************************)
(* An instance of CpuSampling: every level for the memory, the two extreme *)
(* ones for the disk, and what the usage gives for the CPU.                *)
(***************************************************************************)
EXTENDS CpuSampling

MCSamples == [m \in Metrics |-> IF m = "disk" THEN {NORMAL, CRITICAL} ELSE Levels]

\* Half of the time is a warning under the first, nothing under the second.
MCThresholds == {[warning |-> 50, critical |-> 90], [warning |-> 60, critical |-> 65]}

=============================================================================
