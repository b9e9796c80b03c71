----------------------------- MODULE CpuSampling -----------------------------
(***************************************************************************)
(* The CPU in the rounds of SystemAlerts: src/cpu_monitor.c, and the two   *)
(* readings src/main.c keeps.  The level the alerts start from is that of  *)
(* a usage, computed from counters of the kernel that wrap and, waiting    *)
(* for a disk, may go down.                                                *)
(*                                                                         *)
(* The eight counters are only ever added up, without a sign: a reading is *)
(* the two sums, of the time at work and of the time without.              *)
(***************************************************************************)
EXTENDS SystemAlerts

CONSTANTS
    Word,           \* 2^64: the values of an unsigned long long
    Thresholds,     \* cpu_warning_threshold and cpu_critical_threshold, in percent
    MaxSpent        \* bound: time at work, or without, between two readings

ASSUME CpuAssumption ==
    /\ MaxSpent \in Nat \ {0} /\ Word \in Nat /\ Word > 2 * MaxSpent
    /\ Thresholds \subseteq [warning : 0 .. 100, critical : 0 .. 100]
    /\ \A t \in Thresholds : t.warning < t.critical

VARIABLES
    thresholds,     \* of the configuration in force
    previous_cpu,   \* the reading of the round before
    current_cpu,    \* the last reading, and so the kernel's counters then
    spent           \* history: the time between the last two readings, while
                    \* the level computed from them is new

cpu == <<previous_cpu, current_cpu, spent>>
all == <<vars, thresholds, cpu>>

Readings == [work : 0 .. Word - 1, idle : 0 .. Word - 1]
NoTime == [work |-> 0, idle |-> 0]

CInit ==
    /\ Init
    /\ thresholds \in Thresholds
    /\ current_cpu \in Readings
    /\ previous_cpu = current_cpu
    /\ spent = NoTime

\* Fault: a sum that went down counts as no time, as in network.c.
UsageOfGrowth(before, after) ==
    LET Growth(x, y) == IF y >= x THEN y - x ELSE 0
        idle == Growth(before.idle, after.idle)
        total == Growth((before.work + before.idle) % Word,
                        (after.work + after.idle) % Word)
    IN  [part |-> IF total = 0 THEN 0 ELSE total - idle,
         whole |-> IF total = 0 THEN 1 ELSE total]

\* calculate_cpu_usage, as a fraction: without time in between it is 0.
CalculateCpuUsage(before, after) ==
    LET idle == (after.idle - before.idle) % Word
        total == (after.work + after.idle - before.work - before.idle) % Word
    IN  [part |-> IF total = 0 THEN 0 ELSE (total - idle) % Word,
         whole |-> IF total = 0 THEN 1 ELSE total]

\* alert_evaluate_percentage.
EvaluatePercentage(usage, limits) ==
    CASE 100 * usage.part >= limits.critical * usage.whole -> CRITICAL
      [] 100 * usage.part < limits.warning * usage.whole -> NORMAL
      [] OTHER -> WARNING

\* The time the kernel accounts for between two readings; iowait may go down.
Spent == [work : 0 .. MaxSpent, idle : -1 .. MaxSpent - 1]

Advanced(before, time) ==
    [work |-> (before.work + time.work) % Word,
     idle |-> (before.idle + time.idle) % Word]

SampleCpu ==
    /\ Sample("cpu")
    /\ spent' \in Spent
    /\ current_cpu' = Advanced(current_cpu, spent')
    /\ level'["cpu"] =
          EvaluatePercentage(CalculateCpuUsage(previous_cpu, current_cpu'), thresholds)
    /\ UNCHANGED <<thresholds, previous_cpu>>

\* Fault: the reading of the start stays the base.
FirstReading == previous_cpu

NextPrevious == current_cpu

RoundEnds ==
    /\ EndRound
    /\ previous_cpu' = NextPrevious
    /\ spent' = NoTime
    /\ UNCHANGED <<thresholds, current_cpu>>

\* A reload keeps the reading: the round after it, which has not slept, covers
\* the time since the last one all the same.
ReloadThresholds ==
    /\ Reload
    /\ thresholds' \in Thresholds
    /\ spent' = NoTime
    /\ UNCHANGED <<previous_cpu, current_cpu>>

OtherSteps ==
    /\ \/ StartRound \/ Stop \/ SystemStatus \/ CountSample \/ Fails
       \/ \E m \in Metrics \ {"cpu"} : Sample(m)
    /\ spent' = NoTime
    /\ UNCHANGED <<thresholds, previous_cpu, current_cpu>>

CNext == SampleCpu \/ RoundEnds \/ ReloadThresholds \/ OtherSteps

CSpec == CInit /\ [][CNext]_all

-----------------------------------------------------------------------------
(* Properties.                                                             *)

\* The level of the CPU is that of the share of the time since the reading of
\* the round before that was spent at work, whatever reloads came between and
\* even when a counter wraps.  Time taken back from iowait makes the share too
\* large, above the whole if more was taken back than added; only when it cancels
\* all of the time does the usage become 0.0, and a busy CPU look idle.
CpuLevelIsBusyShare ==
    pc = "memory" =>
        LET whole == spent.work + spent.idle
            share == IF whole > 0 /\ spent.work > 0
                     THEN [part |-> spent.work, whole |-> whole]
                     ELSE [part |-> 0, whole |-> 1]
        IN  level["cpu"] = EvaluatePercentage(share, thresholds)

=============================================================================
