---------------------------- MODULE SystemAlerts ----------------------------
(***************************************************************************)
(* The system's part of a round of the main loop of src/main.c: sampling   *)
(* the CPU, the memory and the disk, comparing their levels and that of    *)
(* the whole system with the previous ones, notifying, logging, and the    *)
(* record of the measurements every LOG_INTERVAL_SAMPLES rounds.           *)
(*                                                                         *)
(* A sample is the level it evaluates to under the thresholds in force.  A *)
(* change of metric is notified (if the configuration says so) and its     *)
(* level replaced, whatever becomes of the notification; a change of the   *)
(* system's status is logged, and the daemon ends if that fails.           *)
(***************************************************************************)
EXTENDS AlertLevels

CONSTANT Samples      \* Samples[m]: levels a sample of metric m may evaluate to

LOG_INTERVAL_SAMPLES == 10

Metrics == {"cpu", "memory", "disk"}
Streams == Metrics \cup {"system"}

ASSUME SampleAssumption == Samples \in [Metrics -> SUBSET Levels]

VARIABLES
    level,              \* level[m]: of the last sample of metric m
    previous,           \* previous[s]: level stream s was last compared with
    initialized,        \* initialized[s]: previous[s] is a level
    log_sample_counter,
    pc,                 \* what the daemon does next
    out,                \* the change the last step notified or logged
    hist                \* history, for the properties only

vars == <<level, previous, initialized, log_sample_counter, pc, out, hist>>

NoReport == [stream |-> "none", from |-> NORMAL, to |-> NORMAL]

Report(s, from, to) == [stream |-> s, from |-> from, to |-> to]

NoLevel == -1
NoLevels == [m \in Metrics |-> NoLevel]

\* History, which no action of the program reads:
\*   changed - the changes of metrics notified in this round
\*   since   - rounds since the start or the last record of the measurements
\*   last    - the levels of the round before, if the configuration was the same
Init ==
    /\ level = [m \in Metrics |-> NORMAL]
    /\ previous = [s \in Streams |-> NORMAL]
    /\ initialized = [s \in Streams |-> FALSE]
    /\ log_sample_counter = 0
    /\ pc = "idle" /\ out = NoReport
    /\ hist = [changed |-> {}, since |-> 0, last |-> NoLevels]

StartRound ==
    /\ pc = "idle"
    /\ pc' = "cpu" /\ out' = NoReport
    /\ hist' = [hist EXCEPT !.changed = {}]
    /\ UNCHANGED <<level, previous, initialized, log_sample_counter>>

\* Faults: the metrics start over and the system's status does not, the disk
\* alone does not, or the counter starts over with them.
ForgetsMetricsOnly == [initialized EXCEPT !["cpu"] = FALSE,
                                          !["memory"] = FALSE, !["disk"] = FALSE]
ForgetsAllButDisk == [s \in Streams |-> s = "disk" /\ initialized[s]]
CounterStartsOver == 0

InitializedAfterReload == [s \in Streams |-> FALSE]
CounterAfterReload == log_sample_counter

\* A successful reload: new thresholds, nothing to compare with.
Reload ==
    /\ pc = "idle"
    /\ initialized' = InitializedAfterReload
    /\ log_sample_counter' = CounterAfterReload
    /\ pc' = "cpu" /\ out' = NoReport
    /\ hist' = [hist EXCEPT !.changed = {}, !.last = NoLevels]
    /\ UNCHANGED <<level, previous>>

Stop ==
    /\ pc = "idle"
    /\ pc' = "stopped" /\ out' = NoReport
    /\ UNCHANGED <<level, previous, initialized, log_sample_counter, hist>>

-----------------------------------------------------------------------------
(* One metric, the same code for the three of them.                        *)

Differs(s, new) == initialized[s] /\ new # previous[s]

After(m) == CASE m = "cpu" -> "memory" [] m = "memory" -> "disk"
              [] m = "disk" -> "system"

\* Fault: only the first level is kept.
KeepsFirst(s, new) == IF initialized[s] THEN previous[s] ELSE new

PreviousAfter(s, new) == new

Sample(m) ==
    /\ pc = m
    /\ \E new \in Samples[m] :
          /\ level' = [level EXCEPT ![m] = new]
          /\ previous' = [previous EXCEPT ![m] = PreviousAfter(m, new)]
          /\ out' = IF Differs(m, new) THEN Report(m, previous[m], new)
                    ELSE NoReport
          /\ hist' = IF Differs(m, new)
                     THEN [hist EXCEPT !.changed =
                             @ \cup {Report(m, previous[m], new)}]
                     ELSE hist
    /\ initialized' = [initialized EXCEPT ![m] = TRUE]
    /\ pc' = After(m)
    /\ UNCHANGED log_sample_counter

-----------------------------------------------------------------------------
(* The status of the system.                                               *)

\* Fault: the disk is left out.
WithoutDisk == HigherLevel(level["cpu"], level["memory"])

SystemLevel == HigherLevel(HigherLevel(level["cpu"], level["memory"]), level["disk"])

SystemStatus ==
    /\ pc = "system"
    /\ previous' = [previous EXCEPT !["system"] = SystemLevel]
    /\ initialized' = [initialized EXCEPT !["system"] = TRUE]
    /\ out' = IF Differs("system", SystemLevel)
              THEN Report("system", previous["system"], SystemLevel)
              ELSE NoReport
    /\ pc' = "count"
    /\ UNCHANGED <<level, log_sample_counter, hist>>

\* Fault: one round too many.
DueLate(count) == count > LOG_INTERVAL_SAMPLES

Due(count) == count >= LOG_INTERVAL_SAMPLES

CountSample ==
    /\ pc = "count"
    /\ LET count == log_sample_counter + 1
       IN  /\ log_sample_counter' = IF Due(count) THEN 0 ELSE count
           /\ hist' = [hist EXCEPT !.since = IF Due(count) THEN 0 ELSE @ + 1]
    /\ pc' = "print" /\ out' = NoReport
    /\ UNCHANGED <<level, previous, initialized>>

EndRound ==
    /\ pc = "print"
    /\ pc' = "idle" /\ out' = NoReport
    /\ hist' = [hist EXCEPT !.last = level]
    /\ UNCHANGED <<level, previous, initialized, log_sample_counter>>

\* main returns 1: a reading or its evaluation, a record or the output fails.
\* What the step had already stored is never used again.
Fails ==
    /\ pc \in Metrics \cup {"system", "count", "print"}
    /\ pc' = "failed" /\ out' = NoReport
    /\ UNCHANGED <<level, previous, initialized, log_sample_counter, hist>>

Next ==
    \/ StartRound \/ Reload \/ Stop
    \/ \E m \in Metrics : Sample(m)
    \/ SystemStatus \/ CountSample \/ EndRound \/ Fails

Spec == Init /\ [][Next]_vars

-----------------------------------------------------------------------------
(* Properties.                                                             *)

Reports(ss) == [stream : ss, from : Levels, to : Levels]

\* Type invariant.
TypeOK ==
    /\ level \in [Metrics -> Levels] /\ previous \in [Streams -> Levels]
    /\ initialized \in [Streams -> BOOLEAN]
    /\ log_sample_counter \in 0 .. LOG_INTERVAL_SAMPLES - 1
    /\ pc \in Metrics \cup {"idle", "system", "count", "print", "stopped",
                           "failed"}
    /\ out \in Reports(Streams) \cup {NoReport}
    /\ hist \in [changed : SUBSET Reports(Metrics), since : Nat,
                 last : [Metrics -> Levels \cup {NoLevel}]]

\* Between rounds, the status the log last spoke of, if there is one, is the
\* highest of the levels last notified: log and notifications tell one story.
StatusIsHighestNotified ==
    pc = "idle" /\ initialized["system"] =>
        /\ \A m \in Metrics :
              initialized[m] /\ previous[m] <= previous["system"]
        /\ \E m \in Metrics : previous[m] = previous["system"]

\* A logged change of status is explained by a notified change of metric of the
\* same round: one that rose to the new status, or one that fell from the old.
\* In particular new thresholds alone, after a reload, change nothing.
StatusChangeExplained ==
    out.stream = "system" =>
        \E c \in hist.changed :
            IF out.to > out.from THEN c.to = out.to ELSE c.from = out.from

\* The highest of one level for each metric.
Highest(f) == HigherLevel(HigherLevel(f["cpu"], f["memory"]), f["disk"])

\* The changes of some metrics since the round before.
Changes(ms) ==
    {Report(m, hist.last[m], level[m]) :
        m \in {n \in ms : hist.last[n] \notin {NoLevel, level[n]}}}

\* A round tells exactly what changed since the round before it: each metric of
\* which the level is another one, and the status if the highest level is. After
\* a reload there is no such round, and none of the four is compared with a level
\* of the thresholds that were in force before.
TellsWhatTheRoundChanged ==
    pc = "count" =>
        /\ hist.changed = Changes(Metrics)
        /\ out.stream = "system" <=>
              hist.last # NoLevels /\ Highest(hist.last) # Highest(level)

\* The measurements are recorded at least every LOG_INTERVAL_SAMPLES rounds,
\* however many reloads come between.
RecordedRegularly == pc = "idle" => hist.since < LOG_INTERVAL_SAMPLES

\* The metrics and the status each implement AlertStream.
Known(s) == IF initialized[s] THEN previous[s] ELSE NoLevel

Told(s) ==
    IF out.stream = s THEN [from |-> out.from, to |-> out.to]
    ELSE [from |-> NoLevel, to |-> NoLevel]

Stream == INSTANCE AlertStream
    WITH Streams <- Streams, StreamLevels <- Levels, Unknown <- NoLevel,
         known <- [s \in Streams |-> Known(s)],
         event <- [s \in Streams |-> Told(s)]

StreamsImplemented == Stream!Spec

=============================================================================
