--------------------------- MODULE ProcessMonitor ---------------------------
(***************************************************************************)
(* The monitored processes: src/process_monitor.c, monitor_process_once of *)
(* src/main.c and the parts of the main loop that drive it, against an     *)
(* operating system that starts and ends processes, and reuses their PIDs, *)
(* between any two reads of /proc.                                         *)
(*                                                                         *)
(* monitor_process_once is cut where it reads /proc: looking a name up,    *)
(* reading /proc/<pid>/status, reading /proc/<pid>/stat, then comparing    *)
(* availability.  A process whose status cannot be read (it ended, is a    *)
(* zombie without VmRSS, the open failed) is simply not read: any read may *)
(* fail.                                                                   *)
(***************************************************************************)
EXTENDS AlertLevels, Sequences, FiniteSets

CONSTANTS Names,           \* program names (the Name: line of status)
          None,            \* no name: an unnamed target, a free PID
          Pids,            \* PIDs the operating system hands out
          SelfPid,         \* EdgeSentinel's own PID
          SelfName,        \* and its own name, which no target asks for
          Configs,         \* configurations a (re)load may produce
          MemorySamples,   \* levels a memory reading may evaluate to
          CpuSamples       \* levels a CPU reading may evaluate to

MAX_MONITORED_PROCESSES == 8

\* One entry of process_names, process_name, or process_pid (0: itself).
Targets == [name : Names \cup {None}, pid : Pids \cup {0}]

ASSUME PidAssumption == Pids \subseteq Nat \ {0} /\ SelfPid \in Pids
ASSUME NameAssumption == None \notin Names \cup {SelfName}
ASSUME SampleAssumption ==
    MemorySamples \subseteq Levels /\ CpuSamples \subseteq Levels

\* config_load and config_validate only let through 1 to 8 names, or one target
\* given by its PID: the names are all there or all absent.
ASSUME ConfigAssumption ==
    /\ Configs # {}
    /\ \A c \in Configs :
          /\ c \in Seq(Targets)
          /\ Len(c) \in 1 .. MAX_MONITORED_PROCESSES
          /\ Len(c) > 1 => \A i \in DOMAIN c : c[i].name # None

VARIABLES
    os,       \* os[p]: name of the process that has PID p, None if it is free
    config,   \* the targets of the configuration in force
    mon,      \* mon[i]: MonitoredProcess i, the fields that decide something
    pc,       \* what the daemon does next
    cur,      \* process_index of the loop over the targets
    out,      \* the change the last step logged (and notified, of a level)
    hist      \* history of each target, for the properties only

vars == <<os, config, mon, pc, cur, out, hist>>

-----------------------------------------------------------------------------
(* MonitoredProcess                                                        *)

\* monitored_process_init: everything is zero but the PID.
Blank(pid) ==
    [current_pid |-> pid, available |-> 0,
     previous_available |-> 0, availability_initialized |-> FALSE,
     cpu_usage_valid |-> FALSE, cpu_sample_initialized |-> FALSE,
     previous_cpu_level |-> NORMAL, cpu_level_initialized |-> FALSE,
     previous_memory_level |-> NORMAL, memory_level_initialized |-> FALSE]

\* monitored_process_reset_runtime_state: everything but the identity.
ResetRuntimeState(m) == Blank(m.current_pid)

\* Faults: the reset forgets the levels, or the sample, but not all of it.
ResetCpuLevelOnly(m) ==
    [m EXCEPT !.cpu_usage_valid = FALSE,
              !.previous_cpu_level = NORMAL, !.cpu_level_initialized = FALSE]
ResetCpuSampleOnly(m) == [m EXCEPT !.cpu_sample_initialized = FALSE]

\* monitored_process_reset_cpu_sampling.
ResetCpuSampling(m) ==
    [m EXCEPT !.cpu_sample_initialized = FALSE, !.cpu_usage_valid = FALSE,
              !.previous_cpu_level = NORMAL, !.cpu_level_initialized = FALSE]

TargetName(i) == config[i].name
Named(i) == TargetName(i) # None

\* Fault: the loop over the targets runs one too far.
OnePastLast(i) == i > Len(config)

\* The target the loops end on; active_process points at it afterwards.
LastTarget(i) == i = Len(config)

Holders(name) == {p \in Pids : os[p] = name}

-----------------------------------------------------------------------------
(* What the program says of a change: a log record, and for a level, then, *)
(* a notification.  Whether the notification arrives changes nothing here. *)

Metrics == {"memory", "cpu", "availability"}

NoReport == [target |-> 0, metric |-> "none", from |-> NORMAL, to |-> NORMAL]

Report(i, metric, from, to) ==
    [target |-> i, metric |-> metric, from |-> from, to |-> to]

-----------------------------------------------------------------------------
(* History, which no action of the program reads:                          *)
(*   lost     - current_pid was found unavailable since it was adopted     *)
(*   unbroken - the PID sampled last, 0 once a read of it failed since     *)
(*   word     - the availability the log last spoke of, NoLevel if none    *)

NoLevel == -1

NewHistory == [lost |-> FALSE, unbroken |-> 0, word |-> NoLevel]

Missed(h, pid) == [h EXCEPT !.lost = @ \/ pid # 0, !.unbroken = 0]

-----------------------------------------------------------------------------
(* The operating system.                                                   *)

Spawn(p, name) ==
    /\ os[p] = None
    /\ os' = [os EXCEPT ![p] = name]
    /\ UNCHANGED <<config, mon, pc, cur, out, hist>>

Exit(p) ==
    /\ os[p] # None
    /\ p # SelfPid
    /\ os' = [os EXCEPT ![p] = None]
    /\ UNCHANGED <<config, mon, pc, cur, out, hist>>

OS == \E p \in Pids : Exit(p) \/ \E name \in Names : Spawn(p, name)

-----------------------------------------------------------------------------
(* Start and reload: both look every name up and start from a blank        *)
(* record.  A lookup may miss a process that is there (it cannot open      *)
(* /proc or the status file); with several processes of one name it takes  *)
(* any of them.                                                            *)

InitialPids(target) ==
    IF target.name # None THEN Holders(target.name) \cup {0}
    ELSE IF target.pid = 0 THEN {SelfPid}
    ELSE {target.pid}

InitialPidsOf(c) ==
    {pids \in [DOMAIN c -> Pids \cup {0}] :
        \A i \in DOMAIN c : pids[i] \in InitialPids(c[i])}

Init ==
    /\ os \in [Pids -> Names \cup {None, SelfName}]
    /\ \A p \in Pids : os[p] = SelfName <=> p = SelfPid
    /\ config \in Configs
    /\ \E pids \in InitialPidsOf(config) :
          mon = [i \in DOMAIN config |-> Blank(pids[i])]
    /\ hist = [i \in DOMAIN config |-> NewHistory]
    /\ pc = "idle" /\ cur = 1 /\ out = NoReport

\* sleep returns and no reload is pending: the round starts.
StartRound ==
    /\ pc = "idle"
    /\ pc' = "find" /\ cur' = 1 /\ out' = NoReport
    /\ UNCHANGED <<os, config, mon, hist>>

\* sleep returns with reload_requested set and the new configuration is good:
\* it replaces the old one, every target starts anew, and the round follows.
Reload ==
    /\ pc = "idle"
    /\ \E c \in Configs : \E pids \in InitialPidsOf(c) :
          /\ config' = c
          /\ mon' = [i \in DOMAIN c |-> Blank(pids[i])]
          /\ hist' = [i \in DOMAIN c |-> NewHistory]
    /\ pc' = "find" /\ cur' = 1 /\ out' = NoReport
    /\ UNCHANGED os

\* sleep returns with keep_running cleared.
Stop ==
    /\ pc = "idle"
    /\ pc' = "stopped" /\ out' = NoReport
    /\ UNCHANGED <<os, config, mon, cur, hist>>

-----------------------------------------------------------------------------
(* monitor_process_once: looking the name up.                              *)

Searching(i) == Named(i) /\ mon[i].current_pid = 0

LookupFinds(i) ==
    /\ pc = "find"
    /\ Searching(i)
    /\ \E p \in Holders(TargetName(i)) :
          mon' = [mon EXCEPT
                    ![i] = ResetRuntimeState([@ EXCEPT !.current_pid = p])]
    /\ hist' = [hist EXCEPT ![i].lost = FALSE, ![i].unbroken = 0]
    /\ pc' = "read" /\ out' = NoReport
    /\ UNCHANGED <<os, config, cur>>

LookupMisses(i) ==
    /\ pc = "find"
    /\ pc' = "read" /\ out' = NoReport
    /\ UNCHANGED <<os, config, mon, cur, hist>>

-----------------------------------------------------------------------------
(* monitor_process_once: reading status, comparing the memory level.       *)

\* Every stream of a target: the first level is kept, a later one that
\* differs is logged and notified.
Differs(initialized, previous, level) == initialized /\ level # previous

ReportIfDiffers(i, metric, initialized, previous, level) ==
    IF Differs(initialized, previous, level)
    THEN Report(i, metric, previous, level)
    ELSE NoReport

StatusFails(i) ==
    /\ pc = "read"
    /\ mon' = [mon EXCEPT ![i].available = 0]
    /\ hist' = [hist EXCEPT ![i] = Missed(@, mon[i].current_pid)]
    /\ pc' = "cpu" /\ out' = NoReport
    /\ UNCHANGED <<os, config, cur>>

StatusReadable(i) ==
    /\ pc = "read"
    /\ mon[i].current_pid # 0
    /\ os[mon[i].current_pid] # None

\* Fault: the level that was reported does not become the previous one.
MemoryAfterStale(m, level) ==
    [m EXCEPT !.available = 1,
              !.previous_memory_level =
                  IF m.memory_level_initialized THEN @ ELSE level,
              !.memory_level_initialized = TRUE]

MemoryAfter(m, level) ==
    [m EXCEPT !.available = 1, !.previous_memory_level = level,
              !.memory_level_initialized = TRUE]

StatusRead(i) ==
    /\ StatusReadable(i)
    /\ \E level \in MemorySamples :
          /\ mon' = [mon EXCEPT ![i] = MemoryAfter(@, level)]
          /\ out' = ReportIfDiffers(i, "memory", mon[i].memory_level_initialized,
                                   mon[i].previous_memory_level, level)
    /\ pc' = "cpu"
    /\ UNCHANGED <<os, config, cur, hist>>

\* logger_write fails: nothing is notified, main returns 1.
StatusNotLogged(i) ==
    /\ StatusReadable(i)
    /\ \E level \in MemorySamples :
          Differs(mon[i].memory_level_initialized,
                  mon[i].previous_memory_level, level)
    /\ mon' = [mon EXCEPT ![i].available = 1]
    /\ pc' = "failed" /\ out' = NoReport
    /\ UNCHANGED <<os, config, cur, hist>>

-----------------------------------------------------------------------------
(* monitor_process_once: sampling the CPU time.                            *)

\* An unavailable target loses its CPU sample, and its memory level stays.
CpuUnavailable(i) ==
    /\ pc = "cpu"
    /\ mon[i].available = 0
    /\ mon' = [mon EXCEPT ![i] = ResetCpuSampling(@)]
    /\ pc' = "availability" /\ out' = NoReport
    /\ UNCHANGED <<os, config, cur, hist>>

\* The process ended after its status was read: both streams start over.
CpuFails(i) ==
    /\ pc = "cpu"
    /\ mon[i].available = 1
    /\ mon' = [mon EXCEPT ![i] = [ResetCpuSampling(@) EXCEPT
                                    !.memory_level_initialized = FALSE]]
    /\ hist' = [hist EXCEPT ![i].unbroken = 0]
    /\ pc' = "availability" /\ out' = NoReport
    /\ UNCHANGED <<os, config, cur>>

CpuReadable(i) ==
    /\ pc = "cpu"
    /\ mon[i].available = 1
    /\ os[mon[i].current_pid] # None

\* The sample becomes the base of the next one, whatever came of it.
Sampled(m) ==
    [m EXCEPT !.cpu_usage_valid = FALSE, !.cpu_sample_initialized = TRUE]

\* The first sample, or two samples that give no usage: the ticks went down
\* (the PID belongs to a younger process) or no time has passed.
CpuBase(i) ==
    /\ CpuReadable(i)
    /\ mon' = [mon EXCEPT ![i] = Sampled(@)]
    /\ hist' = [hist EXCEPT ![i].unbroken = mon[i].current_pid]
    /\ pc' = "availability" /\ out' = NoReport
    /\ UNCHANGED <<os, config, cur>>

CpuUsage(i) ==
    /\ CpuReadable(i)
    /\ mon[i].cpu_sample_initialized
    /\ \E level \in CpuSamples :
          /\ mon' = [mon EXCEPT
                       ![i] = [Sampled(@) EXCEPT !.cpu_usage_valid = TRUE,
                                 !.previous_cpu_level = level,
                                 !.cpu_level_initialized = TRUE]]
          /\ out' = ReportIfDiffers(i, "cpu", mon[i].cpu_level_initialized,
                                   mon[i].previous_cpu_level, level)
    /\ hist' = [hist EXCEPT ![i].unbroken = mon[i].current_pid]
    /\ pc' = "availability"
    /\ UNCHANGED <<os, config, cur>>

\* The clock cannot be read: main returns 1.
ClockFails(i) ==
    /\ CpuReadable(i)
    /\ mon' = [mon EXCEPT ![i].cpu_usage_valid = FALSE]
    /\ pc' = "failed" /\ out' = NoReport
    /\ UNCHANGED <<os, config, cur, hist>>

CpuNotLogged(i) ==
    /\ CpuReadable(i)
    /\ mon[i].cpu_sample_initialized
    /\ \E level \in CpuSamples :
          Differs(mon[i].cpu_level_initialized, mon[i].previous_cpu_level, level)
    /\ mon' = [mon EXCEPT ![i].cpu_usage_valid = TRUE]
    /\ pc' = "failed" /\ out' = NoReport
    /\ UNCHANGED <<os, config, cur, hist>>

-----------------------------------------------------------------------------
(* monitor_process_once: comparing availability; the end of the loop.      *)

AfterTarget(i) ==
    IF LastTarget(i)
    THEN pc' = "system" /\ UNCHANGED cur
    ELSE pc' = "find" /\ cur' = i + 1

AvailabilityChanged(i) ==
    Differs(mon[i].availability_initialized, mon[i].previous_available,
            mon[i].available)

\* Fault: only the first availability is kept.
AvailabilityAfterFirst(m) ==
    [m EXCEPT !.previous_available =
                  IF m.availability_initialized THEN @ ELSE m.available,
              !.availability_initialized = TRUE]

AvailabilityAfter(m) ==
    [m EXCEPT !.previous_available = m.available,
              !.availability_initialized = TRUE]

Availability(i) ==
    /\ pc = "availability"
    /\ mon' = [mon EXCEPT ![i] = AvailabilityAfter(@)]
    /\ out' = ReportIfDiffers(i, "availability",
                 mon[i].availability_initialized, mon[i].previous_available,
                 mon[i].available)
    /\ hist' = [hist EXCEPT ![i].word =
                   IF AvailabilityChanged(i) THEN mon[i].available ELSE @]
    /\ AfterTarget(i)
    /\ UNCHANGED <<os, config>>

AvailabilityNotLogged(i) ==
    /\ pc = "availability"
    /\ AvailabilityChanged(i)
    /\ pc' = "failed" /\ out' = NoReport
    /\ UNCHANGED <<os, config, mon, cur, hist>>

-----------------------------------------------------------------------------
(* The rest of the round.                                                  *)

\* cpu_sample_state of output_print_json, and the words of the text output.
CpuSampleState(m) ==
    IF m.cpu_usage_valid THEN "valid"
    ELSE IF m.cpu_sample_initialized THEN "collecting"
    ELSE "unavailable"

\* Fault: the PID is dropped whether the process is available or not.
DropsPid(i) == Named(i)

\* Fault: the PID of a process that ended is kept.
KeepsPid(i) == FALSE

\* The test of the main loop after the output is printed.  It names
\* config.process_name, which every configuration by name sets.
LosesPid(i) == Named(i) /\ mon[i].available = 0

\* After the system's part of the round, only active_process, the target the
\* loops ended on, may lose its PID.
EndRound ==
    /\ pc = "system"
    /\ LET last == Len(config)
       IN  mon' = IF LosesPid(last)
                  THEN [mon EXCEPT ![last].current_pid = 0]
                  ELSE mon
    /\ pc' = "idle" /\ out' = NoReport
    /\ UNCHANGED <<os, config, cur, hist>>

\* A read, a log record or the output of the system's part fails.
SystemFails ==
    /\ pc = "system"
    /\ pc' = "failed" /\ out' = NoReport
    /\ UNCHANGED <<os, config, mon, cur, hist>>

MonitorProcessOnce(i) ==
    \/ LookupFinds(i) \/ LookupMisses(i)
    \/ StatusFails(i) \/ StatusRead(i) \/ StatusNotLogged(i)
    \/ CpuUnavailable(i) \/ CpuFails(i) \/ CpuBase(i)
    \/ CpuUsage(i) \/ CpuNotLogged(i) \/ ClockFails(i)
    \/ Availability(i) \/ AvailabilityNotLogged(i)

Daemon ==
    \/ StartRound \/ Reload \/ Stop
    \/ MonitorProcessOnce(cur)
    \/ EndRound \/ SystemFails

Next == OS \/ Daemon

Spec == Init /\ [][Next]_vars

-----------------------------------------------------------------------------
(* Fairness: the daemon is scheduled, and for each target neither a lookup *)
(* of a program that is there nor a read of a process that is there fails  *)
(* for ever.                                                               *)

Indices == UNION {DOMAIN c : c \in Configs}

Fairness ==
    /\ WF_vars(Daemon)
    /\ \A i \in Indices : /\ SF_vars(i = cur /\ LookupFinds(i))
                          /\ SF_vars(i = cur /\ StatusRead(i))

FairSpec == Spec /\ Fairness

-----------------------------------------------------------------------------
(* Properties.                                                             *)

MonitoredProcess ==
    [current_pid : Pids \cup {0}, available : {0, 1},
     previous_available : {0, 1}, availability_initialized : BOOLEAN,
     cpu_usage_valid : BOOLEAN, cpu_sample_initialized : BOOLEAN,
     previous_cpu_level : Levels, cpu_level_initialized : BOOLEAN,
     previous_memory_level : Levels, memory_level_initialized : BOOLEAN]

History == [lost : BOOLEAN, unbroken : Pids \cup {0}, word : {NoLevel, 0, 1}]

Reports == [target : Indices, metric : Metrics, from : Levels, to : Levels]

\* Type invariant: the values of the variables, one record and one history
\* for each target of the configuration in force, an index inside it.
TypeOK ==
    /\ os \in [Pids -> Names \cup {None, SelfName}]
    /\ config \in Configs
    /\ mon \in [DOMAIN config -> MonitoredProcess]
    /\ hist \in [DOMAIN config -> History]
    /\ pc \in {"idle", "find", "read", "cpu", "availability", "system",
              "stopped", "failed"}
    /\ cur \in DOMAIN config
    /\ out \in Reports \cup {NoReport}

AboutToReset(i) == pc = "cpu" /\ i = cur /\ mon[i].available = 0

\* A CPU sample kept for the next comparison was taken from the PID the
\* target has now, and every read of that PID has succeeded since: ticks are
\* never subtracted across a gap or between two PIDs (README: a target that
\* changes restarts its CPU sampling).  Only between the failed read and the
\* step that drops the sample may an unavailable target still hold one.
CpuSampleUnbroken ==
    \A i \in DOMAIN mon :
        mon[i].cpu_sample_initialized /\ ~ AboutToReset(i)
            => /\ mon[i].current_pid # 0
               /\ hist[i].unbroken = mon[i].current_pid

\* What a round prints of a target is of that round: a target found unavailable
\* is shown neither with a usage nor as collecting one, and a target shown
\* without either keeps no CPU level for the next change to be told from.
UsageShownIsOfThisRound ==
    pc = "system" =>
        \A i \in DOMAIN mon :
            LET shown == CpuSampleState(mon[i])
            IN  /\ shown # "unavailable" => mon[i].available = 1
                /\ shown = "unavailable" => ~ mon[i].cpu_level_initialized

\* The last target by name, once found unavailable, is only ever reported
\* available again under a PID looked up by name since: it never takes over
\* another program that was given the PID of the one that ended.
LastTargetLooksUpAgain ==
    LET last == Len(config)
    IN  Named(last) /\ mon[last].available = 1 => ~ hist[last].lost

\* The log tells the truth about every target that is not looked up again:
\* at the end of a round, if it has spoken of a target's availability, its
\* last word is the availability just observed.
AvailabilityLogAccurate ==
    pc \in {"system", "idle"} =>
        \A i \in DOMAIN mon :
            (Named(i) => ~ LastTarget(i)) /\ hist[i].word # NoLevel
                => hist[i].word = mon[i].available

\* Within a round a target gives up its PID only for none at all, only when
\* it is watched by name, and only after it was found unavailable.
AttachedUntilLost ==
    [][pc # "idle" =>
         \A i \in DOMAIN mon :
             mon[i].current_pid \notin {0, mon'[i].current_pid}
                 => /\ mon'[i].current_pid = 0
                    /\ Named(i) /\ mon[i].available = 0]_vars

\* The memory, CPU and availability of a target each implement AlertStream:
\* the first level after start, reload, lookup or reset is silent, and every
\* record and notification goes from the level last told to a different one.
Known(initialized, previous) == IF initialized THEN previous ELSE NoLevel

KnownLevel(i, metric) ==
    IF i \notin DOMAIN mon THEN NoLevel
    ELSE IF metric = "memory"
    THEN Known(mon[i].memory_level_initialized, mon[i].previous_memory_level)
    ELSE IF metric = "cpu"
    THEN Known(mon[i].cpu_level_initialized, mon[i].previous_cpu_level)
    ELSE Known(mon[i].availability_initialized, mon[i].previous_available)

Told(i, metric) ==
    IF out.target = i /\ out.metric = metric
    THEN [from |-> out.from, to |-> out.to]
    ELSE [from |-> NoLevel, to |-> NoLevel]

Stream == INSTANCE AlertStream
    WITH Streams <- Indices \X Metrics, StreamLevels <- Levels,
         Unknown <- NoLevel,
         known <- [s \in Indices \X Metrics |-> KnownLevel(s[1], s[2])],
         event <- [s \in Indices \X Metrics |-> Told(s[1], s[2])]

StreamsImplemented == Stream!Spec

\* The last target by name is found: as long as its program keeps running
\* somewhere, and the targets are no longer reloaded, it is found available
\* again and again, unless the daemon ends.
Watching(name) == TargetName(Len(config)) = name /\ Holders(name) # {}

LastTargetFound ==
    \A name \in Names :
        <>[] Watching(name) /\ <>[][~ Reload]_vars
            => []<>(pc \in {"stopped", "failed"} \/ mon[Len(config)].available = 1)

\* README: a target by name that ends goes back to being looked up.
EveryTargetLooksUpAgain ==
    pc = "idle" =>
        \A i \in DOMAIN mon :
            Named(i) /\ mon[i].availability_initialized /\ mon[i].available = 0
                => mon[i].current_pid = 0

\* README: the log records the changes of availability of a process, so that
\* its last word on a target is the availability just observed.
LogTellsAvailability ==
    pc = "idle" =>
        \A i \in DOMAIN mon :
            hist[i].word # NoLevel => hist[i].word = mon[i].available

=============================================================================
