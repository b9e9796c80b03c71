------------------------ MODULE ProcessMonitor_proofs ------------------------
(***************************************************************************)
(* Proofs about ProcessMonitor, for any number of targets up to 8, any     *)
(* names, PIDs and configurations.                                         *)
(***************************************************************************)
EXTENDS ProcessMonitor, TLAPS

\* A target whose availability is never looked up again under a new PID.
Sticky(i) == ~ (Named(i) /\ LastTarget(i))

\* The target the loop is at, between its lookup and its availability.
Underway(i) == i = cur /\ pc \in {"find", "read", "cpu", "availability"}

\* An available target has a PID; an unavailable one has no sample and shows
\* no usage; a level comes with the sample it was computed from.
SampleInv(i) ==
    /\ mon[i].available = 1 => mon[i].current_pid # 0
    /\ mon[i].available = 0 /\ ~ AboutToReset(i)
          => ~ mon[i].cpu_sample_initialized /\ ~ mon[i].cpu_usage_valid
    /\ mon[i].cpu_level_initialized => mon[i].cpu_sample_initialized
    /\ mon[i].cpu_sample_initialized /\ ~ AboutToReset(i)
          => hist[i].unbroken = mon[i].current_pid

\* A PID found unavailable is held by the last target by name only until the
\* round ends, and is unavailable for the rest of it.
LostInv(i) ==
    ~ Sticky(i) /\ hist[i].lost /\ mon[i].current_pid # 0
        => /\ mon[i].available = 0
           /\ \/ i = cur /\ pc \in {"cpu", "availability"}
              \/ pc \in {"system", "failed"}

\* The word of the log on a sticky target is the availability it remembers,
\* which outside its own steps is the one it has.
WordInv(i) ==
    Sticky(i) =>
        /\ hist[i].word # NoLevel => /\ mon[i].availability_initialized
                                     /\ hist[i].word = mon[i].previous_available
        /\ mon[i].availability_initialized /\ ~ Underway(i) /\ pc # "failed"
              => mon[i].previous_available = mon[i].available
        /\ mon[i].current_pid = 0 => /\ hist[i].word = NoLevel
                                     /\ mon[i].previous_available = 0
                                     /\ mon[i].available = 0

TargetInv(i) == SampleInv(i) /\ LostInv(i) /\ WordInv(i)

IInv == TypeOK /\ \A i \in DOMAIN mon : TargetInv(i)

-----------------------------------------------------------------------------
(* The configurations, the records and the steps.                          *)

\* The indices of a configuration are 1 to the number of its targets, and
\* there is at least one: main always monitors something.
LEMMA ConfigDomain ==
    ASSUME NEW c \in Configs
    PROVE  /\ DOMAIN c = 1 .. Len(c)
           /\ Len(c) \in Nat \ {0}
           /\ 1 \in DOMAIN c /\ Len(c) \in DOMAIN c
           /\ DOMAIN c \subseteq Indices /\ Indices \subseteq Nat \ {0}
           /\ \A i \in DOMAIN c : c[i] \in Targets
<1>1. \A d \in Configs : /\ d \in Seq(Targets)
                         /\ Len(d) \in 1 .. 8
  BY ConfigAssumption DEF MAX_MONITORED_PROCESSES
<1>2. \A d \in Configs : DOMAIN d = 1 .. Len(d) /\ DOMAIN d \subseteq Nat \ {0}
  BY <1>1
<1>3. DOMAIN c \subseteq Indices /\ Indices \subseteq Nat \ {0}
  BY <1>2 DEF Indices
<1> QED BY <1>1, <1>2, <1>3

\* The PIDs a start or a reload begins with are PIDs or none, and the records
\* it makes are well typed.
LEMMA BlankType == \A p \in Pids \cup {0} : Blank(p) \in MonitoredProcess
BY DEF Blank, MonitoredProcess, Levels, NORMAL

LEMMA NewHistoryType == NewHistory \in History
BY DEF NewHistory, History

\* What a target reports is a well-typed report of that target.
LEMMA ReportType ==
    ASSUME NEW i \in Indices, NEW metric \in Metrics, NEW initialized,
           NEW previous \in Levels, NEW level \in Levels
    PROVE  ReportIfDiffers(i, metric, initialized, previous, level)
              \in Reports \cup {NoReport}
BY DEF ReportIfDiffers, Report, Reports

-----------------------------------------------------------------------------
(* Types.                                                                  *)

LEMMA TypeInit == Init => TypeOK
<1> SUFFICES ASSUME Init PROVE TypeOK
  OBVIOUS
<1>1. config \in Configs /\ 1 \in DOMAIN config
  BY ConfigDomain DEF Init
<1>2. mon \in [DOMAIN config -> MonitoredProcess]
  BY BlankType DEF Init, InitialPidsOf
<1>3. hist \in [DOMAIN config -> History]
  BY NewHistoryType DEF Init
<1> QED BY <1>1, <1>2, <1>3 DEF Init, TypeOK

\* A step of a monitored target keeps the types.
LEMMA TypeTarget ==
    ASSUME TypeOK, MonitorProcessOnce(cur)
    PROVE  TypeOK'
<1> DEFINE i == cur
<1>0. /\ config \in Configs /\ i \in DOMAIN config /\ i \in Indices
      /\ mon[i] \in MonitoredProcess /\ hist[i] \in History
  BY ConfigDomain DEF TypeOK
<1>1. CASE LookupFinds(i)
  <2>1. PICK p \in Pids :
           mon' = [mon EXCEPT ![i] = Blank([mon[i] EXCEPT !.current_pid = p].current_pid)]
    BY <1>1 DEF LookupFinds, Holders, ResetRuntimeState
  <2>2. [mon[i] EXCEPT !.current_pid = p].current_pid = p
    BY <1>0 DEF MonitoredProcess
  <2>3. mon' \in [DOMAIN config -> MonitoredProcess]
    BY <2>1, <2>2, <1>0, BlankType DEF TypeOK
  <2>4. hist' \in [DOMAIN config -> History]
    BY <1>1, <1>0 DEF LookupFinds, TypeOK, History
  <2> QED BY <1>1, <2>3, <2>4 DEF LookupFinds, TypeOK
<1>2. CASE LookupMisses(i)
  BY <1>2 DEF LookupMisses, TypeOK
<1>3. CASE StatusFails(i)
  BY <1>3, <1>0 DEF StatusFails, TypeOK, MonitoredProcess, History, Missed
<1>4. CASE StatusRead(i)
  <2>1. PICK level \in MemorySamples :
          /\ mon' = [mon EXCEPT ![i] = MemoryAfter(@, level)]
          /\ out' = ReportIfDiffers(i, "memory", mon[i].memory_level_initialized,
                                   mon[i].previous_memory_level, level)
    BY <1>4 DEF StatusRead
  <2>2. level \in Levels /\ mon[i].previous_memory_level \in Levels
    BY <1>0, SampleAssumption DEF MonitoredProcess
  <2>3. out' \in Reports \cup {NoReport}
    BY <2>1, <2>2, <1>0, ReportType DEF Metrics
  <2>4. mon' \in [DOMAIN config -> MonitoredProcess]
    BY <2>1, <2>2, <1>0 DEF MemoryAfter, TypeOK, MonitoredProcess
  <2> QED BY <1>4, <2>3, <2>4 DEF StatusRead, TypeOK
<1>5. CASE StatusNotLogged(i)
  BY <1>5, <1>0 DEF StatusNotLogged, TypeOK, MonitoredProcess
<1>6. CASE CpuUnavailable(i)
  BY <1>6, <1>0 DEF CpuUnavailable, ResetCpuSampling, TypeOK, MonitoredProcess,
                    Levels, NORMAL
<1>7. CASE CpuFails(i)
  BY <1>7, <1>0 DEF CpuFails, ResetCpuSampling, TypeOK, MonitoredProcess,
                    History, Levels, NORMAL
<1>8. CASE CpuBase(i)
  BY <1>8, <1>0 DEF CpuBase, Sampled, TypeOK, MonitoredProcess, History
<1>9. CASE CpuUsage(i)
  <2>1. PICK level \in CpuSamples :
          /\ mon' = [mon EXCEPT
                       ![i] = [Sampled(@) EXCEPT !.cpu_usage_valid = TRUE,
                                 !.previous_cpu_level = level,
                                 !.cpu_level_initialized = TRUE]]
          /\ out' = ReportIfDiffers(i, "cpu", mon[i].cpu_level_initialized,
                                   mon[i].previous_cpu_level, level)
    BY <1>9 DEF CpuUsage
  <2>2. level \in Levels /\ mon[i].previous_cpu_level \in Levels
    BY <1>0, SampleAssumption DEF MonitoredProcess
  <2>3. out' \in Reports \cup {NoReport}
    BY <2>1, <2>2, <1>0, ReportType DEF Metrics
  <2>4. mon' \in [DOMAIN config -> MonitoredProcess]
    BY <2>1, <2>2, <1>0 DEF Sampled, TypeOK, MonitoredProcess
  <2>5. hist' \in [DOMAIN config -> History]
    BY <1>9, <1>0 DEF CpuUsage, TypeOK, History, MonitoredProcess
  <2> QED BY <1>9, <2>3, <2>4, <2>5 DEF CpuUsage, TypeOK
<1>10. CASE CpuNotLogged(i)
  BY <1>10, <1>0 DEF CpuNotLogged, TypeOK, MonitoredProcess
<1>11. CASE Availability(i)
  <2>1. out' \in Reports \cup {NoReport}
    <3>1. mon[i].previous_available \in Levels /\ mon[i].available \in Levels
      BY <1>0 DEF MonitoredProcess, Levels, NORMAL, WARNING, CRITICAL
    <3> QED BY <1>11, <1>0, <3>1, ReportType DEF Availability, Metrics
  <2>2. mon' \in [DOMAIN config -> MonitoredProcess]
    BY <1>11, <1>0 DEF Availability, AvailabilityAfter, TypeOK, MonitoredProcess
  <2>3. hist' \in [DOMAIN config -> History]
    BY <1>11, <1>0 DEF Availability, TypeOK, History, MonitoredProcess
  <2>4. cur' \in DOMAIN config /\ pc' \in {"system", "find"}
    BY <1>11, <1>0, ConfigDomain DEF Availability, AfterTarget, LastTarget
  <2> QED BY <1>11, <2>1, <2>2, <2>3, <2>4 DEF Availability, TypeOK
<1>12. CASE AvailabilityNotLogged(i)
  BY <1>12 DEF AvailabilityNotLogged, TypeOK
<1>13. CASE ClockFails(i)
  BY <1>13, <1>0 DEF ClockFails, TypeOK, MonitoredProcess
<1> QED BY <1>1, <1>2, <1>3, <1>4, <1>5, <1>6, <1>7, <1>8, <1>9, <1>10, <1>11,
           <1>12, <1>13 DEF MonitorProcessOnce

LEMMA TypeNext == TypeOK /\ [Next]_vars => TypeOK'
<1> SUFFICES ASSUME TypeOK, [Next]_vars PROVE TypeOK'
  OBVIOUS
<1>1. CASE OS
  BY <1>1 DEF OS, Exit, Spawn, TypeOK
<1>2. CASE StartRound
  BY <1>2, ConfigDomain DEF StartRound, TypeOK
<1>3. CASE Reload
  <2>0. PICK c \in Configs : \E pids \in InitialPidsOf(c) :
          /\ config' = c
          /\ mon' = [i \in DOMAIN c |-> Blank(pids[i])]
          /\ hist' = [i \in DOMAIN c |-> NewHistory]
    BY <1>3 DEF Reload
  <2>1. PICK pids \in InitialPidsOf(c) :
          /\ config' = c
          /\ mon' = [i \in DOMAIN c |-> Blank(pids[i])]
          /\ hist' = [i \in DOMAIN c |-> NewHistory]
    BY <2>0
  <2>2. mon' \in [DOMAIN config' -> MonitoredProcess]
    BY <2>1, BlankType DEF InitialPidsOf
  <2>3. hist' \in [DOMAIN config' -> History]
    BY <2>1, NewHistoryType
  <2>4. config' \in Configs /\ 1 \in DOMAIN config'
    BY <2>1, ConfigDomain
  <2> QED BY <1>3, <2>2, <2>3, <2>4 DEF Reload, TypeOK
<1>4. CASE Stop
  BY <1>4 DEF Stop, TypeOK
<1>5. CASE MonitorProcessOnce(cur)
  BY <1>5, TypeTarget
<1>6. CASE EndRound
  <2>1. /\ Len(config) \in DOMAIN config
        /\ mon[Len(config)] \in MonitoredProcess
    BY ConfigDomain DEF TypeOK
  <2>2. [mon[Len(config)] EXCEPT !.current_pid = 0] \in MonitoredProcess
    BY <2>1 DEF MonitoredProcess
  <2>3. mon' \in [DOMAIN config -> MonitoredProcess]
    BY <1>6, <2>1, <2>2 DEF EndRound, TypeOK
  <2> QED BY <1>6, <2>3 DEF EndRound, TypeOK
<1>7. CASE SystemFails
  BY <1>7 DEF SystemFails, TypeOK
<1>8. CASE UNCHANGED vars
  BY <1>8 DEF vars, TypeOK
<1> QED BY <1>1, <1>2, <1>3, <1>4, <1>5, <1>6, <1>7, <1>8 DEF Next, Daemon

\* The variables keep their types: one record per target, an index inside the
\* configuration in force even across a reload that shrinks it.
THEOREM TypeCorrect == Spec => []TypeOK
<1>1. Init => TypeOK
  BY TypeInit
<1>2. TypeOK /\ [Next]_vars => TypeOK'
  BY TypeNext
<1> QED BY <1>1, <1>2, PTL DEF Spec

-----------------------------------------------------------------------------
(* The inductive invariant.                                                *)

\* A fresh record with a fresh history satisfies the invariant.
LEMMA FreshTarget ==
    ASSUME NEW i \in DOMAIN mon', NEW p \in Pids \cup {0},
           mon'[i] = Blank(p), hist'[i] = NewHistory
    PROVE  TargetInv(i)'
BY DEF Blank, NewHistory, TargetInv, SampleInv, LostInv, WordInv, AboutToReset

LEMMA IInvInit == Init => IInv
<1> SUFFICES ASSUME Init PROVE IInv
  OBVIOUS
<1>1. TypeOK
  BY TypeInit
<1>2. ASSUME NEW i \in DOMAIN mon PROVE TargetInv(i)
  <2>1. \E p \in Pids \cup {0} : mon[i] = Blank(p)
    BY <1>2 DEF Init, InitialPidsOf
  <2>2. hist[i] = NewHistory
    BY <1>2 DEF Init
  <2> QED BY <2>1, <2>2 DEF Blank, NewHistory, TargetInv, SampleInv, LostInv,
             WordInv, AboutToReset
<1> QED BY <1>1, <1>2 DEF IInv

\* A step of the current target leaves the others as they were.
LEMMA Others ==
    ASSUME IInv, NEW j \in DOMAIN mon, j # cur,
           mon'[j] = mon[j], hist'[j] = hist[j], config' = config,
           pc \in {"find", "read", "cpu", "availability"},
           pc' \in {"find", "read", "cpu", "availability", "system", "failed"},
           cur' = cur \/ pc' = "find"
    PROVE  TargetInv(j)'
<1>1. TargetInv(j)
  BY DEF IInv
<1>2. SampleInv(j)'
  BY <1>1 DEF TargetInv, SampleInv, AboutToReset
<1>3. LostInv(j)'
  BY <1>1 DEF TargetInv, LostInv, Sticky, Named, TargetName, LastTarget
<1>4. WordInv(j)'
  BY <1>1 DEF TargetInv, WordInv, Sticky, Named, TargetName, LastTarget, Underway
<1> QED BY <1>2, <1>3, <1>4 DEF TargetInv

\* What a step of the current target does to the rest of the state.
LEMMA Frame ==
    ASSUME TypeOK, MonitorProcessOnce(cur)
    PROVE  /\ config' = config
           /\ pc \in {"find", "read", "cpu", "availability"}
           /\ pc' \in {"find", "read", "cpu", "availability", "system", "failed"}
           /\ cur' = cur \/ pc' = "find"
           /\ DOMAIN mon' = DOMAIN mon
           /\ \A j \in DOMAIN mon : j # cur => mon'[j] = mon[j] /\ hist'[j] = hist[j]
<1>1. mon \in [DOMAIN config -> MonitoredProcess] /\ hist \in [DOMAIN config -> History]
  BY DEF TypeOK
<1> QED
  BY <1>1 DEF MonitorProcessOnce, LookupFinds, LookupMisses, StatusFails,
     StatusRead, StatusReadable, StatusNotLogged, CpuUnavailable, CpuFails,
     CpuReadable, CpuBase, CpuUsage, CpuNotLogged, ClockFails, Availability, AfterTarget,
     AvailabilityNotLogged

\* What it does to the current target itself.
LEMMA CurrentTarget ==
    ASSUME IInv, NEW i \in DOMAIN mon, i = cur, MonitorProcessOnce(i)
    PROVE  TargetInv(i)'
<1>0. /\ i \in DOMAIN config
      /\ mon[i] \in MonitoredProcess /\ hist[i] \in History
      /\ hist \in [DOMAIN config -> History]
      /\ mon \in [DOMAIN config -> MonitoredProcess]
      /\ TargetInv(i) /\ config' = config
  BY Frame DEF IInv, TypeOK
<1>s. Sticky(i)' = Sticky(i)
  BY <1>0 DEF Sticky, Named, TargetName, LastTarget
<1> USE <1>0, <1>s
<1>1. CASE LookupFinds(i)
  <2>1. /\ \E p \in Pids : mon'[i] = Blank(p)
        /\ hist'[i] = [hist[i] EXCEPT !.lost = FALSE, !.unbroken = 0]
        /\ mon[i].current_pid = 0 /\ pc' = "read" /\ cur' = i
    <3>1. \A p : [mon[i] EXCEPT !.current_pid = p].current_pid = p
      BY DEF MonitoredProcess
    <3> QED BY <1>1, <3>1 DEF LookupFinds, Searching, Holders, ResetRuntimeState
  <2>2. SampleInv(i)' /\ LostInv(i)'
    BY <2>1, PidAssumption DEF Blank, SampleInv, LostInv, AboutToReset, History
  <2>3. WordInv(i)'
    BY <2>1 DEF Blank, TargetInv, WordInv, Underway, History
  <2> QED BY <2>2, <2>3 DEF TargetInv
<1>2. CASE LookupMisses(i)
  <2>1. mon'[i] = mon[i] /\ hist'[i] = hist[i] /\ pc = "find" /\ pc' = "read"
    BY <1>2 DEF LookupMisses
  <2> QED BY <2>1, <1>2 DEF LookupMisses, TargetInv, SampleInv, LostInv, WordInv,
             AboutToReset, Underway
<1>3. CASE StatusFails(i)
  <2>1. /\ mon'[i] = [mon[i] EXCEPT !.available = 0]
        /\ hist'[i] = Missed(hist[i], mon[i].current_pid)
        /\ pc = "read" /\ pc' = "cpu" /\ cur' = i
    BY <1>3 DEF StatusFails
  <2>2. SampleInv(i)'
    BY <2>1 DEF TargetInv, SampleInv, AboutToReset, MonitoredProcess
  <2>3. LostInv(i)'
    BY <2>1 DEF LostInv, MonitoredProcess
  <2>4. WordInv(i)'
    BY <2>1 DEF TargetInv, WordInv, Underway, MonitoredProcess, History, Missed
  <2> QED BY <2>2, <2>3, <2>4 DEF TargetInv
<1>4. ASSUME NEW level \in MemorySamples, StatusReadable(i),
             mon'[i] = MemoryAfter(mon[i], level), hist'[i] = hist[i],
             pc' = "cpu", cur' = i
      PROVE  TargetInv(i)'
  <2>1. mon[i].current_pid # 0 /\ pc = "read"
    BY <1>4 DEF StatusReadable
  <2>2. SampleInv(i)'
    BY <1>4, <2>1 DEF TargetInv, SampleInv, AboutToReset, MonitoredProcess, MemoryAfter
  <2>3. LostInv(i)'
    BY <1>4, <2>1 DEF TargetInv, LostInv, MonitoredProcess, MemoryAfter
  <2>4. WordInv(i)'
    BY <1>4, <2>1 DEF TargetInv, WordInv, Underway, MonitoredProcess, MemoryAfter
  <2> QED BY <2>2, <2>3, <2>4 DEF TargetInv
<1>5. CASE StatusNotLogged(i)
  <2>1. /\ mon'[i] = [mon[i] EXCEPT !.available = 1] /\ hist'[i] = hist[i]
        /\ mon[i].current_pid # 0 /\ pc = "read" /\ pc' = "failed" /\ cur' = i
    BY <1>5 DEF StatusNotLogged, StatusReadable
  <2>2. SampleInv(i)'
    BY <2>1 DEF TargetInv, SampleInv, AboutToReset, MonitoredProcess
  <2>3. LostInv(i)'
    BY <2>1 DEF TargetInv, LostInv, MonitoredProcess
  <2>4. WordInv(i)'
    BY <2>1 DEF TargetInv, WordInv, Underway, MonitoredProcess
  <2> QED BY <2>2, <2>3, <2>4 DEF TargetInv
<1>6. CASE CpuUnavailable(i)
  <2>1. /\ mon'[i] = ResetCpuSampling(mon[i]) /\ hist'[i] = hist[i]
        /\ mon[i].available = 0
        /\ pc = "cpu" /\ pc' = "availability" /\ cur' = i
    BY <1>6 DEF CpuUnavailable
  <2>2. SampleInv(i)'
    BY <2>1 DEF TargetInv, SampleInv, AboutToReset, MonitoredProcess, ResetCpuSampling
  <2>3. LostInv(i)'
    BY <2>1 DEF TargetInv, LostInv, MonitoredProcess, ResetCpuSampling
  <2>4. WordInv(i)'
    BY <2>1 DEF TargetInv, WordInv, Underway, MonitoredProcess, ResetCpuSampling
  <2> QED BY <2>2, <2>3, <2>4 DEF TargetInv
<1>7. CASE CpuFails(i)
  <2>1. /\ mon'[i] = [ResetCpuSampling(mon[i]) EXCEPT
                        !.memory_level_initialized = FALSE]
        /\ hist'[i] = [hist[i] EXCEPT !.unbroken = 0]
        /\ mon[i].available = 1
        /\ pc = "cpu" /\ pc' = "availability" /\ cur' = i
    BY <1>7 DEF CpuFails
  <2>2. SampleInv(i)'
    BY <2>1 DEF TargetInv, SampleInv, AboutToReset, MonitoredProcess, ResetCpuSampling
  <2>3. LostInv(i)'
    BY <2>1 DEF TargetInv, LostInv, MonitoredProcess, ResetCpuSampling, History
  <2>4. WordInv(i)'
    BY <2>1 DEF TargetInv, WordInv, Underway, MonitoredProcess, ResetCpuSampling, History
  <2> QED BY <2>2, <2>3, <2>4 DEF TargetInv
<1>8. ASSUME NEW m \in MonitoredProcess, CpuReadable(i), mon'[i] = m,
             m.current_pid = mon[i].current_pid, m.available = 1,
             m.previous_available = mon[i].previous_available,
             m.availability_initialized = mon[i].availability_initialized,
             m.cpu_level_initialized => m.cpu_sample_initialized,
             hist'[i] = [hist[i] EXCEPT !.unbroken = mon[i].current_pid],
             pc' = "availability", cur' = i
      PROVE  TargetInv(i)'
  <2>1. mon[i].available = 1 /\ pc = "cpu" /\ mon[i].current_pid # 0
    BY <1>8 DEF CpuReadable, TargetInv, SampleInv
  <2>2. SampleInv(i)'
    BY <1>8, <2>1 DEF SampleInv, AboutToReset, History
  <2>3. LostInv(i)'
    BY <1>8, <2>1 DEF TargetInv, LostInv, History
  <2>4. WordInv(i)'
    BY <1>8, <2>1 DEF TargetInv, WordInv, Underway, History
  <2> QED BY <2>2, <2>3, <2>4 DEF TargetInv
<1>9. CASE CpuNotLogged(i)
  <2>1. /\ mon'[i] = [mon[i] EXCEPT !.cpu_usage_valid = TRUE] /\ hist'[i] = hist[i]
        /\ mon[i].available = 1 /\ pc = "cpu" /\ pc' = "failed" /\ cur' = i
    BY <1>9 DEF CpuNotLogged, CpuReadable
  <2>2. SampleInv(i)'
    BY <2>1 DEF TargetInv, SampleInv, AboutToReset, MonitoredProcess
  <2>3. LostInv(i)'
    BY <2>1 DEF TargetInv, LostInv, MonitoredProcess
  <2>4. WordInv(i)'
    BY <2>1 DEF TargetInv, WordInv, Underway, MonitoredProcess
  <2> QED BY <2>2, <2>3, <2>4 DEF TargetInv
<1>10. CASE Availability(i)
  <2>1. /\ mon'[i] = AvailabilityAfter(mon[i])
        /\ hist'[i] = [hist[i] EXCEPT !.word =
                          IF AvailabilityChanged(i) THEN mon[i].available ELSE @]
        /\ pc = "availability" /\ pc' \in {"system", "find"}
        /\ LastTarget(i) => pc' = "system"
    BY <1>10 DEF Availability, AfterTarget
  <2>2. SampleInv(i)'
    BY <2>1 DEF TargetInv, SampleInv, AboutToReset, MonitoredProcess,
       AvailabilityAfter, History
  <2>3. LostInv(i)'
    BY <2>1 DEF TargetInv, LostInv, Sticky, MonitoredProcess, AvailabilityAfter, History
  <2>4. WordInv(i)'
    <3>1. hist'[i].word = IF AvailabilityChanged(i) THEN mon[i].available
                          ELSE hist[i].word
      BY <2>1 DEF History
    <3>2. /\ mon'[i].previous_available = mon[i].available
          /\ mon'[i].available = mon[i].available
          /\ mon'[i].availability_initialized = TRUE
          /\ mon'[i].current_pid = mon[i].current_pid
      BY <2>1 DEF AvailabilityAfter, MonitoredProcess
    <3> QED BY <3>1, <3>2 DEF TargetInv, WordInv, AvailabilityChanged, Differs
  <2> QED BY <2>2, <2>3, <2>4 DEF TargetInv
<1>11. CASE AvailabilityNotLogged(i)
  <2>1. /\ mon'[i] = mon[i] /\ hist'[i] = hist[i]
        /\ pc = "availability" /\ pc' = "failed" /\ cur' = i
    BY <1>11 DEF AvailabilityNotLogged
  <2> QED BY <2>1 DEF TargetInv, SampleInv, LostInv, WordInv, AboutToReset, Underway
<1>12. CASE StatusRead(i)
  <2>1. PICK level \in MemorySamples : mon' = [mon EXCEPT ![i] = MemoryAfter(@, level)]
    BY <1>12 DEF StatusRead
  <2> QED BY <1>12, <2>1, <1>4 DEF StatusRead
<1>13. CASE CpuBase(i)
  <2>1. Sampled(mon[i]) \in MonitoredProcess
    BY DEF Sampled, MonitoredProcess
  <2>2. mon[i].available = 1
    BY <1>13 DEF CpuBase, CpuReadable
  <2>3. /\ Sampled(mon[i]).current_pid = mon[i].current_pid
        /\ Sampled(mon[i]).available = 1
        /\ Sampled(mon[i]).previous_available = mon[i].previous_available
        /\ Sampled(mon[i]).availability_initialized = mon[i].availability_initialized
        /\ Sampled(mon[i]).cpu_sample_initialized
    BY <2>2 DEF Sampled, MonitoredProcess
  <2> QED BY <1>13, <2>1, <2>3, <1>8 DEF CpuBase
<1>14. CASE CpuUsage(i)
  <2>1. PICK level \in CpuSamples :
          mon' = [mon EXCEPT ![i] = [Sampled(@) EXCEPT
                    !.cpu_usage_valid = TRUE, !.previous_cpu_level = level,
                    !.cpu_level_initialized = TRUE]]
    BY <1>14 DEF CpuUsage
  <2> DEFINE m == [Sampled(mon[i]) EXCEPT
                    !.cpu_usage_valid = TRUE, !.previous_cpu_level = level,
                    !.cpu_level_initialized = TRUE]
  <2>2. mon'[i] = m /\ level \in Levels /\ mon[i].available = 1
    BY <2>1, <1>14, SampleAssumption DEF CpuUsage, CpuReadable
  <2>3. m \in MonitoredProcess
    BY <2>2 DEF Sampled, MonitoredProcess
  <2>4. /\ m.current_pid = mon[i].current_pid /\ m.available = 1
        /\ m.previous_available = mon[i].previous_available
        /\ m.availability_initialized = mon[i].availability_initialized
        /\ m.cpu_sample_initialized
    BY <2>2 DEF Sampled, MonitoredProcess
  <2> HIDE DEF m
  <2> QED BY <1>14, <2>2, <2>3, <2>4, <1>8 DEF CpuUsage
<1>15. CASE ClockFails(i)
  <2>1. /\ mon'[i] = [mon[i] EXCEPT !.cpu_usage_valid = FALSE] /\ hist'[i] = hist[i]
        /\ mon[i].available = 1 /\ pc = "cpu" /\ pc' = "failed" /\ cur' = i
    BY <1>15 DEF ClockFails, CpuReadable
  <2>2. SampleInv(i)'
    BY <2>1 DEF TargetInv, SampleInv, AboutToReset, MonitoredProcess
  <2>3. LostInv(i)'
    BY <2>1 DEF TargetInv, LostInv, MonitoredProcess
  <2>4. WordInv(i)'
    BY <2>1 DEF TargetInv, WordInv, Underway, MonitoredProcess
  <2> QED BY <2>2, <2>3, <2>4 DEF TargetInv
<1> QED BY <1>1, <1>2, <1>3, <1>5, <1>6, <1>7, <1>9, <1>10, <1>11, <1>12, <1>13,
           <1>14, <1>15 DEF MonitorProcessOnce

LEMMA IInvNext == IInv /\ [Next]_vars => IInv'
<1> SUFFICES ASSUME IInv, [Next]_vars PROVE IInv'
  OBVIOUS
<1>0. TypeOK /\ TypeOK'
  BY TypeNext DEF IInv
<1>1. CASE MonitorProcessOnce(cur)
  <2>1. cur \in DOMAIN mon /\ DOMAIN mon' = DOMAIN mon
    BY <1>0, <1>1, Frame DEF TypeOK
  <2>2. ASSUME NEW j \in DOMAIN mon, j = cur PROVE TargetInv(j)'
    BY <1>1, <2>2, CurrentTarget
  <2>3. ASSUME NEW j \in DOMAIN mon, j # cur PROVE TargetInv(j)'
    BY <1>0, <1>1, <2>3, Frame, Others
  <2> QED BY <1>0, <2>1, <2>2, <2>3 DEF IInv
<1>2. CASE Reload
  <2>1. ASSUME NEW j \in DOMAIN mon' PROVE TargetInv(j)'
    <3>1. \E p \in Pids \cup {0} : mon'[j] = Blank(p)
      BY <1>2 DEF Reload, InitialPidsOf
    <3>2. hist'[j] = NewHistory
      BY <1>2 DEF Reload
    <3> QED BY <3>1, <3>2, FreshTarget
  <2> QED BY <1>0, <2>1 DEF IInv
<1>3. CASE EndRound
  <2> DEFINE last == Len(config)
  <2>1. /\ last \in DOMAIN mon /\ mon \in [DOMAIN config -> MonitoredProcess]
        /\ hist' = hist /\ config' = config /\ cur' = cur
        /\ pc = "system" /\ pc' = "idle"
    BY <1>0, <1>3, ConfigDomain DEF EndRound, TypeOK
  <2>2. ASSUME NEW j \in DOMAIN mon' PROVE TargetInv(j)'
    <3>1. j \in DOMAIN mon /\ TargetInv(j) /\ mon[j] \in MonitoredProcess
      BY <1>3, <2>1, <2>2 DEF EndRound, IInv
    <3>2. CASE mon'[j] = mon[j] /\ ~ (j = last /\ LosesPid(last))
      <4>1. LostInv(j)'
        <5>1. CASE Sticky(j)
          BY <5>1, <2>1 DEF LostInv, Sticky, Named, TargetName, LastTarget
        <5>2. CASE ~ Sticky(j)
          BY <5>2, <2>1, <3>1, <3>2 DEF TargetInv, LostInv, Sticky, LosesPid, Named,
             TargetName, LastTarget
        <5> QED BY <5>1, <5>2
      <4>2. SampleInv(j)' /\ WordInv(j)'
        BY <2>1, <3>1, <3>2 DEF TargetInv, SampleInv, WordInv, AboutToReset,
           Underway, Sticky, Named, TargetName, LastTarget
      <4> QED BY <4>1, <4>2 DEF TargetInv
    <3>3. CASE j = last /\ LosesPid(last)
      <4>1. /\ mon'[j] = [mon[j] EXCEPT !.current_pid = 0]
            /\ mon[j].available = 0 /\ ~ Sticky(j) /\ ~ Sticky(j)'
        BY <1>3, <2>1, <3>1, <3>3 DEF EndRound, LosesPid, Sticky, Named, TargetName,
           LastTarget
      <4>2. SampleInv(j)'
        BY <2>1, <3>1, <4>1 DEF TargetInv, SampleInv, AboutToReset, MonitoredProcess
      <4>3. LostInv(j)' /\ WordInv(j)'
        BY <3>1, <4>1 DEF LostInv, WordInv, MonitoredProcess
      <4> QED BY <4>2, <4>3 DEF TargetInv
    <3> QED BY <1>3, <2>1, <3>1, <3>2, <3>3 DEF EndRound
  <2> QED BY <1>0, <2>2 DEF IInv
<1>4. ASSUME UNCHANGED <<mon, hist, config, cur>>,
             \/ UNCHANGED pc
             \/ pc = "idle" /\ pc' = "stopped"
             \/ pc = "system" /\ pc' = "failed"
      PROVE  IInv'
  <2>1. ASSUME NEW j \in DOMAIN mon' PROVE TargetInv(j)'
    <3>1. TargetInv(j)
      BY <1>4, <2>1 DEF IInv
    <3>2. SampleInv(j)'
      BY <1>4, <3>1 DEF TargetInv, SampleInv, AboutToReset
    <3>3. LostInv(j)'
      BY <1>4, <3>1 DEF TargetInv, LostInv, Sticky, Named, TargetName, LastTarget
    <3>4. WordInv(j)'
      BY <1>4, <3>1 DEF TargetInv, WordInv, Underway, Sticky, Named, TargetName,
         LastTarget
    <3> QED BY <3>2, <3>3, <3>4 DEF TargetInv
  <2> QED BY <1>0, <2>1 DEF IInv
<1>5. CASE StartRound
  <2>1. ASSUME NEW j \in DOMAIN mon' PROVE TargetInv(j)'
    BY <1>5, <2>1 DEF StartRound, IInv, TargetInv, SampleInv, LostInv, WordInv,
       AboutToReset, Underway, Sticky, Named, TargetName, LastTarget
  <2> QED BY <1>0, <2>1 DEF IInv
<1>6. CASE Stop \/ SystemFails
  BY <1>4, <1>6 DEF Stop, SystemFails
<1>7. CASE OS \/ UNCHANGED vars
  BY <1>4, <1>7 DEF OS, Exit, Spawn, vars
<1> QED BY <1>1, <1>2, <1>3, <1>5, <1>6, <1>7 DEF Next, Daemon

LEMMA Inductive == Spec => []IInv
<1> QED BY IInvInit, IInvNext, PTL DEF Spec

-----------------------------------------------------------------------------
(* The invariants the runs check follow from the inductive one.            *)

\* Ticks are never subtracted across a failed read or between two PIDs.
THEOREM SampleUnbroken == Spec => []CpuSampleUnbroken
<1>1. IInv => CpuSampleUnbroken
  <2> SUFFICES ASSUME IInv, NEW i \in DOMAIN mon,
                      mon[i].cpu_sample_initialized, ~ AboutToReset(i)
               PROVE  mon[i].current_pid # 0 /\ hist[i].unbroken = mon[i].current_pid
    BY DEF CpuSampleUnbroken
  <2>1. SampleInv(i) /\ mon[i] \in MonitoredProcess
    BY DEF IInv, TargetInv, TypeOK
  <2> QED BY <2>1 DEF SampleInv, MonitoredProcess
<1> QED BY <1>1, Inductive, PTL

\* What a round prints of a target's CPU is of that round.
THEOREM UsageShown == Spec => []UsageShownIsOfThisRound
<1>1. IInv => UsageShownIsOfThisRound
  <2> SUFFICES ASSUME IInv, pc = "system", NEW i \in DOMAIN mon
               PROVE  /\ CpuSampleState(mon[i]) # "unavailable" => mon[i].available = 1
                      /\ CpuSampleState(mon[i]) = "unavailable"
                            => ~ mon[i].cpu_level_initialized
    BY DEF UsageShownIsOfThisRound
  <2>1. SampleInv(i) /\ mon[i] \in MonitoredProcess
    BY DEF IInv, TargetInv, TypeOK
  <2>2. mon[i].available = 0 => ~ mon[i].cpu_sample_initialized /\ ~ mon[i].cpu_usage_valid
    BY <2>1 DEF SampleInv, AboutToReset
  <2>3. mon[i].cpu_level_initialized => mon[i].cpu_sample_initialized
    BY <2>1 DEF SampleInv
  <2>4. mon[i].available \in {0, 1}
    BY <2>1 DEF MonitoredProcess
  <2> QED BY <2>2, <2>3, <2>4 DEF CpuSampleState
<1> QED BY <1>1, Inductive, PTL

\* The last target by name never takes over the program that was given the
\* PID of the one that ended.
THEOREM LastLooksUp == Spec => []LastTargetLooksUpAgain
<1>1. IInv => LastTargetLooksUpAgain
  <2>1. ASSUME IInv PROVE Len(config) \in DOMAIN mon
    BY <2>1, ConfigDomain DEF IInv, TypeOK
  <2> QED BY <2>1 DEF IInv, TargetInv, SampleInv, LostInv, Sticky, LastTarget,
             LastTargetLooksUpAgain
<1> QED BY <1>1, Inductive, PTL

\* The log's last word on a target that is never looked up again is true.
THEOREM LogAccurate == Spec => []AvailabilityLogAccurate
<1>1. IInv => AvailabilityLogAccurate
  BY DEF IInv, TargetInv, WordInv, Sticky, Underway, AvailabilityLogAccurate
<1> QED BY <1>1, Inductive, PTL

\* A PID is given up only after its process was found unavailable.
THEOREM Attached == Spec => AttachedUntilLost
<1> DEFINE A == pc # "idle" =>
         \A i \in DOMAIN mon :
             mon[i].current_pid \notin {0, mon'[i].current_pid}
                 => /\ mon'[i].current_pid = 0
                    /\ Named(i) /\ mon[i].available = 0
<1>1. IInv /\ [Next]_vars => [A]_vars
  <2> SUFFICES ASSUME IInv, Next, pc # "idle", NEW i \in DOMAIN mon,
                      mon[i].current_pid \notin {0, mon'[i].current_pid}
               PROVE  mon'[i].current_pid = 0 /\ Named(i) /\ mon[i].available = 0
    OBVIOUS
  <2>0. /\ mon \in [DOMAIN config -> MonitoredProcess] /\ mon[i] \in MonitoredProcess
        /\ TypeOK
    BY DEF IInv, TypeOK
  <2>1. CASE OS \/ StartRound \/ Stop \/ SystemFails \/ Reload
    BY <2>1 DEF OS, Exit, Spawn, StartRound, Stop, SystemFails, Reload
  <2>2. CASE MonitorProcessOnce(cur)
    <3>1. i = cur
      BY <2>0, <2>2, Frame
    <3>2. ~ LookupFinds(i) /\ ~ LookupMisses(i) /\ ~ AvailabilityNotLogged(i)
      BY <3>1 DEF LookupFinds, LookupMisses, AvailabilityNotLogged, Searching
    <3>3. ~ StatusFails(i) /\ ~ StatusRead(i) /\ ~ StatusNotLogged(i)
      <4>1. /\ [mon[i] EXCEPT !.available = 0].current_pid = mon[i].current_pid
            /\ [mon[i] EXCEPT !.available = 1].current_pid = mon[i].current_pid
        BY <2>0 DEF MonitoredProcess
      <4>2. \A level \in MemorySamples :
               MemoryAfter(mon[i], level).current_pid = mon[i].current_pid
        BY <2>0 DEF MemoryAfter, MonitoredProcess
      <4>3. ~ StatusFails(i) /\ ~ StatusNotLogged(i)
        BY <2>0, <3>1, <4>1 DEF StatusFails, StatusNotLogged
      <4>4. ~ StatusRead(i)
        BY <2>0, <3>1, <4>2 DEF StatusRead
      <4> QED BY <4>3, <4>4
    <3>4. ~ CpuUnavailable(i) /\ ~ CpuFails(i)
      <4>1. ResetCpuSampling(mon[i]).current_pid = mon[i].current_pid
        BY <2>0 DEF ResetCpuSampling, MonitoredProcess
      <4>2. [ResetCpuSampling(mon[i]) EXCEPT !.memory_level_initialized = FALSE].current_pid
               = mon[i].current_pid
        BY <2>0 DEF ResetCpuSampling, MonitoredProcess
      <4> QED BY <2>0, <3>1, <4>1, <4>2 DEF CpuUnavailable, CpuFails
    <3>5. ~ CpuBase(i) /\ ~ CpuUsage(i)
      <4>1. Sampled(mon[i]).current_pid = mon[i].current_pid
        BY <2>0 DEF Sampled, MonitoredProcess
      <4>2. \A level \in CpuSamples :
              [Sampled(mon[i]) EXCEPT !.cpu_usage_valid = TRUE,
                 !.previous_cpu_level = level,
                 !.cpu_level_initialized = TRUE].current_pid = mon[i].current_pid
        BY <2>0 DEF Sampled, MonitoredProcess
      <4> QED BY <2>0, <3>1, <4>1, <4>2 DEF CpuBase, CpuUsage
    <3>6. ~ CpuNotLogged(i) /\ ~ ClockFails(i) /\ ~ Availability(i)
      <4>1. AvailabilityAfter(mon[i]).current_pid = mon[i].current_pid
        BY <2>0 DEF AvailabilityAfter, MonitoredProcess
      <4>2. \A valid \in BOOLEAN :
               [mon[i] EXCEPT !.cpu_usage_valid = valid].current_pid
                  = mon[i].current_pid
        BY <2>0 DEF MonitoredProcess
      <4> QED BY <2>0, <3>1, <4>1, <4>2 DEF CpuNotLogged, ClockFails, Availability
    <3> QED BY <2>2, <3>1, <3>2, <3>3, <3>4, <3>5, <3>6 DEF MonitorProcessOnce
  <2>3. CASE EndRound
    BY <2>0, <2>3 DEF EndRound, LosesPid, MonitoredProcess
  <2> QED BY <2>1, <2>2, <2>3 DEF Next, Daemon
<1>2. [][IInv /\ IInv' /\ [Next]_vars]_vars => [][A]_vars
  BY <1>1, PTL
<1> QED BY <1>1, Inductive, PTL DEF Spec, AttachedUntilLost

-----------------------------------------------------------------------------
(* The streams of the targets implement AlertStream.  Moves says that one  *)
(* stream makes one of the four moves AlertStream allows.                  *)

Silence == [from |-> NoLevel, to |-> NoLevel]

Moves(j, metric) ==
    \/ KnownLevel(j, metric)' = NoLevel /\ Told(j, metric)' = Silence
    \/ KnownLevel(j, metric)' = KnownLevel(j, metric) /\ Told(j, metric)' = Silence
    \/ /\ KnownLevel(j, metric) = NoLevel /\ KnownLevel(j, metric)' \in Levels
       /\ Told(j, metric)' = Silence
    \/ /\ KnownLevel(j, metric) # NoLevel
       /\ KnownLevel(j, metric)' \in Levels \ {KnownLevel(j, metric)}
       /\ Told(j, metric)' = [from |-> KnownLevel(j, metric),
                              to |-> KnownLevel(j, metric)']

LEMMA MovesSuffice ==
    ASSUME \A j \in Indices, metric \in Metrics : Moves(j, metric)
    PROVE  Stream!Next
<1> DEFINE S == Indices \X Metrics
           known == [s \in S |-> KnownLevel(s[1], s[2])]
           event == [s \in S |-> Told(s[1], s[2])]
<1>1. ASSUME NEW s \in S
      PROVE  /\ known[s] = KnownLevel(s[1], s[2])
             /\ known'[s] = KnownLevel(s[1], s[2])'
             /\ event'[s] = Told(s[1], s[2])'
             /\ Moves(s[1], s[2])
  OBVIOUS
<1>2. DOMAIN known' = S /\ DOMAIN event' = S
  OBVIOUS
<1> HIDE DEF known, event
<1>3. ASSUME NEW s \in S
      PROVE  \/ known'[s] = NoLevel /\ event'[s] = Silence
             \/ known'[s] = known[s] /\ event'[s] = Silence
             \/ known[s] = NoLevel /\ known'[s] \in Levels /\ event'[s] = Silence
             \/ /\ known[s] # NoLevel /\ known'[s] \in Levels \ {known[s]}
                /\ event'[s] = [from |-> known[s], to |-> known'[s]]
  BY <1>1, <1>3 DEF Moves
<1> QED
  BY <1>2, <1>3 DEF Stream!Next, Stream!Establish, Stream!Change, Stream!Forget,
     Stream!Quiet, Stream!Silent, Silence, known, event

\* A step that reports nothing tells no stream anything.
LEMMA NothingTold ==
    ASSUME out' = NoReport, NEW j \in Indices, NEW metric \in Metrics
    PROVE  Told(j, metric)' = Silence
BY DEF Told, NoReport, Metrics, Silence

\* A stream whose level was just compared establishes it, keeps it, or
\* changes to it and tells.
LEMMA StreamCompared ==
    ASSUME NEW j \in Indices, NEW metric \in Metrics,
           NEW initialized \in BOOLEAN, NEW previous \in Levels, NEW level \in Levels,
           KnownLevel(j, metric) = Known(initialized, previous),
           KnownLevel(j, metric)' = level,
           out' = ReportIfDiffers(j, metric, initialized, previous, level)
    PROVE  Moves(j, metric)
<1>1. Told(j, metric)' = IF Differs(initialized, previous, level)
                         THEN [from |-> previous, to |-> level] ELSE Silence
  <2>1. CASE Differs(initialized, previous, level)
    BY <2>1 DEF ReportIfDiffers, Report, Told
  <2>2. CASE ~ Differs(initialized, previous, level)
    BY <2>2, NothingTold DEF ReportIfDiffers
  <2> QED BY <2>1, <2>2
<1> QED BY <1>1 DEF Moves, Known, Differs, Levels, NoLevel, NORMAL, WARNING, CRITICAL

\* Whoever else is told something, this stream is not.
LEMMA OthersNotTold ==
    ASSUME NEW j \in Indices, NEW metric \in Metrics, NEW i, NEW about,
           NEW initialized, NEW previous, NEW level, ~ (i = j /\ about = metric),
           out' = ReportIfDiffers(i, about, initialized, previous, level)
    PROVE  Told(j, metric)' = Silence
<1>1. CASE Differs(initialized, previous, level)
  BY <1>1 DEF ReportIfDiffers, Report, Told, Silence
<1>2. CASE ~ Differs(initialized, previous, level)
  BY <1>2, NothingTold DEF ReportIfDiffers
<1> QED BY <1>1, <1>2

\* A step of the current target moves each stream as AlertStream allows.
LEMMA TargetMoves ==
    ASSUME TypeOK, NEW i \in DOMAIN mon, i = cur, MonitorProcessOnce(i),
           NEW j \in Indices, NEW metric \in Metrics
    PROVE  Moves(j, metric)
<1>0. /\ mon \in [DOMAIN config -> MonitoredProcess] /\ mon[i] \in MonitoredProcess
      /\ i \in Indices /\ DOMAIN mon' = DOMAIN mon /\ DOMAIN mon = DOMAIN config
      /\ \A k \in DOMAIN mon : k # i => mon'[k] = mon[k]
  BY Frame, ConfigDomain DEF TypeOK
<1>k. ASSUME j # i PROVE KnownLevel(j, metric)' = KnownLevel(j, metric)
  BY <1>0, <1>k DEF KnownLevel
<1>1. ASSUME j # i, out' = NoReport PROVE Moves(j, metric)
  <2>1. Told(j, metric)' = Silence
    BY <1>1, NothingTold
  <2> QED BY <1>1, <1>k, <2>1 DEF Moves
<1>2. ASSUME NEW about, NEW initialized, NEW previous, NEW level, j # i,
             out' = ReportIfDiffers(i, about, initialized, previous, level)
      PROVE  Moves(j, metric)
  <2>1. Told(j, metric)' = Silence
    BY <1>2, OthersNotTold
  <2> QED BY <1>2, <1>k, <2>1 DEF Moves
<1>3. CASE LookupFinds(i)
  <2>1. out' = NoReport /\ \E p \in Pids : mon'[i] = Blank(p)
    <3>1. \A p : [mon[i] EXCEPT !.current_pid = p].current_pid = p
      BY <1>0 DEF MonitoredProcess
    <3> QED BY <1>0, <1>3, <3>1 DEF LookupFinds, Holders, ResetRuntimeState
  <2>2. CASE j = i
    <3>1. KnownLevel(j, metric)' = NoLevel
      BY <1>0, <2>1, <2>2 DEF KnownLevel, Known, Blank
    <3> QED BY <2>1, <3>1, NothingTold DEF Moves
  <2> QED BY <1>1, <2>1, <2>2
<1>4. CASE LookupMisses(i) \/ AvailabilityNotLogged(i)
  <2>1. out' = NoReport /\ mon' = mon
    BY <1>4 DEF LookupMisses, AvailabilityNotLogged
  <2>2. KnownLevel(j, metric)' = KnownLevel(j, metric) /\ Told(j, metric)' = Silence
    BY <2>1, NothingTold DEF KnownLevel
  <2> QED BY <2>2 DEF Moves
<1>5. CASE StatusFails(i) \/ StatusNotLogged(i) \/ CpuNotLogged(i)
             \/ ClockFails(i) \/ CpuBase(i)
  <2>1. /\ out' = NoReport
        /\ mon'[i] \in {[mon[i] EXCEPT !.available = 0], [mon[i] EXCEPT !.available = 1],
                        [mon[i] EXCEPT !.cpu_usage_valid = TRUE],
                        [mon[i] EXCEPT !.cpu_usage_valid = FALSE], Sampled(mon[i])}
    BY <1>0, <1>5
       DEF StatusFails, StatusNotLogged, CpuNotLogged, ClockFails, CpuBase
  <2>2. /\ mon'[i].memory_level_initialized = mon[i].memory_level_initialized
        /\ mon'[i].previous_memory_level = mon[i].previous_memory_level
        /\ mon'[i].cpu_level_initialized = mon[i].cpu_level_initialized
        /\ mon'[i].previous_cpu_level = mon[i].previous_cpu_level
        /\ mon'[i].availability_initialized = mon[i].availability_initialized
        /\ mon'[i].previous_available = mon[i].previous_available
    BY <1>0, <2>1 DEF MonitoredProcess, Sampled
  <2>3. CASE j = i
    <3>1. KnownLevel(j, metric)' = KnownLevel(j, metric)
      BY <1>0, <2>2, <2>3 DEF KnownLevel
    <3>2. Told(j, metric)' = Silence
      BY <2>1, NothingTold
    <3> QED BY <3>1, <3>2 DEF Moves
  <2> QED BY <1>1, <2>1, <2>3
<1>6. CASE StatusRead(i)
  <2>1. PICK level \in MemorySamples :
          /\ mon' = [mon EXCEPT ![i] = MemoryAfter(@, level)]
          /\ out' = ReportIfDiffers(i, "memory", mon[i].memory_level_initialized,
                                   mon[i].previous_memory_level, level)
    BY <1>6 DEF StatusRead
  <2>2. /\ mon'[i].memory_level_initialized = TRUE
        /\ mon'[i].previous_memory_level = level
        /\ mon'[i].cpu_level_initialized = mon[i].cpu_level_initialized
        /\ mon'[i].previous_cpu_level = mon[i].previous_cpu_level
        /\ mon'[i].availability_initialized = mon[i].availability_initialized
        /\ mon'[i].previous_available = mon[i].previous_available
        /\ level \in Levels /\ mon[i].previous_memory_level \in Levels
        /\ mon[i].memory_level_initialized \in BOOLEAN
    BY <1>0, <2>1, SampleAssumption DEF MonitoredProcess, MemoryAfter
  <2>3. CASE j = i /\ metric = "memory"
    <3>1. /\ KnownLevel(j, metric) = Known(mon[i].memory_level_initialized,
                                          mon[i].previous_memory_level)
          /\ KnownLevel(j, metric)' = level
      BY <1>0, <2>2, <2>3 DEF KnownLevel, Known
    <3> QED BY <2>1, <2>2, <2>3, <3>1, StreamCompared
  <2>4. CASE j = i /\ metric # "memory"
    <3>1. KnownLevel(j, metric)' = KnownLevel(j, metric)
      BY <1>0, <2>2, <2>4 DEF KnownLevel, Metrics
    <3>2. Told(j, metric)' = Silence
      BY <2>1, <2>4, OthersNotTold
    <3> QED BY <3>1, <3>2 DEF Moves
  <2> QED BY <1>2, <2>1, <2>3, <2>4
<1>7. CASE CpuUnavailable(i) \/ CpuFails(i)
  <2>1. /\ out' = NoReport
        /\ \/ mon'[i] = ResetCpuSampling(mon[i])
           \/ mon'[i] = [ResetCpuSampling(mon[i]) EXCEPT
                           !.memory_level_initialized = FALSE]
    BY <1>0, <1>7 DEF CpuUnavailable, CpuFails
  <2>2. /\ \/ mon'[i].memory_level_initialized = FALSE
           \/ mon'[i].memory_level_initialized = mon[i].memory_level_initialized
        /\ mon'[i].previous_memory_level = mon[i].previous_memory_level
        /\ mon'[i].cpu_level_initialized = FALSE
        /\ mon'[i].availability_initialized = mon[i].availability_initialized
        /\ mon'[i].previous_available = mon[i].previous_available
    BY <1>0, <2>1 DEF MonitoredProcess, ResetCpuSampling
  <2>3. CASE j = i
    <3>1. KnownLevel(j, metric)' \in {NoLevel, KnownLevel(j, metric)}
      BY <1>0, <2>2, <2>3 DEF KnownLevel, Known, Metrics
    <3> QED BY <2>1, <3>1, NothingTold DEF Moves
  <2> QED BY <1>1, <2>1, <2>3
<1>8. CASE CpuUsage(i)
  <2>1. PICK level \in CpuSamples :
          /\ mon' = [mon EXCEPT
                       ![i] = [Sampled(@) EXCEPT !.cpu_usage_valid = TRUE,
                                 !.previous_cpu_level = level,
                                 !.cpu_level_initialized = TRUE]]
          /\ out' = ReportIfDiffers(i, "cpu", mon[i].cpu_level_initialized,
                                   mon[i].previous_cpu_level, level)
    BY <1>8 DEF CpuUsage
  <2>2. /\ mon'[i].memory_level_initialized = mon[i].memory_level_initialized
        /\ mon'[i].previous_memory_level = mon[i].previous_memory_level
        /\ mon'[i].cpu_level_initialized = TRUE
        /\ mon'[i].previous_cpu_level = level
        /\ mon'[i].availability_initialized = mon[i].availability_initialized
        /\ mon'[i].previous_available = mon[i].previous_available
        /\ level \in Levels /\ mon[i].previous_cpu_level \in Levels
        /\ mon[i].cpu_level_initialized \in BOOLEAN
    BY <1>0, <2>1, SampleAssumption DEF MonitoredProcess, Sampled
  <2>3. CASE j = i /\ metric = "cpu"
    <3>1. /\ KnownLevel(j, metric) = Known(mon[i].cpu_level_initialized,
                                          mon[i].previous_cpu_level)
          /\ KnownLevel(j, metric)' = level
      BY <1>0, <2>2, <2>3 DEF KnownLevel, Known
    <3> QED BY <2>1, <2>2, <2>3, <3>1, StreamCompared
  <2>4. CASE j = i /\ metric # "cpu"
    <3>1. KnownLevel(j, metric)' = KnownLevel(j, metric)
      BY <1>0, <2>2, <2>4 DEF KnownLevel, Metrics
    <3>2. Told(j, metric)' = Silence
      BY <2>1, <2>4, OthersNotTold
    <3> QED BY <3>1, <3>2 DEF Moves
  <2> QED BY <1>2, <2>1, <2>3, <2>4
<1>9. CASE Availability(i)
  <2>1. /\ mon'[i] = AvailabilityAfter(mon[i])
        /\ out' = ReportIfDiffers(i, "availability",
                     mon[i].availability_initialized, mon[i].previous_available,
                     mon[i].available)
    BY <1>0, <1>9 DEF Availability
  <2>2. /\ mon'[i].memory_level_initialized = mon[i].memory_level_initialized
        /\ mon'[i].previous_memory_level = mon[i].previous_memory_level
        /\ mon'[i].cpu_level_initialized = mon[i].cpu_level_initialized
        /\ mon'[i].previous_cpu_level = mon[i].previous_cpu_level
        /\ mon'[i].availability_initialized = TRUE
        /\ mon'[i].previous_available = mon[i].available
        /\ mon[i].available \in Levels /\ mon[i].previous_available \in Levels
        /\ mon[i].availability_initialized \in BOOLEAN
    BY <1>0, <2>1 DEF MonitoredProcess, AvailabilityAfter, Levels, NORMAL, WARNING,
       CRITICAL
  <2>3. CASE j = i /\ metric = "availability"
    <3>1. /\ KnownLevel(j, metric) = Known(mon[i].availability_initialized,
                                          mon[i].previous_available)
          /\ KnownLevel(j, metric)' = mon[i].available
      BY <1>0, <2>2, <2>3 DEF KnownLevel, Known
    <3> QED BY <2>1, <2>2, <2>3, <3>1, StreamCompared
  <2>4. CASE j = i /\ metric # "availability"
    <3>1. KnownLevel(j, metric)' = KnownLevel(j, metric)
      BY <1>0, <2>2, <2>4 DEF KnownLevel, Metrics
    <3>2. Told(j, metric)' = Silence
      BY <2>1, <2>4, OthersNotTold
    <3> QED BY <3>1, <3>2 DEF Moves
  <2> QED BY <1>2, <2>1, <2>3, <2>4
<1> QED BY <1>3, <1>4, <1>5, <1>6, <1>7, <1>8, <1>9 DEF MonitorProcessOnce

\* The streams of the targets implement AlertStream: every change is told
\* once, from the level last established or told, and nothing else is.
THEOREM StreamsRefined == Spec => StreamsImplemented
<1>1. Init => Stream!Init
  <2> SUFFICES ASSUME Init PROVE Stream!Init
    OBVIOUS
  <2>1. ASSUME NEW j \in Indices, NEW metric \in Metrics
        PROVE  KnownLevel(j, metric) = NoLevel /\ Told(j, metric) = Silence
    BY <2>1 DEF Init, Blank, KnownLevel, Known, Told, NoReport, Metrics, Silence
  <2> QED BY <2>1 DEF Stream!Init, Stream!Silent, Silence
<1>2. TypeOK /\ [Next]_vars => [Stream!Next]_(Stream!vars)
  <2> SUFFICES ASSUME TypeOK, [Next]_vars PROVE [Stream!Next]_(Stream!vars)
    OBVIOUS
  <2>1. CASE MonitorProcessOnce(cur)
    <3>1. ASSUME NEW j \in Indices, NEW metric \in Metrics PROVE Moves(j, metric)
      <4>1. cur \in DOMAIN mon
        BY DEF TypeOK
      <4> QED BY <2>1, <4>1, TargetMoves
    <3> QED BY <3>1, MovesSuffice
  <2>2. CASE Reload
    <3>1. ASSUME NEW j \in Indices, NEW metric \in Metrics PROVE Moves(j, metric)
      <4>1. \A k \in DOMAIN mon' : \E p : mon'[k] = Blank(p)
        BY <2>2 DEF Reload
      <4>2. KnownLevel(j, metric)' = NoLevel
        BY <4>1 DEF KnownLevel, Known, Blank
      <4> QED BY <2>2, <4>2, NothingTold DEF Reload, Moves
    <3> QED BY <3>1, MovesSuffice
  <2>3. CASE StartRound \/ Stop \/ SystemFails
    <3>1. ASSUME NEW j \in Indices, NEW metric \in Metrics PROVE Moves(j, metric)
      <4>1. KnownLevel(j, metric)' = KnownLevel(j, metric)
        BY <2>3 DEF StartRound, Stop, SystemFails, KnownLevel
      <4> QED BY <2>3, <4>1, NothingTold DEF StartRound, Stop, SystemFails, Moves
    <3> QED BY <3>1, MovesSuffice
  <2>4. CASE EndRound
    <3>1. ASSUME NEW j \in Indices, NEW metric \in Metrics PROVE Moves(j, metric)
      <4>0. mon \in [DOMAIN config -> MonitoredProcess] /\ DOMAIN mon' = DOMAIN mon
        BY <2>4 DEF EndRound, TypeOK
      <4>1. \A k \in DOMAIN mon :
              mon'[k] = mon[k] \/ mon'[k] = [mon[k] EXCEPT !.current_pid = 0]
        BY <2>4, <4>0 DEF EndRound
      <4>2. KnownLevel(j, metric)' = KnownLevel(j, metric)
        BY <4>0, <4>1 DEF KnownLevel, MonitoredProcess
      <4> QED BY <2>4, <4>2, NothingTold DEF EndRound, Moves
    <3> QED BY <3>1, MovesSuffice
  <2>5. CASE OS \/ UNCHANGED vars
    <3>1. UNCHANGED <<mon, out>>
      BY <2>5 DEF OS, Exit, Spawn, vars
    <3> QED BY <3>1 DEF Stream!vars, KnownLevel, Told
  <2> QED BY <2>1, <2>2, <2>3, <2>4, <2>5 DEF Next, Daemon
<1> QED BY <1>1, <1>2, TypeCorrect, PTL DEF Spec, StreamsImplemented, Stream!Spec

-----------------------------------------------------------------------------
(* Towards LastTargetFound: a round comes to its end, and the last target  *)
(* begins the next one with a search or with a PID that was not lost.      *)

\* Reads of /proc and comparisons left of the target the loop is at.
StepsOfTarget(at) ==
    CASE at = "find" -> 4 [] at = "read" -> 3 [] at = "cpu" -> 2
      [] at = "availability" -> 1 [] OTHER -> 0

\* Steps left of a round over n targets that is at target i.
StepsOfRound(at, i, n) ==
    IF StepsOfTarget(at) > 0 THEN 4 * (n - i) + StepsOfTarget(at) + 1
    ELSE IF at = "system" THEN 1 ELSE 0

\* Each step of the daemon in a round is one less to go, over the targets the
\* round began with, and no process that starts or ends in between adds one.
RoundIsShorter ==
    pc \notin {"idle", "stopped", "failed"} =>
        /\ config' = config
        /\ StepsOfRound(pc, cur, Len(config)) \in 1 .. 4 * MAX_MONITORED_PROCESSES + 1
        /\ StepsOfRound(pc', cur', Len(config)) \in Nat
        /\ Daemon => StepsOfRound(pc', cur', Len(config))
                        < StepsOfRound(pc, cur, Len(config))
        /\ ~ Daemon => UNCHANGED <<pc, cur>>

\* A step is the daemon's or somebody else's, never both.
LEMMA OutsiderMovesOS ==
  ASSUME TypeOK, OS
  PROVE  os' # os
<1>1. \A p \in Pids, name \in Names :
         os[p] = None /\ os' = [os EXCEPT ![p] = name] => os' # os
  BY NameAssumption DEF TypeOK
<1>2. \A p \in Pids :
         os[p] # None /\ os' = [os EXCEPT ![p] = None] => os' # os
  BY DEF TypeOK
<1> QED BY <1>1, <1>2 DEF OS, Spawn, Exit

LEMMA DaemonKeepsOS ==
  ASSUME Daemon
  PROVE  os' = os
BY DEF Daemon, StartRound, Reload, Stop, EndRound, SystemFails, MonitorProcessOnce,
   LookupFinds, LookupMisses, StatusFails, StatusRead, StatusNotLogged,
   CpuUnavailable, CpuFails, CpuBase, CpuUsage, CpuNotLogged, ClockFails,
   Availability, AvailabilityNotLogged

LEMMA RoundStepsLeft ==
  ASSUME TypeOK, pc \notin {"idle", "stopped", "failed"}
  PROVE  StepsOfRound(pc, cur, Len(config)) \in 1 .. 4 * MAX_MONITORED_PROCESSES + 1
<1>1. Len(config) \in 1 .. 8 /\ cur \in 1 .. Len(config)
  BY ConfigAssumption, ConfigDomain DEF TypeOK, MAX_MONITORED_PROCESSES
<1>2. ASSUME NEW n \in 1 .. 8, NEW i \in 1 .. n, NEW k \in 1 .. 4
      PROVE  4 * (n - i) + k + 1 \in 1 .. 33
  OBVIOUS
<1>3. StepsOfTarget(pc) \in 1 .. 4 \/ (StepsOfTarget(pc) = 0 /\ pc = "system")
  BY DEF TypeOK, StepsOfTarget
<1>4. StepsOfRound(pc, cur, Len(config)) \in 1 .. 33
  <2>1. CASE StepsOfTarget(pc) \in 1 .. 4
    <3>1. StepsOfRound(pc, cur, Len(config))
             = 4 * (Len(config) - cur) + StepsOfTarget(pc) + 1
      BY <2>1 DEF StepsOfRound
    <3>2. 4 * (Len(config) - cur) + StepsOfTarget(pc) + 1 \in 1 .. 33
      BY ONLY <1>1, <1>2, <2>1
    <3> QED BY ONLY <3>1, <3>2
  <2>2. CASE StepsOfTarget(pc) = 0 /\ pc = "system"
    BY <2>2 DEF StepsOfRound
  <2> QED BY <1>3, <2>1, <2>2
<1> QED BY <1>4 DEF MAX_MONITORED_PROCESSES

\* A target's step is followed by its next one, by the next target, by the
\* system's part, or by the end of the daemon.
LEMMA RoundMoves ==
  ASSUME MonitorProcessOnce(cur)
  PROVE  /\ config' = config
         /\ \/ pc = "find" /\ pc' = "read" /\ cur' = cur
            \/ pc = "read" /\ pc' = "cpu" /\ cur' = cur
            \/ pc = "cpu" /\ pc' = "availability" /\ cur' = cur
            \/ pc = "availability" /\ cur = Len(config) /\ pc' = "system"
            \/ pc = "availability" /\ cur # Len(config) /\ pc' = "find" /\ cur' = cur + 1
            \/ pc \in {"read", "cpu", "availability"} /\ pc' = "failed"
<1>1. CASE LookupFinds(cur) \/ LookupMisses(cur)
  BY <1>1 DEF LookupFinds, LookupMisses
<1>2. CASE StatusFails(cur) \/ StatusRead(cur) \/ StatusNotLogged(cur)
  BY <1>2 DEF StatusFails, StatusRead, StatusNotLogged, StatusReadable
<1>3. CASE CpuUnavailable(cur) \/ CpuFails(cur) \/ CpuBase(cur)
  BY <1>3 DEF CpuUnavailable, CpuFails, CpuBase, CpuReadable
<1>4. CASE CpuUsage(cur) \/ CpuNotLogged(cur) \/ ClockFails(cur)
  BY <1>4 DEF CpuUsage, CpuNotLogged, ClockFails, CpuReadable
<1>5. CASE Availability(cur) \/ AvailabilityNotLogged(cur)
  BY <1>5 DEF Availability, AvailabilityNotLogged, AfterTarget, LastTarget
<1> QED BY <1>1, <1>2, <1>3, <1>4, <1>5 DEF MonitorProcessOnce

LEMMA TargetShortens ==
  ASSUME TypeOK, MonitorProcessOnce(cur)
  PROVE  /\ StepsOfRound(pc', cur', Len(config)) \in Nat
         /\ StepsOfRound(pc', cur', Len(config)) < StepsOfRound(pc, cur, Len(config))
<1>1. Len(config) \in Nat /\ cur \in 1 .. Len(config)
  BY ConfigDomain DEF TypeOK
<1>2. PICK n : n = Len(config)
  OBVIOUS
<1>3. CASE pc' = "failed"
  BY <1>1, <1>2, <1>3, RoundMoves DEF StepsOfRound, StepsOfTarget
<1>4. CASE pc = "availability" /\ pc' # "failed"
  BY <1>1, <1>2, <1>4, RoundMoves DEF StepsOfRound, StepsOfTarget
<1>5. CASE pc # "availability" /\ pc' # "failed"
  BY <1>1, <1>2, <1>5, RoundMoves DEF StepsOfRound, StepsOfTarget
<1> QED BY <1>3, <1>4, <1>5

\* A round over n targets takes at most 4 n + 1 steps: the loop over the
\* targets neither stays at one nor comes back to one.
THEOREM RoundNearsItsEnd == Spec => [][RoundIsShorter]_vars
<1>1. TypeOK /\ [Next]_vars => [RoundIsShorter]_vars
  <2> SUFFICES ASSUME TypeOK, Next, pc \notin {"idle", "stopped", "failed"}
               PROVE  /\ config' = config
                      /\ StepsOfRound(pc', cur', Len(config)) \in Nat
                      /\ Daemon => StepsOfRound(pc', cur', Len(config))
                                      < StepsOfRound(pc, cur, Len(config))
                      /\ ~ Daemon => UNCHANGED <<pc, cur>>
    BY RoundStepsLeft DEF RoundIsShorter
  <2>1. StepsOfRound(pc, cur, Len(config)) \in Nat
    BY RoundStepsLeft
  <2>2. CASE OS
    <3>1. UNCHANGED <<config, pc, cur>>
      BY <2>2 DEF OS, Exit, Spawn
    <3>2. ~ Daemon
      BY <2>2, OutsiderMovesOS, DaemonKeepsOS
    <3> QED BY <2>1, <3>1, <3>2
  <2>3. CASE MonitorProcessOnce(cur)
    BY <2>3, RoundMoves, TargetShortens DEF Daemon
  <2>4. CASE EndRound \/ SystemFails
    BY <2>4 DEF EndRound, SystemFails, StepsOfRound, StepsOfTarget, Daemon
  <2>5. ~ StartRound /\ ~ Reload /\ ~ Stop
    BY DEF StartRound, Reload, Stop
  <2> QED BY <2>2, <2>3, <2>4, <2>5 DEF Next, Daemon
<1> QED BY <1>1, TypeCorrect, PTL DEF Spec

\* Between two rounds the last target by name has no PID left of a process it
\* lost: the next round looks its name up.
THEOREM LastIsSearched ==
    Spec => [](pc = "idle" /\ Named(Len(config)) /\ hist[Len(config)].lost
                  => mon[Len(config)].current_pid = 0)
<1>1. IInv => (pc = "idle" /\ Named(Len(config)) /\ hist[Len(config)].lost
                  => mon[Len(config)].current_pid = 0)
  <2>1. ASSUME IInv PROVE LostInv(Len(config))
    BY <2>1, ConfigDomain DEF IInv, TypeOK, TargetInv
  <2> QED BY <2>1 DEF LostInv, Sticky, LastTarget
<1> QED BY <1>1, Inductive, PTL

=============================================================================
