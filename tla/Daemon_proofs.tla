---------------------------- MODULE Daemon_proofs ----------------------------
(***************************************************************************)
(* The safety properties of Daemon, for any number of versions of the      *)
(* configuration file.                                                     *)
(***************************************************************************)
EXTENDS Daemon, TLAPS

\* Nothing comes from a version that is not on disk yet, so that a load, which
\* reads the version on disk, catches up with every signal so far.
VersionInv ==
    /\ hist.hup <= disk.version /\ hist.read <= disk.version
    /\ ReloadNotLost

\* From the sleep to the network reading, a baseline that will be used has
\* seen that sleep.
BaselineInv ==
    /\ previous_network.config = config
    /\ pc \in {"asleep", "awake", "load", "apply", "round", "network"}
          => network_baseline_reset \/ previous_network.slept

\* The stop flag is never taken back.
LateInv == OneSleepAfterStop /\ (hist.late => ~ keep_running)

IInv == TypeOK /\ VersionInv /\ BaselineInv /\ LateInv

LEMMA InitEstablishes == Init => IInv
<1> SUFFICES ASSUME Init PROVE IInv
  OBVIOUS
<1>0. PICK good \in BOOLEAN : disk = [version |-> 1, good |-> good]
  BY DEF Init
<1>1. TypeOK
  <2>1. 1 \in Versions
    BY VersionAssumption DEF Versions
  <2>2. disk \in [version : Versions, good : BOOLEAN]
    BY <2>1, <1>0
  <2>3. config \in Versions \cup {0}
    BY <2>1 DEF Init
  <2>4. hist \in [hup : Versions, read : Versions, late : BOOLEAN]
    BY <2>1 DEF Init
  <2>5. QED
    BY <2>1, <2>2, <2>3, <2>4 DEF Init, TypeOK
<1>2. VersionInv
  <2>1. disk.version = 1 /\ hist.hup = 1 /\ hist.read = 1
    BY <1>0 DEF Init
  <2>2. QED
    BY <2>1 DEF VersionInv, ReloadNotLost
<1>3. BaselineInv
  <2>1. previous_network.config = config /\ pc = "install handlers"
    BY DEF Init
  <2>2. QED
    BY <2>1 DEF BaselineInv
<1>4. LateInv
  BY DEF Init, LateInv, OneSleepAfterStop
<1>5. QED
  BY <1>1, <1>2, <1>3, <1>4 DEF IInv

LEMMA OutsidePreserves ==
  ASSUME IInv, Outside
  PROVE  IInv'
<1> USE DEF IInv, flags, network
<1>1. CASE Edit
  <2>0. PICK good \in BOOLEAN :
           disk' = [version |-> disk.version + 1, good |-> good]
    BY <1>1 DEF Edit
  <2>1. TypeOK'
    <3>0. disk.version \in Versions /\ disk.version < MaxVersion
      BY <1>1 DEF TypeOK, Edit
    <3>1. disk.version + 1 \in Versions
      BY <3>0, VersionAssumption DEF Versions
    <3>2. disk' \in [version : Versions, good : BOOLEAN]
      BY <2>0, <3>1
    <3>3. QED
      BY <1>1, <3>2 DEF TypeOK, Edit
  <2>2. VersionInv'
    <3>1. disk'.version = disk.version + 1 /\ hist' = hist
      BY <1>1, <2>0 DEF Edit
    <3>0. {disk.version, hist.hup, hist.read} \subseteq Versions
      BY DEF TypeOK
    <3>2. disk.version \in Int /\ hist.hup \in Int /\ hist.read \in Int
      BY <3>0 DEF Versions
    <3>3. QED
      BY <1>1, <3>1, <3>2 DEF VersionInv, ReloadNotLost, Edit
  <2>3. BaselineInv'
    BY <1>1 DEF BaselineInv, Edit
  <2>4. LateInv'
    BY <1>1 DEF LateInv, OneSleepAfterStop, Ended, Edit
  <2>5. QED
    BY <2>1, <2>2, <2>3, <2>4
<1>2. CASE StopSignal
  <2>1. TypeOK'
    BY VersionAssumption, <1>2
       DEF TypeOK, Versions, Ended, StopSignal, Interrupts
  <2>2. VersionInv'
    BY <1>2 DEF VersionInv, ReloadNotLost, StopSignal, Interrupts
  <2>3. BaselineInv'
    BY <1>2 DEF BaselineInv, StopSignal, Interrupts
  <2>4. LateInv'
    BY <1>2 DEF LateInv, OneSleepAfterStop, Ended, StopSignal, Interrupts
  <2>5. QED
    BY <2>1, <2>2, <2>3, <2>4
<1>3. CASE ReloadSignal
  <2>1. TypeOK'
    BY VersionAssumption, <1>3
       DEF TypeOK, Versions, Ended, ReloadSignal, Interrupts
  <2>2. VersionInv'
    <3>1. hist'.hup = disk.version /\ hist'.read = hist.read /\ disk' = disk
      BY <1>3 DEF TypeOK, ReloadSignal
    <3>0. disk.version \in Versions /\ reload_requested' = TRUE
      BY <1>3 DEF TypeOK, ReloadSignal
    <3>2. disk.version \in Int /\ reload_requested' = TRUE
      BY <3>0 DEF Versions
    <3>3. QED
      BY <3>1, <3>2 DEF VersionInv, ReloadNotLost
  <2>3. BaselineInv'
    BY <1>3 DEF BaselineInv, ReloadSignal, Interrupts
  <2>4. LateInv'
    BY <1>3
       DEF LateInv, OneSleepAfterStop, Ended, TypeOK, ReloadSignal, Interrupts
  <2>5. QED
    BY <2>1, <2>2, <2>3, <2>4
<1>4. CASE EarlySignal
  <2>1. TypeOK'
    BY VersionAssumption, <1>4 DEF TypeOK, Versions, Ended, EarlySignal
  <2>2. VersionInv'
    BY <1>4 DEF VersionInv, ReloadNotLost, EarlySignal
  <2>3. BaselineInv'
    BY <1>4 DEF BaselineInv, EarlySignal
  <2>4. LateInv'
    BY <1>4 DEF LateInv, OneSleepAfterStop, Ended, EarlySignal
  <2>5. QED
    BY <2>1, <2>2, <2>3, <2>4
<1>5. QED
  BY <1>1, <1>2, <1>3, <1>4 DEF Outside

LEMMA LoopPreserves ==
  ASSUME IInv, InstallHandlers \/ Started \/ LoopTest \/ FallAsleep \/ WakeUp
           \/ AfterSleep
  PROVE  IInv'
<1> USE DEF IInv, flags, network
<1>1. CASE InstallHandlers
  <2>1. TypeOK'
    BY VersionAssumption, <1>1 DEF TypeOK, Versions, Ended, InstallHandlers
  <2>2. VersionInv'
    BY <1>1 DEF VersionInv, ReloadNotLost, InstallHandlers
  <2>3. BaselineInv'
    BY <1>1 DEF BaselineInv, InstallHandlers
  <2>4. LateInv'
    BY <1>1 DEF LateInv, OneSleepAfterStop, Ended, InstallHandlers
  <2>5. QED
    BY <2>1, <2>2, <2>3, <2>4
<1>2. CASE Started
  <2>1. TypeOK'
    BY VersionAssumption, <1>2 DEF TypeOK, Versions, Ended, Started
  <2>2. VersionInv'
    BY <1>2 DEF VersionInv, ReloadNotLost, Started
  <2>3. BaselineInv'
    BY <1>2 DEF BaselineInv, Started
  <2>4. LateInv'
    BY <1>2 DEF LateInv, OneSleepAfterStop, Ended, Started
  <2>5. QED
    BY <2>1, <2>2, <2>3, <2>4
<1>3. CASE LoopTest
  <2>1. TypeOK'
    BY VersionAssumption, <1>3 DEF TypeOK, Versions, Ended, LoopTest, Continues
  <2>2. VersionInv'
    BY <1>3 DEF VersionInv, ReloadNotLost, LoopTest, Continues
  <2>3. BaselineInv'
    BY <1>3 DEF BaselineInv, LoopTest, Continues
  <2>4. LateInv'
    BY <1>3 DEF LateInv, OneSleepAfterStop, Ended, LoopTest, Continues
  <2>5. QED
    BY <2>1, <2>2, <2>3, <2>4
<1>4. CASE FallAsleep
  <2>1. TypeOK'
    BY VersionAssumption, <1>4 DEF TypeOK, Versions, Ended, FallAsleep
  <2>2. VersionInv'
    BY VersionAssumption, <1>4
       DEF VersionInv, ReloadNotLost, TypeOK, Versions, FallAsleep
  <2>3. BaselineInv'
    BY <1>4 DEF BaselineInv, TypeOK, FallAsleep
  <2>4. LateInv'
    BY <1>4 DEF LateInv, OneSleepAfterStop, Ended, TypeOK, FallAsleep
  <2>5. QED
    BY <2>1, <2>2, <2>3, <2>4
<1>5. CASE WakeUp
  <2>1. TypeOK'
    BY VersionAssumption, <1>5 DEF TypeOK, Versions, Ended, WakeUp
  <2>2. VersionInv'
    BY <1>5 DEF VersionInv, ReloadNotLost, WakeUp
  <2>3. BaselineInv'
    BY <1>5 DEF BaselineInv, WakeUp
  <2>4. LateInv'
    BY <1>5 DEF LateInv, OneSleepAfterStop, Ended, WakeUp
  <2>5. QED
    BY <2>1, <2>2, <2>3, <2>4
<1>6. CASE AfterSleep
  <2>1. TypeOK'
    BY VersionAssumption, <1>6
       DEF TypeOK, Versions, Ended, AfterSleep, Continues
  <2>2. VersionInv'
    BY <1>6 DEF VersionInv, ReloadNotLost, AfterSleep, Continues
  <2>3. BaselineInv'
    BY <1>6 DEF BaselineInv, TypeOK, AfterSleep, Continues
  <2>4. LateInv'
    BY <1>6 DEF LateInv, OneSleepAfterStop, Ended, AfterSleep, Continues
  <2>5. QED
    BY <2>1, <2>2, <2>3, <2>4
<1>7. QED
  BY <1>1, <1>2, <1>3, <1>4, <1>5, <1>6

LEMMA ReloadPreserves ==
  ASSUME IInv, Load \/ ApplyFails \/ Apply
  PROVE  IInv'
<1> USE DEF IInv, flags, network
<1>1. CASE Load
  <2>1. TypeOK'
    BY VersionAssumption, <1>1
       DEF TypeOK, Versions, Ended, Load, ReloadEnds, FlagAfterwards
  <2>2. VersionInv'
    BY VersionAssumption, <1>1
       DEF VersionInv, ReloadNotLost, TypeOK, Versions, Load, ReloadEnds,
           FlagAfterwards
  <2>3. BaselineInv'
    BY <1>1 DEF BaselineInv, Load, ReloadEnds, FlagAfterwards
  <2>4. LateInv'
    BY <1>1
       DEF TypeOK, LateInv, OneSleepAfterStop, Ended, Load, ReloadEnds,
           FlagAfterwards
  <2>5. QED
    BY <2>1, <2>2, <2>3, <2>4
<1>2. CASE ApplyFails
  <2>1. TypeOK'
    BY VersionAssumption, <1>2
       DEF TypeOK, Versions, Ended, ApplyFails, ReloadEnds, FlagAfterwards
  <2>2. VersionInv'
    BY <1>2
       DEF VersionInv, ReloadNotLost, ApplyFails, ReloadEnds, FlagAfterwards
  <2>3. BaselineInv'
    BY <1>2 DEF BaselineInv, ApplyFails, ReloadEnds, FlagAfterwards
  <2>4. LateInv'
    BY <1>2
       DEF LateInv, OneSleepAfterStop, Ended, ApplyFails, ReloadEnds,
           FlagAfterwards
  <2>5. QED
    BY <2>1, <2>2, <2>3, <2>4
<1>3. CASE Apply
  <2>1. TypeOK'
    BY VersionAssumption, <1>3
       DEF TypeOK, Versions, Ended, Apply, NewBaseline, ReloadEnds,
           FlagAfterwards
  <2>2. VersionInv'
    BY <1>3
       DEF VersionInv, ReloadNotLost, Apply, NewBaseline, ReloadEnds,
           FlagAfterwards
  <2>3. BaselineInv'
    BY <1>3 DEF BaselineInv, Apply, NewBaseline, ReloadEnds, FlagAfterwards
  <2>4. LateInv'
    BY <1>3
       DEF LateInv, OneSleepAfterStop, Ended, Apply, NewBaseline, ReloadEnds,
           FlagAfterwards
  <2>5. QED
    BY <2>1, <2>2, <2>3, <2>4
<1>4. QED
  BY <1>1, <1>2, <1>3

LEMMA RoundPreserves ==
  ASSUME IInv, MeasureFirst \/ ResetNetworkBaseline \/ CalculateSpeed \/ EndRound
           \/ Fails \/ ShutDown
  PROVE  IInv'
<1> USE DEF IInv, flags, network
<1>1. CASE MeasureFirst
  <2>1. TypeOK'
    BY VersionAssumption, <1>1 DEF TypeOK, Versions, Ended, MeasureFirst
  <2>2. VersionInv'
    BY <1>1 DEF VersionInv, ReloadNotLost, MeasureFirst
  <2>3. BaselineInv'
    BY <1>1 DEF BaselineInv, MeasureFirst
  <2>4. LateInv'
    BY <1>1 DEF LateInv, OneSleepAfterStop, Ended, MeasureFirst
  <2>5. QED
    BY <2>1, <2>2, <2>3, <2>4
<1>2. CASE ResetNetworkBaseline
  <2>1. TypeOK'
    BY VersionAssumption, <1>2
       DEF TypeOK, Versions, Ended, ResetNetworkBaseline
  <2>2. VersionInv'
    BY <1>2 DEF VersionInv, ReloadNotLost, ResetNetworkBaseline
  <2>3. BaselineInv'
    BY <1>2 DEF BaselineInv, ResetNetworkBaseline
  <2>4. LateInv'
    BY <1>2 DEF LateInv, OneSleepAfterStop, Ended, ResetNetworkBaseline
  <2>5. QED
    BY <2>1, <2>2, <2>3, <2>4
<1>3. CASE CalculateSpeed
  <2>1. TypeOK'
    BY VersionAssumption, <1>3 DEF TypeOK, Versions, Ended, CalculateSpeed
  <2>2. VersionInv'
    BY <1>3 DEF VersionInv, ReloadNotLost, CalculateSpeed
  <2>3. BaselineInv'
    BY <1>3 DEF BaselineInv, CalculateSpeed
  <2>4. LateInv'
    BY <1>3 DEF LateInv, OneSleepAfterStop, Ended, CalculateSpeed
  <2>5. QED
    BY <2>1, <2>2, <2>3, <2>4
<1>4. CASE EndRound
  <2>1. TypeOK'
    BY VersionAssumption, <1>4 DEF TypeOK, Versions, Ended, EndRound
  <2>2. VersionInv'
    BY <1>4 DEF VersionInv, ReloadNotLost, EndRound
  <2>3. BaselineInv'
    BY <1>4 DEF BaselineInv, EndRound
  <2>4. LateInv'
    BY <1>4 DEF LateInv, OneSleepAfterStop, Ended, EndRound
  <2>5. QED
    BY <2>1, <2>2, <2>3, <2>4
<1>5. CASE Fails
  <2>1. TypeOK'
    BY VersionAssumption, <1>5 DEF TypeOK, Versions, Ended, Fails
  <2>2. VersionInv'
    BY <1>5 DEF VersionInv, ReloadNotLost, Fails
  <2>3. BaselineInv'
    BY <1>5 DEF BaselineInv, Fails
  <2>4. LateInv'
    BY <1>5 DEF LateInv, OneSleepAfterStop, Ended, Fails
  <2>5. QED
    BY <2>1, <2>2, <2>3, <2>4
<1>6. CASE ShutDown
  <2>1. TypeOK'
    BY VersionAssumption, <1>6 DEF TypeOK, Versions, Ended, ShutDown
  <2>2. VersionInv'
    BY <1>6 DEF VersionInv, ReloadNotLost, ShutDown
  <2>3. BaselineInv'
    BY <1>6 DEF BaselineInv, ShutDown
  <2>4. LateInv'
    BY <1>6 DEF LateInv, OneSleepAfterStop, Ended, ShutDown
  <2>5. QED
    BY <2>1, <2>2, <2>3, <2>4
<1>7. QED
  BY <1>1, <1>2, <1>3, <1>4, <1>5, <1>6

LEMMA Stutters == IInv /\ UNCHANGED vars => IInv'
<1> SUFFICES ASSUME IInv, UNCHANGED vars PROVE IInv'
  OBVIOUS
<1> USE DEF IInv, vars, flags, network
<1>1. TypeOK'
  BY DEF TypeOK
<1>2. VersionInv'
  BY DEF VersionInv, ReloadNotLost
<1>3. BaselineInv'
  BY DEF BaselineInv
<1>4. LateInv'
  BY DEF LateInv, OneSleepAfterStop
<1>5. QED
  BY <1>1, <1>2, <1>3, <1>4

LEMMA Inductive == Spec => []IInv
<1>1. IInv /\ [Next]_vars => IInv'
  BY OutsidePreserves, LoopPreserves, ReloadPreserves, RoundPreserves, Stutters
     DEF Next, Main
<1>2. QED
  BY InitEstablishes, <1>1, PTL DEF Spec

\* The variables keep their types.
THEOREM DaemonTypes == Spec => []TypeOK
<1>1. IInv => TypeOK
  BY DEF IInv
<1>2. QED
  BY Inductive, <1>1, PTL

\* A SIGHUP is either pending or served by a load that opened the file since:
\* main clears reload_requested before it opens the file, never after.
THEOREM ReloadKept == Spec => []ReloadNotLost
<1>1. IInv => ReloadNotLost
  BY DEF IInv, VersionInv
<1>2. QED
  BY Inductive, <1>1, PTL

\* A network speed is never computed across a reload, nor without a sleep.
THEOREM SpeedComparable == Spec => []SpeedBaseComparable
<1>1. IInv => SpeedBaseComparable
  BY DEF IInv, BaselineInv, SpeedBaseComparable
<1>2. QED
  BY Inductive, <1>1, PTL

\* Sleeping past a stop signal happens at most once, and nothing follows it.
THEOREM StopPrompt == Spec => []OneSleepAfterStop
<1>1. IInv => OneSleepAfterStop
  BY DEF IInv, LateInv
<1>2. QED
  BY Inductive, <1>1, PTL

-----------------------------------------------------------------------------
(* How far the daemon is from its end, and from the next load: what makes  *)
(* StopEnds and ReloadServed true, but for the scheduling.                 *)

\* Steps to the end, at most, once the stop flag is set.
StepsToEnd(at) ==
    CASE at = "shut down" -> 1 [] at \in {"loop", "awake"} -> 2
      [] at \in {"start", "rest", "asleep"} -> 3
      [] at \in {"install handlers", "network", "before sleep"} -> 4
      [] at = "round" -> 5 [] at = "apply" -> 6 [] at = "load" -> 7 [] OTHER -> 0

\* Steps to the next load, at most, while a reload is requested.
StepsToLoad(at) ==
    CASE at = "load" -> 0 [] at = "awake" -> 1 [] at = "asleep" -> 2
      [] at = "before sleep" -> 3 [] at = "loop" -> 4
      [] at \in {"start", "rest"} -> 5 [] at \in {"install handlers", "network"} -> 6
      [] at = "round" -> 7 [] at = "apply" -> 8 [] OTHER -> 9

Leaving == Ended \cup {"shut down"}

\* The stop flag is final, and every step of the daemon after it is one step
\* nearer to the end, whatever signals and edits come in between.
StopIsNearer ==
    ~ keep_running =>
        /\ ~ keep_running'
        /\ StepsToEnd(pc) \in Nat /\ StepsToEnd(pc') \in Nat
        /\ StepsToEnd(pc') =< StepsToEnd(pc)
        /\ Main => StepsToEnd(pc') < StepsToEnd(pc)

\* While the version on disk at the last SIGHUP has not been read, every step
\* of the daemon leads it nearer to the load that reads it, or out.
ReloadIsNearer ==
    \A v \in Versions :
        v <= hist.hup /\ hist.read < v /\ pc \notin Leaving =>
            /\ v <= hist'.hup
            /\ \/ hist'.read >= v \/ pc' \in Leaving
               \/ /\ StepsToLoad(pc) \in Nat /\ StepsToLoad(pc') \in Nat
                  /\ StepsToLoad(pc') =< StepsToLoad(pc)
                  /\ Main => StepsToLoad(pc') < StepsToLoad(pc)

LEMMA StepsAreNat ==
  ASSUME TypeOK, TypeOK'
  PROVE  /\ StepsToEnd(pc) \in Nat /\ StepsToEnd(pc') \in Nat
         /\ StepsToLoad(pc) \in Nat /\ StepsToLoad(pc') \in Nat
BY DEF TypeOK, StepsToEnd, StepsToLoad, Ended

\* The two tables, place by place.
LEMMA EndTable ==
  ASSUME NEW at
  PROVE  /\ at \in Ended => StepsToEnd(at) = 0
         /\ at = "shut down" => StepsToEnd(at) = 1
         /\ at \in {"loop", "awake"} => StepsToEnd(at) = 2
         /\ at \in {"start", "rest", "asleep"} => StepsToEnd(at) = 3
         /\ at \in {"install handlers", "network", "before sleep"} => StepsToEnd(at) = 4
         /\ at = "round" => StepsToEnd(at) = 5
         /\ at = "apply" => StepsToEnd(at) = 6
         /\ at = "load" => StepsToEnd(at) = 7
BY DEF StepsToEnd, Ended

LEMMA LoadTable ==
  ASSUME NEW at
  PROVE  /\ at = "load" => StepsToLoad(at) = 0
         /\ at = "awake" => StepsToLoad(at) = 1
         /\ at = "asleep" => StepsToLoad(at) = 2
         /\ at = "before sleep" => StepsToLoad(at) = 3
         /\ at = "loop" => StepsToLoad(at) = 4
         /\ at \in {"start", "rest"} => StepsToLoad(at) = 5
         /\ at \in {"install handlers", "network"} => StepsToLoad(at) = 6
         /\ at = "round" => StepsToLoad(at) = 7
         /\ at = "apply" => StepsToLoad(at) = 8
BY DEF StepsToLoad

\* Where the daemon goes, by action.
LEMMA Moves ==
  ASSUME Main
  PROVE  \/ pc = "install handlers" /\ pc' = "start"
         \/ pc \in {"start", "rest"} /\ pc' = "loop"
         \/ pc = "loop" /\ pc' = "before sleep" /\ keep_running
         \/ pc \in {"loop", "awake"} /\ pc' = "shut down"
         \/ pc = "before sleep" /\ pc' = "asleep"
         \/ pc = "asleep" /\ pc' = "awake"
         \/ pc = "awake" /\ pc' = "load" /\ keep_running
         \/ pc = "awake" /\ pc' = "round" /\ keep_running /\ ~ reload_requested
         \/ pc = "load" /\ pc' \in {"apply", "round"} /\ Load
         \/ pc = "apply" /\ pc' = "round"
         \/ pc = "round" /\ pc' = "network"
         \/ pc = "network" /\ pc' = "rest"
         \/ pc \in {"start", "round", "network", "rest"} /\ pc' = "failed"
         \/ pc = "shut down" /\ pc' = "stopped"
<1>1. CASE InstallHandlers \/ Started \/ LoopTest \/ FallAsleep \/ WakeUp
  BY Zenon, <1>1 DEF InstallHandlers, Started, LoopTest, FallAsleep, WakeUp, Continues
<1>2. CASE AfterSleep
  BY Zenon, <1>2 DEF AfterSleep, Continues
<1>3. CASE Load
  BY Zenon, <1>3 DEF Load, ReloadEnds
<1>4. CASE ApplyFails \/ Apply
  BY Zenon, <1>4 DEF ApplyFails, Apply, ReloadEnds
<1>5. CASE MeasureFirst \/ ResetNetworkBaseline \/ CalculateSpeed \/ EndRound
             \/ Fails \/ ShutDown
  BY Zenon, <1>5 DEF MeasureFirst, ResetNetworkBaseline, CalculateSpeed, EndRound,
        Fails, ShutDown
<1> QED BY Zenon, <1>1, <1>2, <1>3, <1>4, <1>5 DEF Main

LEMMA MainIsNearer ==
  ASSUME Main, ~ keep_running
  PROVE  ~ keep_running' /\ StepsToEnd(pc') < StepsToEnd(pc)
<1>1. keep_running' = keep_running
  BY Zenon DEF Main, flags, InstallHandlers, Started, LoopTest, FallAsleep, WakeUp,
       AfterSleep, Load, ApplyFails, Apply, MeasureFirst, ResetNetworkBaseline,
       CalculateSpeed, EndRound, Fails, ShutDown
<1>2. \/ pc = "install handlers" /\ pc' = "start"
      \/ pc \in {"start", "rest"} /\ pc' = "loop"
      \/ pc \in {"loop", "awake"} /\ pc' = "shut down"
      \/ pc = "before sleep" /\ pc' = "asleep"
      \/ pc = "asleep" /\ pc' = "awake"
      \/ pc = "load" /\ pc' \in {"apply", "round"}
      \/ pc = "apply" /\ pc' = "round"
      \/ pc = "round" /\ pc' = "network"
      \/ pc = "network" /\ pc' = "rest"
      \/ pc \in {"start", "round", "network", "rest"} /\ pc' = "failed"
      \/ pc = "shut down" /\ pc' = "stopped"
  BY Zenon, Moves
<1>3. <<StepsToEnd(pc), StepsToEnd(pc')>> \in
         {<<7, 6>>, <<7, 5>>, <<6, 5>>, <<5, 4>>, <<4, 3>>, <<3, 2>>, <<2, 1>>,
          <<5, 0>>, <<4, 0>>, <<3, 0>>, <<1, 0>>}
  BY Zenon, <1>2, EndTable DEF Ended
<1>4. StepsToEnd(pc') < StepsToEnd(pc)
  BY ONLY <1>3
<1> QED BY Zenon, <1>1, <1>4

LEMMA OutsideIsNoFarther ==
  ASSUME IInv, IInv', Outside \/ UNCHANGED vars
  PROVE  /\ ~ keep_running => ~ keep_running'
         /\ StepsToEnd(pc') =< StepsToEnd(pc)
         /\ pc' \in Leaving \/ StepsToLoad(pc') =< StepsToLoad(pc)
<1>0. StepsToEnd(pc) \in Nat /\ StepsToLoad(pc) \in Nat
  BY StepsAreNat DEF IInv
<1>1. ~ keep_running => ~ keep_running'
  BY Zenon DEF Outside, vars, flags, Edit, StopSignal, ReloadSignal, EarlySignal
<1>2. \/ pc' = pc
      \/ pc = "asleep" /\ pc' = "awake"
      \/ pc = "install handlers" /\ pc' = "killed"
  BY Zenon DEF Outside, vars, Edit, StopSignal, ReloadSignal, EarlySignal, Interrupts
<1>3. \/ StepsToEnd(pc') = StepsToEnd(pc)
      \/ <<StepsToEnd(pc), StepsToEnd(pc')>> \in {<<3, 2>>, <<4, 0>>}
  BY Zenon, <1>2, EndTable DEF Ended
<1>4. StepsToEnd(pc') =< StepsToEnd(pc)
  BY ONLY <1>0, <1>3
<1>5. \/ pc' = "killed" \/ StepsToLoad(pc') = StepsToLoad(pc)
      \/ StepsToLoad(pc) = 2 /\ StepsToLoad(pc') = 1
  BY Zenon, <1>2, LoadTable
<1>6. (\/ StepsToLoad(pc') = StepsToLoad(pc)
       \/ StepsToLoad(pc) = 2 /\ StepsToLoad(pc') = 1)
         => StepsToLoad(pc') =< StepsToLoad(pc)
  BY ONLY <1>0
<1> QED BY Zenon, <1>1, <1>4, <1>5, <1>6 DEF Leaving, Ended

\* After a stop signal the daemon is at most seven steps from its end, and every
\* step it takes is one of them.
THEOREM StopComesNearer == Spec => [][StopIsNearer]_vars
<1>1. IInv /\ IInv' /\ [Next]_vars => StopIsNearer
  <2> SUFFICES ASSUME IInv, IInv', [Next]_vars, ~ keep_running
               PROVE  /\ ~ keep_running'
                      /\ StepsToEnd(pc) \in Nat /\ StepsToEnd(pc') \in Nat
                      /\ StepsToEnd(pc') =< StepsToEnd(pc)
                      /\ Main => StepsToEnd(pc') < StepsToEnd(pc)
    BY DEF StopIsNearer
  <2>1. StepsToEnd(pc) \in Nat /\ StepsToEnd(pc') \in Nat
    BY StepsAreNat DEF IInv
  <2>2. Main => ~ keep_running' /\ StepsToEnd(pc') < StepsToEnd(pc)
    BY MainIsNearer
  <2>3. ~ Main => ~ keep_running' /\ StepsToEnd(pc') =< StepsToEnd(pc)
    BY OutsideIsNoFarther DEF Next
  <2> QED BY ONLY <2>1, <2>2, <2>3
<1> QED BY <1>1, Inductive, PTL DEF Spec

LEMMA VersionsAreNat ==
  ASSUME IInv, IInv'
  PROVE  /\ {hist.hup, hist.read, disk.version} \subseteq Nat
         /\ {hist'.hup, hist'.read, disk'.version} \subseteq Nat
         /\ Versions \subseteq Nat
<1>1. Versions \subseteq Nat
  BY DEF Versions
<1> QED BY <1>1 DEF IInv, TypeOK

LEMMA SignalsAreLater ==
  ASSUME IInv, IInv', [Next]_vars
  PROVE  hist.hup <= hist'.hup
<1>1. CASE hist'.hup = hist.hup
  BY <1>1, VersionsAreNat
<1>2. CASE ReloadSignal
  <2>1. hist'.hup = disk.version
    BY <1>2 DEF ReloadSignal, IInv, TypeOK
  <2> QED BY <2>1 DEF IInv, VersionInv
<1>3. CASE FallAsleep \/ Load
  BY <1>1, <1>3 DEF FallAsleep, Load, IInv, TypeOK
<1>4. CASE hist' = hist
  BY <1>1, <1>4
<1> QED
  BY <1>2, <1>3, <1>4
     DEF Next, Outside, Main, Edit, StopSignal, EarlySignal, InstallHandlers,
         Started, LoopTest, WakeUp, AfterSleep, ApplyFails, Apply, MeasureFirst,
         ResetNetworkBaseline, CalculateSpeed, EndRound, Fails, ShutDown, vars

\* A load reads the version on disk, so every one that was signalled; any
\* other step goes on to the load, because the request stays where it is.
LEMMA MainLeadsToLoad ==
  ASSUME IInv, IInv', Main, hist.read < hist.hup, pc \notin Leaving
  PROVE  \/ hist'.read >= hist.hup \/ pc' \in Leaving
         \/ StepsToLoad(pc') < StepsToLoad(pc)
<1>1. ~ (hist.read >= hist.hup)
  BY VersionsAreNat
<1>2. pc # "load" => reload_requested
  BY Zenon, <1>1 DEF IInv, VersionInv, ReloadNotLost
<1>3. CASE Load
  <2>1. hist'.read = disk.version
    BY <1>3 DEF Load, IInv, TypeOK
  <2>2. disk.version >= hist.hup
    BY VersionsAreNat DEF IInv, VersionInv
  <2> QED BY <2>1, <2>2
<1>4. \/ pc = "install handlers" /\ pc' = "start"
      \/ pc \in {"start", "rest"} /\ pc' = "loop"
      \/ pc = "loop" /\ pc' = "before sleep"
      \/ pc' \in {"shut down", "failed", "stopped"}
      \/ pc = "before sleep" /\ pc' = "asleep"
      \/ pc = "asleep" /\ pc' = "awake"
      \/ pc = "awake" /\ pc' = "load"
      \/ Load
      \/ pc = "apply" /\ pc' = "round"
      \/ pc = "round" /\ pc' = "network"
      \/ pc = "network" /\ pc' = "rest"
  BY Zenon, <1>2, Moves
<1>5. \/ Load \/ pc' \in {"shut down", "failed", "stopped"}
      \/ <<StepsToLoad(pc), StepsToLoad(pc')>> \in
            {<<8, 7>>, <<7, 6>>, <<6, 5>>, <<5, 4>>, <<4, 3>>, <<3, 2>>, <<2, 1>>,
             <<1, 0>>}
  BY Zenon, <1>4, LoadTable
<1>6. <<StepsToLoad(pc), StepsToLoad(pc')>> \in
            {<<8, 7>>, <<7, 6>>, <<6, 5>>, <<5, 4>>, <<4, 3>>, <<3, 2>>, <<2, 1>>,
             <<1, 0>>}
         => StepsToLoad(pc') < StepsToLoad(pc)
  OBVIOUS
<1> QED BY Zenon, <1>3, <1>5, <1>6 DEF Leaving, Ended

\* After a SIGHUP the daemon is at most eight steps from opening the file that
\* was there then, or a later one: no reload that is in progress, nor one that
\* fails, and no further signal makes it miss the request.
THEOREM ReloadComesNearer == Spec => [][ReloadIsNearer]_vars
<1>1. IInv /\ IInv' /\ [Next]_vars => ReloadIsNearer
  <2> SUFFICES ASSUME IInv, IInv', [Next]_vars, NEW v \in Versions,
                      v <= hist.hup, hist.read < v, pc \notin Leaving
               PROVE  /\ v <= hist'.hup
                      /\ \/ hist'.read >= v \/ pc' \in Leaving
                         \/ /\ StepsToLoad(pc) \in Nat /\ StepsToLoad(pc') \in Nat
                            /\ StepsToLoad(pc') =< StepsToLoad(pc)
                            /\ Main => StepsToLoad(pc') < StepsToLoad(pc)
    BY DEF ReloadIsNearer
  <2>0. v \in Nat /\ {hist.hup, hist.read, hist'.hup, hist'.read} \subseteq Nat
    BY VersionsAreNat
  <2>1. v <= hist'.hup
    BY <2>0, SignalsAreLater
  <2>2. StepsToLoad(pc) \in Nat /\ StepsToLoad(pc') \in Nat
    BY StepsAreNat DEF IInv
  <2>3. hist.read < hist.hup
    BY <2>0
  <2>4. Main => \/ hist'.read >= v \/ pc' \in Leaving
                \/ StepsToLoad(pc') < StepsToLoad(pc)
    BY <2>0, <2>3, MainLeadsToLoad
  <2>5. ~ Main => pc' \in Leaving \/ StepsToLoad(pc') =< StepsToLoad(pc)
    BY OutsideIsNoFarther DEF Next
  <2>6. StepsToLoad(pc') < StepsToLoad(pc) => StepsToLoad(pc') =< StepsToLoad(pc)
    BY ONLY <2>2
  <2> QED BY ONLY <2>1, <2>2, <2>4, <2>5, <2>6
<1> QED BY <1>1, Inductive, PTL DEF Spec

=============================================================================
