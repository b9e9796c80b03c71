------------------------------ MODULE Sampling ------------------------------
(***************************************************************************)
(* What the main loop reads from counters the kernel never stops moving:   *)
(* src/network.c under Daemon, with interfaces that carry traffic, go and  *)
(* come at any time.                                                       *)
(***************************************************************************)
EXTENDS Daemon, FiniteSets, Functions

CONSTANTS Interfaces, Loopback,
          Listed,         \* network_interfaces of each version
          MaxBytes,       \* bound: bytes an interface has counted
          MaxCarried      \* bound: bytes carried between two readings

ASSUME ListedAssumption == Listed \in [Versions \cup {0} -> SUBSET Interfaces]
ASSUME TrafficAssumption ==
    IsFiniteSet(Interfaces) /\ MaxBytes \in Nat /\ MaxCarried \in Nat

VARIABLES
    bytes,      \* bytes[i]: the counter of interface i, Absent if there is none
    previous,   \* previous_network: the sum read as the baseline
    current,    \* current_network: the sum read last
    speed,      \* network_speed: the bytes it is computed from
    traffic     \* history since the last reading of the loop: what the selected
                \* interfaces carried, and did one go, or come with bytes?

readings == <<previous, current, speed, traffic>>
all == <<vars, bytes, readings>>

Absent == -1
counted == [i \in Interfaces |-> IF bytes[i] = Absent THEN 0 ELSE bytes[i]]

\* network_interface_is_selected.
Selected(version) ==
    IF Listed[version] = {} THEN Interfaces \ {Loopback} ELSE Listed[version]

\* Fault: the filter of the configuration is not applied.
ReadUnfiltered(version) == SumFunctionOnSet(counted, Interfaces)

\* read_network_info_filtered.
ReadNetworkInfo(version) == SumFunctionOnSet(counted, Selected(version))

\* Fault: the difference of a counter that went down, whatever its sign.
SignedDifference == ReadNetworkInfo(config) - previous

\* calculate_network_speed: a sum that went down counts as no traffic.
Difference ==
    IF ReadNetworkInfo(config) >= previous
    THEN ReadNetworkInfo(config) - previous ELSE 0

NoTraffic == [carried |-> 0, gone |-> FALSE, came |-> FALSE]

SInit ==
    /\ Init
    /\ bytes = [i \in Interfaces |-> 0]
    /\ previous = 0 /\ current = 0 /\ speed = 0
    /\ traffic = NoTraffic

-----------------------------------------------------------------------------
(* The kernel.                                                             *)

\* The interfaces the next speed is about.
Measured == Selected(previous_network.config)

Carry(i) ==
    /\ bytes[i] \in 0 .. MaxBytes - 1
    /\ traffic.carried < MaxCarried
    /\ bytes' = [bytes EXCEPT ![i] = @ + 1]
    /\ traffic' = [traffic EXCEPT !.carried = IF i \in Measured THEN @ + 1 ELSE @]
    /\ UNCHANGED <<vars, previous, current, speed>>

Go(i) ==
    /\ bytes[i] # Absent
    /\ bytes' = [bytes EXCEPT ![i] = Absent]
    /\ traffic' = [traffic EXCEPT !.gone = @ \/ (i \in Measured /\ bytes[i] > 0)]
    /\ UNCHANGED <<vars, previous, current, speed>>

\* A new interface counts from zero; one that was renamed, or moved from another
\* network namespace, brings its count.
Come(i) ==
    /\ bytes[i] = Absent
    /\ \E n \in {0, MaxBytes} :
          /\ bytes' = [bytes EXCEPT ![i] = n]
          /\ traffic' = [traffic EXCEPT !.came = @ \/ (i \in Measured /\ n > 0)]
    /\ UNCHANGED <<vars, previous, current, speed>>

\* The loopback is always there.
Kernel ==
    \/ \E i \in Interfaces : Carry(i)
    \/ \E i \in Interfaces \ {Loopback} : Go(i) \/ Come(i)

-----------------------------------------------------------------------------
(* The steps of the daemon that read the counters.                         *)

FirstReading ==
    /\ Started
    /\ previous' = ReadNetworkInfo(config)
    /\ traffic' = NoTraffic
    /\ UNCHANGED <<bytes, current, speed>>

ReloadReading ==
    /\ Apply
    /\ current' = ReadNetworkInfo(reloaded_config)
    /\ previous' = ReadNetworkInfo(reloaded_config)
    /\ traffic' = NoTraffic
    /\ UNCHANGED <<bytes, speed>>

\* The network is read before the clock fails.
ReloadReadingFails ==
    /\ ApplyFails
    /\ current' \in {current, ReadNetworkInfo(reloaded_config)}
    /\ UNCHANGED <<bytes, previous, speed, traffic>>

BaselineReading ==
    /\ ResetNetworkBaseline
    /\ current' = ReadNetworkInfo(config)
    /\ previous' = ReadNetworkInfo(config)
    /\ speed' = 0
    /\ traffic' = NoTraffic
    /\ UNCHANGED bytes

SpeedReading ==
    /\ CalculateSpeed
    /\ current' = ReadNetworkInfo(config)
    /\ speed' = Difference
    /\ traffic' = NoTraffic
    /\ UNCHANGED <<bytes, previous>>

\* Fault: the baseline stays where it was.
BaselineKept == previous

BaselineAfter == current

RoundEnds ==
    /\ EndRound
    /\ previous' = BaselineAfter
    /\ UNCHANGED <<bytes, current, speed, traffic>>

ReadsNothing ==
    /\ \/ InstallHandlers \/ LoopTest \/ FallAsleep \/ WakeUp \/ AfterSleep
       \/ Load \/ MeasureFirst \/ Fails \/ ShutDown
    /\ UNCHANGED <<bytes, readings>>

SMain ==
    \/ FirstReading \/ ReloadReading \/ ReloadReadingFails \/ BaselineReading
    \/ SpeedReading \/ RoundEnds \/ ReadsNothing

SOutside ==
    \/ Kernel
    \/ Outside /\ UNCHANGED <<bytes, readings>>

SNext == SMain \/ SOutside

\* As in Daemon: nobody has to send a signal, and no packet has to come.
SSpec == SInit /\ [][SNext]_all /\ WF_all(SMain)

-----------------------------------------------------------------------------
(* Properties.                                                             *)

\* Type invariant, beside Daemon's: sums and speeds are never negative.
STypeOK ==
    /\ bytes \in [Interfaces -> {Absent} \cup 0 .. MaxBytes]
    /\ previous \in Nat /\ current \in Nat /\ speed \in Nat
    /\ traffic \in [carried : 0 .. MaxCarried, gone : BOOLEAN, came : BOOLEAN]

\* A speed is the traffic the selected interfaces carried since the baseline,
\* across rounds, reloads that change the selection and reloads that fail.  When
\* one of them disappears it is understated, never overstated; only an interface
\* that comes with bytes on its counter adds traffic nobody carried.
SpeedIsTraffic ==
    [][pc = "network" /\ pc' = "rest" /\ ~ network_baseline_reset =>
         /\ ~ traffic.came => speed' =< traffic.carried
         /\ ~ traffic.came /\ ~ traffic.gone => speed' = traffic.carried]_all

=============================================================================
