------------------------------- MODULE Daemon -------------------------------
(***************************************************************************)
(* The main loop of src/main.c against its two asynchronous inputs, the    *)
(* signals and the configuration file: the two flags the handlers set, the *)
(* sleep they interrupt, the reload as a transaction, and the network      *)
(* baseline a reload replaces.                                             *)
(*                                                                         *)
(* What a round measures is in ProcessMonitor and SystemAlerts: here it is *)
(* the steps whose failure ends the daemon.  A configuration is the        *)
(* version of the file it was read from: another version may monitor other *)
(* network interfaces.                                                     *)
(***************************************************************************)
EXTENDS Integers

CONSTANT MaxVersion       \* bound: versions of the configuration file

ASSUME VersionAssumption == MaxVersion \in Nat \ {0}

Versions == 1 .. MaxVersion

VARIABLES
    disk,              \* version of the file, and whether it is acceptable
    keep_running,
    reload_requested,
    pc,                \* what the daemon does next
    config,            \* version in force, 0: the defaults
    reloaded_config,   \* version a reload has loaded and validated
    previous_network,  \* [config, slept]: the baseline of the network speed:
                       \* read under which version, and asleep since?
    network_baseline_reset,
    hist               \* history, for the properties only

flags == <<keep_running, reload_requested>>
network == <<previous_network, network_baseline_reset>>
vars == <<disk, flags, pc, config, reloaded_config, network, hist>>

Ended == {"stopped", "failed", "killed"}

\* History: the version on disk when SIGHUP last came, the one the daemon last
\* opened to read, and whether it fell asleep after the stop signal.
Init ==
    /\ \E good \in BOOLEAN : disk = [version |-> 1, good |-> good]
    /\ keep_running = TRUE /\ reload_requested = FALSE
    /\ pc = "install handlers"
    /\ config = IF disk.good THEN 1 ELSE 0
    /\ reloaded_config = config
    /\ previous_network = [config |-> config, slept |-> FALSE]
    /\ network_baseline_reset = FALSE
    /\ hist = [hup |-> 1, read |-> 1, late |-> FALSE]

-----------------------------------------------------------------------------
(* Outside: somebody edits the file, or signals the daemon.                *)

Edit ==
    /\ disk.version < MaxVersion
    /\ \E good \in BOOLEAN : disk' = [version |-> disk.version + 1, good |-> good]
    /\ UNCHANGED <<flags, pc, config, reloaded_config, network, hist>>

\* A handler that returns ends the sleep it interrupted.
Interrupts == pc' = IF pc = "asleep" THEN "awake" ELSE pc

\* handle_stop_signal, for SIGINT and SIGTERM.
StopSignal ==
    /\ pc \notin Ended \cup {"install handlers"}
    /\ keep_running' = FALSE
    /\ Interrupts
    /\ UNCHANGED <<disk, reload_requested, config, reloaded_config, network, hist>>

\* handle_reload_signal.
ReloadSignal ==
    /\ pc \notin Ended \cup {"install handlers"}
    /\ reload_requested' = TRUE
    /\ hist' = [hist EXCEPT !.hup = disk.version]
    /\ Interrupts
    /\ UNCHANGED <<disk, keep_running, config, reloaded_config, network>>

\* Before main installs the handlers, any of the three signals kills.
EarlySignal ==
    /\ pc = "install handlers"
    /\ pc' = "killed"
    /\ UNCHANGED <<disk, flags, config, reloaded_config, network, hist>>

-----------------------------------------------------------------------------
(* Start, and the loop around the sleep.                                   *)

\* The handlers, then the first CPU and network readings, the logger and the
\* record "EdgeSentinel started".
InstallHandlers ==
    /\ pc = "install handlers"
    /\ pc' = "start"
    /\ UNCHANGED <<disk, flags, config, reloaded_config, network, hist>>

Started ==
    /\ pc = "start"
    /\ pc' = "loop"
    /\ UNCHANGED <<disk, flags, config, reloaded_config, network, hist>>

\* Fault: a pending reload is served before the stop.
ContinuesToReload == keep_running \/ reload_requested

\* The test of the loop, and the same one after the sleep.
Continues == keep_running

\* A signal that comes after the test and before the sleep interrupts nothing.
LoopTest ==
    /\ pc = "loop"
    /\ pc' = IF Continues THEN "before sleep" ELSE "shut down"
    /\ UNCHANGED <<disk, flags, config, reloaded_config, network, hist>>

FallAsleep ==
    /\ pc = "before sleep"
    /\ pc' = "asleep"
    /\ previous_network' = [previous_network EXCEPT !.slept = TRUE]
    /\ hist' = [hist EXCEPT !.late = ~ keep_running]
    /\ UNCHANGED <<disk, flags, config, reloaded_config, network_baseline_reset>>

WakeUp ==
    /\ pc = "asleep"
    /\ pc' = "awake"
    /\ UNCHANGED <<disk, flags, config, reloaded_config, network, hist>>

AfterSleep ==
    /\ pc = "awake"
    /\ IF ~ Continues
       THEN pc' = "shut down" /\ UNCHANGED reload_requested
       ELSE IF reload_requested
       THEN pc' = "load" /\ reload_requested' = FALSE
       ELSE pc' = "round" /\ UNCHANGED reload_requested
    /\ UNCHANGED <<disk, keep_running, config, reloaded_config, network, hist>>

-----------------------------------------------------------------------------
(* The reload.  Whatever fails, the old configuration stays in force and   *)
(* the round follows.                                                      *)

\* Fault: the flag is cleared at the end of the reload.
ClearedAtTheEnd == FALSE

\* The flag was cleared before the file was read: a signal that came since
\* then is still there.
FlagAfterwards == reload_requested

ReloadEnds == pc' = "round" /\ reload_requested' = FlagAfterwards

\* config_load and config_validate, on the file as it is now.
Load ==
    /\ pc = "load"
    /\ hist' = [hist EXCEPT !.read = disk.version]
    /\ IF disk.good
       THEN /\ pc' = "apply" /\ reloaded_config' = disk.version
            /\ UNCHANGED reload_requested
       ELSE ReloadEnds /\ UNCHANGED reloaded_config
    /\ UNCHANGED <<disk, keep_running, config, network>>

\* logger_init, the network reading or the clock fails.
ApplyFails ==
    /\ pc = "apply"
    /\ ReloadEnds
    /\ UNCHANGED <<disk, keep_running, config, reloaded_config, network, hist>>

\* Faults: the baseline is replaced and compared with at once, or copied from
\* a reading that was not taken yet.
NotReset ==
    /\ previous_network' = [config |-> reloaded_config, slept |-> FALSE]
    /\ UNCHANGED network_baseline_reset
Unread ==
    /\ previous_network' = [config |-> -1, slept |-> FALSE]
    /\ network_baseline_reset' = TRUE

\* The reading taken under the new configuration replaces the baseline, and
\* the round that follows starts from a new one.
NewBaseline ==
    /\ previous_network' = [config |-> reloaded_config, slept |-> FALSE]
    /\ network_baseline_reset' = TRUE

Apply ==
    /\ pc = "apply"
    /\ config' = reloaded_config
    /\ NewBaseline
    /\ ReloadEnds
    /\ UNCHANGED <<disk, keep_running, reloaded_config, hist>>

-----------------------------------------------------------------------------
(* The round, as far as the network.                                       *)

\* The processes and the CPU.
MeasureFirst ==
    /\ pc = "round"
    /\ pc' = "network"
    /\ UNCHANGED <<disk, flags, config, reloaded_config, network, hist>>

\* No speed: the baseline is the reading just taken.
ResetNetworkBaseline ==
    /\ pc = "network"
    /\ network_baseline_reset
    /\ previous_network' = [config |-> config, slept |-> FALSE]
    /\ network_baseline_reset' = FALSE
    /\ pc' = "rest"
    /\ UNCHANGED <<disk, flags, config, reloaded_config, hist>>

\* The speed between the baseline and the reading just taken.
CalculateSpeed ==
    /\ pc = "network"
    /\ ~ network_baseline_reset
    /\ pc' = "rest"
    /\ UNCHANGED <<disk, flags, config, reloaded_config, network, hist>>

\* Memory, disk, alerts and output; the reading becomes the next baseline.
EndRound ==
    /\ pc = "rest"
    /\ previous_network' = [config |-> config, slept |-> FALSE]
    /\ pc' = "loop"
    /\ UNCHANGED <<disk, flags, config, reloaded_config, network_baseline_reset,
                   hist>>

\* main returns 1.
Fails ==
    /\ pc \in {"start", "round", "network", "rest"}
    /\ pc' = "failed"
    /\ UNCHANGED <<disk, flags, config, reloaded_config, network, hist>>

\* The record "EdgeSentinel stopped safely", written or not.
ShutDown ==
    /\ pc = "shut down"
    /\ pc' = "stopped"
    /\ UNCHANGED <<disk, flags, config, reloaded_config, network, hist>>

Outside == Edit \/ StopSignal \/ ReloadSignal \/ EarlySignal

Main ==
    \/ InstallHandlers \/ Started
    \/ LoopTest \/ FallAsleep \/ WakeUp \/ AfterSleep
    \/ Load \/ ApplyFails \/ Apply
    \/ MeasureFirst \/ ResetNetworkBaseline \/ CalculateSpeed \/ EndRound
    \/ Fails \/ ShutDown

Next == Outside \/ Main

Spec == Init /\ [][Next]_vars

\* Fairness: the daemon is scheduled, and its sleep ends.  Nobody has to send
\* a signal or edit the file, and nothing has to fail.
FairSpec == Spec /\ WF_vars(Main)

-----------------------------------------------------------------------------
(* Properties.                                                             *)

\* Type invariant.
TypeOK ==
    /\ disk \in [version : Versions, good : BOOLEAN]
    /\ keep_running \in BOOLEAN /\ reload_requested \in BOOLEAN
    /\ pc \in Ended \cup {"install handlers", "start", "loop", "before sleep",
              "asleep", "awake", "load", "apply", "round", "network", "rest",
              "shut down"}
    /\ config \in Versions \cup {0} /\ reloaded_config \in Versions \cup {0}
    /\ previous_network \in [config : Versions \cup {0}, slept : BOOLEAN]
    /\ network_baseline_reset \in BOOLEAN
    /\ hist \in [hup : Versions, read : Versions, late : BOOLEAN]

\* No SIGHUP is lost, not even one that arrives during a reload: when no reload
\* is pending, the daemon has opened the file since the signal last came.
ReloadNotLost ==
    ~ reload_requested /\ pc # "load" => hist.read >= hist.hup

\* A network speed is computed between two readings of the same interfaces with
\* a sleep between them (README: a reload resets the baseline).  The baseline
\* always belongs to the configuration in force.
SpeedBaseComparable ==
    /\ previous_network.config = config
    /\ pc = "network" /\ ~ network_baseline_reset => previous_network.slept

\* A stop signal costs at most the sleep that was about to begin: the daemon
\* never tests the loop again, or starts a round, after sleeping past one.
OneSleepAfterStop ==
    hist.late => pc \in Ended \cup {"asleep", "awake", "shut down"}

\* After a stop signal the daemon ends, whatever signals follow.
StopEnds == ~ keep_running ~> pc \in Ended

\* After SIGHUP the daemon reads the file as it was then, or a later one, or
\* ends: the loop comes back to the flag.
ReloadServed ==
    \A v \in Versions : hist.hup = v ~> hist.read >= v \/ pc \in Ended

=============================================================================
