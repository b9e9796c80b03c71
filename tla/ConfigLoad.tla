----------------------------- MODULE ConfigLoad -----------------------------
(***************************************************************************)
(* The configuration: src/config.c line by line, and the two places of     *)
(* src/main.c that load it, the start and the reload, up to the targets    *)
(* they set up.                                                            *)
(*                                                                         *)
(* A configuration is a record with a field for each key.  A line is what  *)
(* fgets returns, cut at '='; a text is the sequence of its parts between  *)
(* commas, and a part is a number when it reads as one, a word otherwise.  *)
(***************************************************************************)
EXTENDS Integers, Sequences, FiniteSets

CONSTANTS
    Words,                        \* parts that are not numbers
    Empty,                        \* nothing between two commas
    TooLong,                      \* a part longer than any buffer
    DefaultLogFile,               \* "logs/edgesentinel.log"
    DefaultLogMaxSize,            \* 1048576
    Trim(_),                      \* a part without the blanks around it
    FitsBuffer(_),                \* a list, blanks and all, fits interfaces_buffer
    Lines,                        \* the lines a file may hold
    MaxLines,                     \* bound: lines of a file
    IntMax, UIntMax, ULongMax,    \* INT_MAX, UINT_MAX, ULONG_MAX
    CONFIG_MAX_PROCESS_NAMES,
    CONFIG_MAX_NETWORK_INTERFACES,
    MAX_MONITORED_PROCESSES

Texts == Seq(Int \cup Words)

PercentPairs ==
    {<<"cpu_warning_threshold", "cpu_critical_threshold">>,
     <<"memory_warning_threshold", "memory_critical_threshold">>,
     <<"disk_warning_threshold", "disk_critical_threshold">>}
ProcessPairs ==
    {<<"process_cpu_warning_threshold", "process_cpu_critical_threshold">>,
     <<"process_memory_warning_threshold_mib",
       "process_memory_critical_threshold_mib">>}
ThresholdPairs == PercentPairs \cup ProcessPairs

UIntKeys == {"monitor_interval", "process_pid", "notification_enabled"}
ThresholdKeys == UNION {{pair[1], pair[2]} : pair \in ThresholdPairs}
NumberKeys == UIntKeys \cup ThresholdKeys \cup {"log_max_size"}
TextKeys == {"process_name", "notification_command", "log_file"}
ListKeys == {"process_names", "network_interfaces"}
Keys == NumberKeys \cup TextKeys \cup ListKeys

ASSUME WordAssumption ==
    /\ {Empty, TooLong, DefaultLogFile} \subseteq Words
    /\ Words \cap Int = {}
    /\ DefaultLogFile # TooLong
ASSUME TrimAssumption == \A word \in Words : Trim(word) \in Words
ASSUME WidthAssumption ==
    /\ IntMax \in Nat \ {0} /\ UIntMax = 2 * IntMax + 1
    /\ ULongMax \in Nat /\ DefaultLogMaxSize \in 1 .. ULongMax
ASSUME BoundAssumption ==
    /\ MaxLines \in Nat
    /\ CONFIG_MAX_PROCESS_NAMES \in Nat \ {0}
    /\ CONFIG_MAX_NETWORK_INTERFACES \in Nat \ {0}
    /\ MAX_MONITORED_PROCESSES \in Nat
    /\ CONFIG_MAX_PROCESS_NAMES =< MAX_MONITORED_PROCESSES

\* A setting may have any key, known or not, and an empty key or value.
ASSUME LineAssumption ==
    \A line \in Lines :
       /\ line.kind \in {"skipped", "no separator", "setting"}
       /\ line.kind = "setting" =>
             line.value \in Texts /\ line.value # <<Empty>>

VARIABLES
    pc,                \* what the daemon does next
    starting,          \* the configuration is loaded for the first time
    config,            \* the configuration in force
    reloaded_config,   \* the one a reload is loading
    loaded_config,     \* config_load's own copy
    has_error,         \* config_load met a line it does not accept
    targets,           \* [name, pid] of each monitored process
    hist               \* history: the lines read, and was the file cut short?

vars == <<pc, starting, config, reloaded_config, loaded_config, has_error,
          targets, hist>>

-----------------------------------------------------------------------------
(* config_set_defaults, config_set_value, config_validate.                 *)

Defaults ==
    [monitor_interval |-> 1,
     process_pid |-> 0, process_name |-> <<>>, process_names |-> <<>>,
     network_interfaces |-> <<>>,
     notification_enabled |-> 0, notification_command |-> <<>>,
     cpu_warning_threshold |-> 70, cpu_critical_threshold |-> 90,
     process_cpu_warning_threshold |-> 70,
     process_cpu_critical_threshold |-> 90,
     process_memory_warning_threshold_mib |-> 100,
     process_memory_critical_threshold_mib |-> 200,
     memory_warning_threshold |-> 75, memory_critical_threshold |-> 90,
     disk_warning_threshold |-> 80, disk_critical_threshold |-> 90,
     log_file |-> <<DefaultLogFile>>, log_max_size |-> DefaultLogMaxSize]

\* Fault: the value of strtoul is cut to the width of the field.
IsAnyUnsigned(text, max) == Len(text) = 1 /\ text[1] \in Nat

\* parse_unsigned_int and parse_unsigned_long: digits only, within the type.
IsUnsigned(text, max) == Len(text) = 1 /\ text[1] \in 0 .. max

\* parse_double: any finite number.
IsDouble(text) == Len(text) = 1 /\ text[1] \in Int

Fits(text) == \A i \in DOMAIN text : text[i] # TooLong

\* 1 to max names, no empty one (so no comma at either end, no two together),
\* none too long, none twice.
IsList(text, max) ==
    /\ Len(text) \in 1 .. max
    /\ Fits(text)
    /\ \A i \in DOMAIN text :
          /\ text[i] # Empty
          /\ \A j \in DOMAIN text : text[i] = text[j] => i = j

\* The names of interfaces are trimmed, those of processes are not.
Trimmed(text) ==
    [i \in DOMAIN text |-> IF text[i] \in Words THEN Trim(text[i]) ELSE text[i]]

ValidInterfaces(text) ==
    FitsBuffer(text) /\ IsList(Trimmed(text), CONFIG_MAX_NETWORK_INTERFACES)

\* What config_set_value accepts.
Accepts(key, text) ==
    \/ key \in UIntKeys /\ IsUnsigned(text, UIntMax)
       /\ (key = "notification_enabled" => text[1] \in {0, 1})
    \/ key = "log_max_size" /\ IsUnsigned(text, ULongMax)
    \/ key \in ThresholdKeys /\ IsDouble(text)
    \/ key \in TextKeys /\ Fits(text)
    \/ key = "process_names" /\ IsList(text, CONFIG_MAX_PROCESS_NAMES)
    \/ key = "network_interfaces" /\ ValidInterfaces(text)

Stored(key, text) ==
    IF key \in NumberKeys THEN text[1]
    ELSE IF key = "network_interfaces" THEN Trimmed(text) ELSE text

\* Fault: process_name and process_names replace each other.
SetValueLastWins(c, key, text) ==
    IF key = "process_names"
    THEN [c EXCEPT !.process_names = text, !.process_name = <<text[1]>>]
    ELSE IF key = "process_name"
    THEN [c EXCEPT !.process_name = text, !.process_names = <<>>]
    ELSE [c EXCEPT ![key] = Stored(key, text)]

\* The first of several names is the process_name as well.
SetValue(c, key, text) ==
    IF key = "process_names"
    THEN [c EXCEPT !.process_names = text, !.process_name = <<text[1]>>]
    ELSE [c EXCEPT ![key] = Stored(key, text)]

\* Fault: config_validate does not look at process_pid.
ValidPidUnchecked(c) == TRUE

\* A PID is given to the system as an int.
ValidPid(c) == c.process_pid =< IntMax

Valid(c) ==
    /\ c.monitor_interval > 0
    /\ ValidPid(c)
    /\ Len(c.process_names) =< CONFIG_MAX_PROCESS_NAMES
    /\ \A i \in DOMAIN c.process_names : c.process_names[i] # Empty
    /\ c.network_interfaces = <<>>
       \/ IsList(c.network_interfaces, CONFIG_MAX_NETWORK_INTERFACES)
    /\ c.notification_enabled =< 1
    /\ c.notification_enabled = 1 => c.notification_command # <<>>
    /\ \A pair \in ThresholdPairs : 0 =< c[pair[1]] /\ c[pair[1]] < c[pair[2]]
    /\ \A pair \in PercentPairs : c[pair[2]] =< 100
    /\ c.log_file # <<>>
    /\ c.log_max_size > 0

-----------------------------------------------------------------------------
(* config_load.  At the start it fills config itself, in a reload another. *)

NewHistory == [text |-> <<>>, cut |-> FALSE]

Init ==
    /\ pc = "load" /\ starting = TRUE
    /\ config = Defaults
    /\ reloaded_config = Defaults /\ loaded_config = Defaults
    /\ has_error = FALSE
    /\ targets = <<>>
    /\ hist = NewHistory

\* At the start the defaults, validated like any other, stay; a reload ends.
LoadFails ==
    /\ pc' = IF starting THEN "validate" ELSE "run"
    /\ UNCHANGED <<starting, config, reloaded_config, loaded_config, has_error,
                   targets, hist>>

OpenFails == pc = "load" /\ LoadFails

Open ==
    /\ pc = "load"
    /\ loaded_config' = IF starting THEN config ELSE reloaded_config
    /\ has_error' = FALSE
    /\ pc' = "lines"
    /\ UNCHANGED <<starting, config, reloaded_config, targets, hist>>

Reads(line) ==
    /\ pc = "lines" /\ Len(hist.text) < MaxLines
    /\ hist' = [hist EXCEPT !.text = Append(@, line)]
    /\ UNCHANGED <<pc, starting, config, reloaded_config, targets>>

\* A blank line or a comment.
SkipLine(line) ==
    /\ Reads(line)
    /\ line.kind = "skipped"
    /\ UNCHANGED <<loaded_config, has_error>>

\* Neither the key nor the value may be empty.
Acceptable(line) ==
    /\ line.kind = "setting" /\ line.key \in Keys
    /\ line.value # <<>> /\ Accepts(line.key, line.value)

\* Fault: an accepted line makes up for those before it.
ErrorForgotten == FALSE

ErrorAfterSetting == has_error

SetLine(line) ==
    /\ Reads(line)
    /\ Acceptable(line)
    /\ loaded_config' = SetValue(loaded_config, line.key, line.value)
    /\ has_error' = ErrorAfterSetting

\* Reading goes on, to report the other errors.
RefuseLine(line) ==
    /\ Reads(line)
    /\ line.kind # "skipped" /\ ~ Acceptable(line)
    /\ has_error' = TRUE
    /\ UNCHANGED loaded_config

EndOfFile ==
    /\ pc = "lines"
    /\ pc' = "close"
    /\ UNCHANGED <<starting, config, reloaded_config, loaded_config, has_error,
                   targets, hist>>

\* fgets returns NULL, as at the end of the file.
ReadFails ==
    /\ pc = "lines"
    /\ pc' = "close"
    /\ hist' = [hist EXCEPT !.cut = TRUE]
    /\ UNCHANGED <<starting, config, reloaded_config, loaded_config, has_error,
                   targets>>

CloseFails == pc = "close" /\ LoadFails

Close ==
    /\ pc = "close"
    /\ IF has_error
       THEN LoadFails
       ELSE /\ IF starting
               THEN config' = loaded_config /\ UNCHANGED reloaded_config
               ELSE reloaded_config' = loaded_config /\ UNCHANGED config
            /\ pc' = "validate"
            /\ UNCHANGED <<starting, loaded_config, has_error, targets, hist>>

-----------------------------------------------------------------------------
(* The two callers in main, and the targets.                               *)

\* Fault: a configuration found invalid at the start stays in force.
FallbackMissing == config

Fallback == IF Valid(config) THEN config ELSE Defaults

ValidateAtStart ==
    /\ pc = "validate" /\ starting
    /\ config' = Fallback
    /\ pc' = "targets"
    /\ UNCHANGED <<starting, reloaded_config, loaded_config, has_error, targets,
                   hist>>

ValidateReloaded ==
    /\ pc = "validate" /\ ~ starting
    /\ pc' = IF Valid(reloaded_config) THEN "apply" ELSE "run"
    /\ UNCHANGED <<starting, config, reloaded_config, loaded_config, has_error,
                   targets, hist>>

\* The log and the network baseline the new configuration needs may fail.
ApplyFails ==
    /\ pc = "apply"
    /\ pc' = "run"
    /\ UNCHANGED <<starting, config, reloaded_config, loaded_config, has_error,
                   targets, hist>>

Apply ==
    /\ pc = "apply"
    /\ config' = reloaded_config
    /\ pc' = "targets"
    /\ UNCHANGED <<starting, reloaded_config, loaded_config, has_error, targets,
                   hist>>

\* (int) of an unsigned int.
AsInt(n) == IF n =< IntMax THEN n ELSE n - (UIntMax + 1)

\* Fault: the single name goes before the list.
SingleNameFirst ==
    IF config.process_names # <<>> /\ config.process_name = <<>>
    THEN [i \in DOMAIN config.process_names |->
             [name |-> <<config.process_names[i]>>,
              pid |-> AsInt(config.process_pid)]]
    ELSE <<[name |-> config.process_name, pid |-> AsInt(config.process_pid)]>>

\* process_names before process_name before process_pid; 0 is the daemon.
Configured ==
    IF config.process_names # <<>>
    THEN [i \in DOMAIN config.process_names |->
             [name |-> <<config.process_names[i]>>,
              pid |-> AsInt(config.process_pid)]]
    ELSE <<[name |-> config.process_name, pid |-> AsInt(config.process_pid)]>>

\* monitored_process_init and the size of the array: main returns 1.
Monitorable(list) ==
    /\ Len(list) =< MAX_MONITORED_PROCESSES
    /\ \A i \in DOMAIN list : list[i].pid >= 0 /\ Fits(list[i].name)

SetUpTargets ==
    /\ pc = "targets"
    /\ IF Monitorable(Configured)
       THEN pc' = "run" /\ targets' = Configured
       ELSE pc' = "failed" /\ UNCHANGED targets
    /\ UNCHANGED <<starting, config, reloaded_config, loaded_config, has_error,
                   hist>>

\* Fault: a reload starts from the configuration in force.
FromConfig == config

ReloadBase == Defaults

\* SIGHUP.  What config_load left in its copy is gone.
Reload ==
    /\ pc = "run"
    /\ reloaded_config' = ReloadBase
    /\ loaded_config' = Defaults /\ has_error' = FALSE
    /\ starting' = FALSE
    /\ pc' = "load"
    /\ hist' = NewHistory
    /\ UNCHANGED <<config, targets>>

Next ==
    \/ OpenFails \/ Open
    \/ \E line \in Lines : SkipLine(line) \/ SetLine(line) \/ RefuseLine(line)
    \/ EndOfFile \/ ReadFails \/ CloseFails \/ Close
    \/ ValidateAtStart \/ ValidateReloaded \/ ApplyFails \/ Apply
    \/ SetUpTargets \/ Reload

Spec == Init /\ [][Next]_vars

-----------------------------------------------------------------------------
(* Properties.                                                             *)

IsConfig(c) ==
    /\ DOMAIN c = Keys
    /\ \A key \in UIntKeys : c[key] \in 0 .. UIntMax
    /\ c.log_max_size \in 0 .. ULongMax
    /\ \A key \in ThresholdKeys : c[key] \in Int
    /\ \A key \in TextKeys \cup ListKeys : c[key] \in Texts /\ Fits(c[key])

\* Type invariant.
TypeOK ==
    /\ pc \in {"load", "lines", "close", "validate", "apply", "targets", "run",
               "failed"}
    /\ starting \in BOOLEAN /\ has_error \in BOOLEAN
    /\ IsConfig(config) /\ IsConfig(reloaded_config) /\ IsConfig(loaded_config)
    /\ targets \in Seq([name : Texts, pid : Int])
    /\ hist \in [text : Seq(Lines), cut : BOOLEAN]

\* The configuration in force, from the defaults or a file, by the start or a
\* reload, is one the rest of the program can use: each metric has a warning
\* below its critical level, no interface is counted twice, notifications have
\* a command, the interval and the size of the log are not zero.
InForceIsUsable ==
    pc \in {"targets", "run"} \/ ~ starting =>
       /\ config.monitor_interval > 0 /\ config.log_max_size > 0
       /\ config.log_file # <<>>
       /\ \A pair \in ThresholdPairs :
             0 =< config[pair[1]] /\ config[pair[1]] < config[pair[2]]
       /\ config.notification_enabled = 1 => config.notification_command # <<>>
       /\ \A i, j \in DOMAIN config.network_interfaces :
             config.network_interfaces[i] = config.network_interfaces[j] => i = j

\* Whatever the file says, main sets up its targets: it never ends because of a
\* number or a name it has accepted, at the start or in a reload.
TargetsMonitorable == pc # "failed"

Sets(line, key) ==
    /\ line.kind = "setting"
    /\ line.key = key \/ (key = "process_name" /\ line.key = "process_names")

Last(text, key) ==
    {i \in DOMAIN text :
        Sets(text[i], key) /\ \A j \in DOMAIN text : Sets(text[j], key) => j =< i}

The(set) == CHOOSE x \in set : TRUE

MeaningOf(text, key) ==
    LET line == text[The(Last(text, key))]
    IN IF Last(text, key) = {} THEN Defaults[key]
       ELSE IF line.key = key THEN Stored(key, line.value)
       ELSE <<line.value[1]>>

\* What an acceptable text means: of each key the last line, or the default.
Meaning(text) == [key \in Keys |-> MeaningOf(text, key)]

AllAcceptable(text) ==
    \A i \in DOMAIN text : text[i].kind = "skipped" \/ Acceptable(text[i])

\* The configuration never changes but to the defaults or to the meaning of the
\* text that was read, all of its lines acceptable: no line that was refused, no
\* line left over from the configuration before, no line of an earlier load
\* (config.c: only when the whole file is correct is the result written back).
WholeTextOrNothing ==
    [][config' # config /\ config' # Defaults =>
         /\ AllAcceptable(hist.text)
         /\ config' = Meaning(hist.text)]_vars

\* The lines that say it (README.md, the order of precedence): process_names if
\* any line sets it, then process_name, then process_pid, in whatever order the
\* lines come.
DocumentedTargets(text) ==
    LET of(key) == {i \in DOMAIN text :
                       text[i].kind = "setting" /\ text[i].key = key}
        last(key) == text[CHOOSE i \in of(key) : \A j \in of(key) : j =< i].value
    IN IF of("process_names") # {}
       THEN {<<name>> : name \in {last("process_names")[i] :
                                     i \in DOMAIN last("process_names")}}
       ELSE IF of("process_name") # {} THEN {last("process_name")}
       ELSE IF of("process_pid") # {} THEN {last("process_pid")}
       ELSE {<<0>>}

\* The targets are those the text in force names.
TargetsAsDocumented ==
    [][pc = "targets" /\ pc' = "run" /\ config # Defaults =>
         DocumentedTargets(hist.text) =
            {IF targets'[i].name # <<>> THEN targets'[i].name
             ELSE <<targets'[i].pid>> : i \in DOMAIN targets'}]_vars

\* config.c, before config_load: a configuration is never loaded by half.
HalfNeverLoaded ==
    [][config' # config /\ config' # Defaults => ~ hist.cut]_vars

=============================================================================
