---------------------------- MODULE MCConfigLoad ----------------------------
(***************************************************************************)
(* An instance of ConfigLoad: lists of at most two names, an int of eight  *)
(* bits, and lines that matter to one another.                             *)
(***************************************************************************)
EXTENDS ConfigLoad

CONSTANTS a, b, blankB,      \* names; blankB is b after a blank
          command

MCWords == {a, b, blankB, command, Empty, TooLong, DefaultLogFile}
MCTrim(word) == IF word = blankB THEN b ELSE word
MCFitsBuffer(text) == Fits(text)

Setting(k, text) == [kind |-> "setting", key |-> k, value |-> text]

\* A comment; a value that would be read as no setting at all; what may name
\* the targets, in the range of an int, beyond it, and beyond the type; pairs
\* that are valid in one order of their lines only once both are read.
MCLines ==
    {[kind |-> "skipped", key |-> "", value |-> <<>>],
     Setting("process_pid", <<5>>),
     Setting("process_pid", <<200>>),
     Setting("process_pid", <<300>>),
     Setting("process_name", <<a>>),
     Setting("process_names", <<b, blankB>>),
     Setting("process_names", <<>>),
     Setting("network_interfaces", <<b, blankB>>),
     Setting("network_interfaces", <<a, blankB>>),
     Setting("notification_enabled", <<1>>),
     Setting("notification_command", <<command>>),
     Setting("cpu_warning_threshold", <<95>>),
     Setting("cpu_critical_threshold", <<99>>)}

=============================================================================
