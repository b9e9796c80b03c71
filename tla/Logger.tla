------------------------------- MODULE Logger -------------------------------
(***************************************************************************)
(* src/logger.c as the daemon uses it: logger_init at start and at every   *)
(* reload, logger_write for every record, the rotation to "<path>.1", and  *)
(* runs of the daemon that end by a failed write, a clean stop or a kill   *)
(* at any point, with systemd or the administrator starting the next one   *)
(* on the files the last one left.                                         *)
(*                                                                         *)
(* A record is what the properties tell apart: which one, of which run,    *)
(* and whether all of it reached the file.  The operating system may kill  *)
(* the process but does not lose what it accepted (power failures and      *)
(* other writers of the files are not modelled).                           *)
(***************************************************************************)
EXTENDS Integers, Sequences

CONSTANTS Paths,          \* values of log_file
          Limits,         \* values of log_max_size, in bytes
          MaxRecordSize,  \* the longest record, in bytes
          MaxRecords,     \* bound: records begun
          MaxRuns         \* bound: runs of the daemon

\* Limits are below 2^63: the code compares them with a size as an off_t.
ASSUME LimitAssumption == Limits # {} /\ Limits \subseteq Nat \ {0}
ASSUME RecordAssumption == MaxRecordSize \in Nat \ {0}
ASSUME BoundAssumption == MaxRecords \in Nat /\ MaxRuns \in Nat

Configs == [path : Paths, limit : Limits]

VARIABLES
    file,         \* file[p]: [records, size] of path p
    backup,       \* backup[p]: the same of "<p>.1"
    config,       \* log_file and log_max_size of the configuration in force
    current_log_max_size,
    pc,           \* what the daemon does next; "down": it does not run
    closing,      \* the record being written is the last one of the run
    written,      \* records begun so far
    run,          \* runs of the daemon so far
    hist          \* per path, for the properties only

files == <<file, backup>>
vars == <<file, backup, config, current_log_max_size, pc, closing,
          written, run, hist>>

Empty == [records |-> <<>>, size |-> 0]

\* History, which no action of the program reads:
\*   allowed - the limit in force when the path was last written to
\*   dropped - a rotation has overwritten records of the path
NewHistory == [allowed |-> 0, dropped |-> FALSE]

-----------------------------------------------------------------------------
(* logger_init: the limit is stored before the directories are made.       *)

\* Fault: the limit is taken for KiB.
LimitInKiB(c) == 1024 * c.limit

LimitOf(c) == c.limit

Init ==
    /\ file = [p \in Paths |-> Empty]
    /\ backup = [p \in Paths |-> Empty]
    /\ config \in Configs
    /\ current_log_max_size = LimitOf(config)
    /\ pc = "down" /\ closing = FALSE
    /\ written = 0 /\ run = 0
    /\ hist = [p \in Paths |-> NewHistory]

\* main: logger_init succeeds, the record "EdgeSentinel started" follows.
Start ==
    /\ pc = "down"
    /\ run < MaxRuns
    /\ \E c \in Configs :
          config' = c /\ current_log_max_size' = LimitOf(c)
    /\ run' = run + 1
    /\ pc' = "check" /\ closing' = FALSE
    /\ UNCHANGED <<files, written, hist>>

\* A reload whose configuration was loaded and validated.  The limit holds
\* from here on, whether the directories, the network baseline and the clock
\* then let the reload go through or the old configuration stays in force.
Reload ==
    /\ pc = "up"
    /\ \E c \in Configs :
          /\ current_log_max_size' = LimitOf(c)
          /\ config' \in {c, config}
    /\ UNCHANGED <<files, pc, closing, written, run, hist>>

-----------------------------------------------------------------------------
(* logger_write.                                                           *)

\* The daemon has something to log; the last record is written on a stop.
Log ==
    /\ pc = "up"
    /\ pc' = "check" /\ closing' \in BOOLEAN
    /\ UNCHANGED <<files, config, current_log_max_size, written, run, hist>>

\* Faults: rotating one byte too late, or whatever the size.
FullTooLate(p) == file[p].size > current_log_max_size
FullWhenUsed(p) == file[p].size > 0

\* rotate_log_if_needed: a file that does not exist is an empty one.
Full(p) == file[p].size >= current_log_max_size

\* Fault: the file is copied to the backup instead of renamed.
LeftByCopy(p) == file[p]

\* rename leaves nothing at the path.
LeftByRotation(p) == Empty

NoRotation ==
    /\ pc = "check"
    /\ ~ Full(config.path)
    /\ pc' = "append"
    /\ UNCHANGED <<files, config, current_log_max_size, closing, written, run,
                   hist>>

Rotate ==
    LET p == config.path
    IN  /\ pc = "check"
        /\ Full(p)
        /\ backup' = [backup EXCEPT ![p] = file[p]]
        /\ file' = [file EXCEPT ![p] = LeftByRotation(p)]
        /\ hist' = [hist EXCEPT
                      ![p].dropped = @ \/ backup[p].records # <<>>]
        /\ pc' = "append"
        /\ UNCHANGED <<config, current_log_max_size, closing, written, run>>

\* Fault: the daemon carries on after a record it could not write.
CarriesOn == "up"

\* main returns 1 after a failed record, 0 after the last one.
AfterFailure == "down"

\* stat or rename fails.
RotationFails ==
    /\ pc = "check"
    /\ pc' = AfterFailure
    /\ UNCHANGED <<files, config, current_log_max_size, closing, written, run,
                   hist>>

\* n bytes reach the file; whole says if that is all of the record.
Reach(n, whole) ==
    LET p == config.path
        r == [id |-> written + 1, run |-> run, whole |-> whole]
    IN  /\ written < MaxRecords
        /\ written' = written + 1
        /\ file' = [file EXCEPT ![p] = [records |-> Append(@.records, r),
                                        size |-> @.size + n]]
        /\ hist' = [hist EXCEPT ![p].allowed = current_log_max_size]

Appended ==
    /\ pc = "append"
    /\ \E n \in 1 .. MaxRecordSize : Reach(n, TRUE)
    /\ pc' = IF closing THEN "down" ELSE "up"
    /\ UNCHANGED <<backup, config, current_log_max_size, closing, run>>

\* fopen, time, fprintf or fclose fails, or the process is killed meanwhile:
\* nothing, a part or the whole of the record is in the file.
AppendFails ==
    /\ pc = "append"
    /\ \/ \E n \in 1 .. MaxRecordSize, whole \in BOOLEAN : Reach(n, whole)
       \/ UNCHANGED <<file, written, hist>>
    /\ pc' = AfterFailure
    /\ UNCHANGED <<backup, config, current_log_max_size, closing, run>>

\* SIGKILL, the OOM killer, or a return 1 that has nothing to do with the log.
Kill ==
    /\ pc \in {"up", "check"}
    /\ pc' = "down"
    /\ UNCHANGED <<files, config, current_log_max_size, closing, written, run,
                   hist>>

Next ==
    \/ Start \/ Reload \/ Log
    \/ NoRotation \/ Rotate \/ RotationFails
    \/ Appended \/ AppendFails \/ Kill

Spec == Init /\ [][Next]_vars

-----------------------------------------------------------------------------
(* Properties.                                                             *)

Record == [id : 1 .. MaxRecords, run : 1 .. MaxRuns, whole : BOOLEAN]

File == [records : Seq(Record), size : Nat]

\* Type invariant.
TypeOK ==
    /\ file \in [Paths -> File] /\ backup \in [Paths -> File]
    /\ config \in Configs /\ current_log_max_size \in Limits
    /\ pc \in {"down", "up", "check", "append"} /\ closing \in BOOLEAN
    /\ written \in 0 .. MaxRecords /\ run \in 0 .. MaxRuns
    /\ hist \in [Paths -> [allowed : Limits \cup {0}, dropped : BOOLEAN]]

\* A file outgrows the limit that was in force when it was last written to by
\* less than one record, whatever reloads, rotations, torn records and
\* restarts came in between.
OverrunBelowOneRecord ==
    \A p \in Paths :
        file[p].records # <<>> =>
            file[p].size < hist[p].allowed + MaxRecordSize

\* A rotation that overwrites records leaves a full backup: of what was
\* written, at least the smallest limit ever in force can still be read.
LossLeavesFullBackup ==
    \A p \in Paths :
        hist[p].dropped => \E l \in Limits : backup[p].size >= l

\* The files of a path, oldest record first.
Kept == [p \in Paths |-> backup[p].records \o file[p].records]

\* A torn record is the last one of its run: what follows it, if anything,
\* was written by a later run, whichever files either run used.
TornEndsRun ==
    \A p \in Paths : \A i \in 1 .. Len(Kept[p]) - 1 :
        ~ Kept[p][i].whole => Kept[p][i].run < Kept[p][i + 1].run

\* The log implements LogStore: rotation, failures and restarts lose only
\* the oldest records of a path, and never reorder or repeat one.
Store == INSTANCE LogStore WITH Records <- Record, kept <- Kept

StoreImplemented == Store!Spec

\* main.c, when logger_init or what follows it fails in a reload: "keeping
\* previous configuration".  The limit that rotates the log is the one of the
\* configuration in force.
LimitIsTheConfiguredOne == pc = "up" => current_log_max_size = config.limit

=============================================================================
