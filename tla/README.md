# A TLA+ model of EdgeSentinel-Linux

EdgeSentinel is a C daemon that samples a Linux system and up to eight
processes every `monitor_interval` seconds, prints what it sees, writes a
rotated log, and runs a command when an alert level changes. It is one thread;
what makes it hard is outside that thread: processes that end, restart and
inherit PIDs between two reads of `/proc`, signals at any instant, a
configuration file that changes under it, a child per notification, and being
killed and restarted on the files it left.

Modules are checked with TLC on small instances (`MC*.cfg`) and proved about
with TLAPS (`*_proofs.tla`). `PROJECT.json` maps every definition to the source
lines it models and lists runs, mutants, findings, hazards and theorems.

## Inventory

| component | source | state | operations | modelled in |
|---|---|---|---|---|
| main loop, signals, reload | `main.c` 58-105, 885-924, 1184-1740, 2552-2595 | `keep_running`, `reload_requested`, `config`, network baseline | handlers, sleep, reload, start, stop | `Daemon` |
| process monitor | `process_monitor.c`, `monitor_process_once` in `main.c` 223-692 | one `MonitoredProcess` per target | init, two resets, lookup, status, CPU time, availability | `ProcessMonitor` |
| system alerts, periodic log | `main.c` 1766-2200, `alert.c` | previous level and flag per metric and for the system, `log_sample_counter` | sample, compare, notify, log, count | `SystemAlerts`, `AlertLevels` |
| logger | `logger.c` | `current_log_max_size`, the file and `<file>.1` | `logger_init`, `logger_write` with rotation | `Logger` |
| notifier | `notifier.c` | pipe, child, disposition of SIGPIPE | `notifier_send` | `Notifier` |
| alert events | `alert_event.c` | none (a record per call) | init, names of metrics | no |
| configuration | `config.c`, `main.c` 893-1034, 1445-1672 | `AppConfig`, of which a load fills a temporary one | defaults, load, validate, apply, set up the targets | `ConfigLoad` |
| CPU | `cpu_monitor.c` | none (two readings are in `main.c`) | read, compute, evaluate | `CpuSampling` |
| network | `network.c` | none (the baseline is in `main.c`) | select, sum, subtract | `Sampling` |
| memory, disk | `system_monitor.c`, `disk_monitor.c` | none | read, compute | their level or failure, in `SystemAlerts` |
| system status | `system_status.c` | none | uptime, load, time | their failure only |
| output | `output.c` | none | text and JSON of a snapshot | what it says of a CPU sample, in `ProcessMonitor`; its failure |
| service and scripts | `systemd/`, `scripts/` | installed files | install, uninstall, restart on failure | the restart, in `Logger` |

How they interact. `main` calls everything; nothing calls back. The signal
handlers share two flags with it and interrupt its sleep. A round is:
`monitor_process_once` for every target, then the system's metrics, then the
output, then the PID of the last target may be cleared and the baselines move
on. `monitor_process_once` and the system part call `logger_write` (a failure
ends the daemon) and `send_alert_change_notification`, which calls
`notifier_send` (a failure is printed and forgotten). A reload replaces the
configuration, the records of all targets, the level flags and the network
baseline, and touches the logger first. `active_process` is shared by the two
loops over the targets and read again after the round.

What is hard, and the properties that make each component correct:

* *Process monitor.* Any read of `/proc` may fail, and the PID may belong to
  another program by the next one. Two samples that are subtracted must be of
  one process without a gap; what is printed must be of this round; a target
  must not follow another program; a target that restarts must be found; each
  change is reported once, from the level last told.
* *Main loop.* A signal may arrive between any two instructions. No SIGHUP may
  be lost, SIGTERM must end the daemon, a reload is all or nothing, and a
  network speed may not be computed across it.
* *System alerts.* Three metric streams and the system's status are compared
  separately, reset together and reported through two channels that must agree.
* *Logger.* Rotation, failure, kill and restart at any point, limits that
  change under a file. Only the oldest records may be lost, a file may exceed
  its limit by less than one record, and a torn record ends its run.
* *Configuration.* A file is read line by line into a copy, errors are collected
  and any call may fail. What is in force must be usable and be what one whole
  text means, whatever was loaded before.
* *Sampling.* Rates are differences of counters that wrap, go down, vanish and
  appear. A rate must be of the stretch since its baseline, of the things the
  configuration selects.
* *Notifier.* Two processes and a pipe: no deadlock, no SIGPIPE, nothing left
  behind, success only if the message was sent.

## Modules

| module | contents |
|---|---|
| `AlertLevels` | the levels and the higher of two |
| `AlertStream` | abstract: a set of streams of levels; the first level is silent, a later one is reported when it differs, a stream may be reset |
| `ProcessMonitor` | the targets and the operating system; implements `AlertStream` (3 streams per target) |
| `SystemAlerts` | the system's part of the round; implements `AlertStream` (4 streams) |
| `Daemon` | signals, sleep, reload, network baseline, start and stop |
| `LogStore` | abstract: per path, a window on the records written, only the oldest may go |
| `Logger` | files, rotation, limits, failures, runs of the daemon; implements `LogStore` |
| `Notifier` | daemon, child and command around the pipe |
| `ConfigLoad` | the text of a configuration, its loading, validation, fallback and reload, and the targets made from it |
| `Sampling` | EXTENDS `Daemon`: the network readings of the loop, against interfaces that carry, go and come |
| `CpuSampling` | EXTENDS `SystemAlerts`: the CPU readings of the round and the level computed from them |
| `*_proofs` | the theorems of a module |
| `MC*` | constants of the instances |

State and actions are named after the code's variables and functions where it
has names. Things to know when reading:

* `ProcessMonitor` cuts `monitor_process_once` where it reads `/proc`: lookup,
  status, CPU times, availability are four steps (`pc`), and `OS` steps may come
  between any of them. `os[p]` is the program that has PID `p`. "Readable" means
  that somebody has the PID; a read may fail anyway (zombies, kernel threads and
  failed opens are such failures). A sample is the level it evaluates to. `hist`
  is history that no action of the program reads.
* `SystemAlerts` and `Daemon` are two views of the same loop, `Daemon` with the
  measurements reduced to steps that may fail, `SystemAlerts` with signals
  reduced to `Reload` and `Stop` between rounds. A failed reload changes nothing
  `SystemAlerts` or `ProcessMonitor` can see; the round that follows is an
  ordinary one.
* In `Daemon` the sleep is three places (`before sleep`, `asleep`, `awake`),
  because a signal acts differently in each. A configuration is the version of
  the file it was read from. `config = 0` is the defaults main falls back to.
* `Sampling` and `CpuSampling` are compositions: each step conjoins a step of the
  loop they extend with a step of the readings. In `Sampling` packets and
  interfaces come between any two steps, in `CpuSampling` time passes between two
  readings. The kernel's eight CPU counters are two sums there, the time at work
  and the time without: the code never uses one of them by itself, and unsigned
  sums are exact. `spent` is history.
* In `ConfigLoad` a line is skipped, has no `=`, or sets a key to a sequence of
  parts, integers and words, what lies between commas. `Meaning` is the reference:
  what a text means, as a whole.
  `fgets` splits a line over 511 bytes: a line of the model is such a piece.
  Lengths are abstract: a part is `TooLong` or not, and `FitsBuffer` says whether
  a list of interfaces fits its buffer with all its blanks (`config.c:559`; the
  same test for process names can never fail on such a piece).
* In `Logger` a file is its records and its size. `Start` after a failure is
  systemd's `Restart=on-failure`, after a stop or a kill the administrator's.
* In `Notifier` descriptors are the sets of processes that hold each end.
  What the daemon inherited is `env`, a parameter: whether descriptor 0 is open,
  whether SIGCHLD is ignored, and the disposition of SIGPIPE, which the code saves
  and restores. systemd ignores SIGPIPE for a unit that does not say
  `IgnoreSIGPIPE=no`, as `systemd/edgesentinel.service` does not; from a shell it
  is the default. Calls repeated on EINTR change nothing and have no action. `sigaction` and
  `close` may fail as the code allows for, although Linux gives no reason.

Operators commented as *fault* are not part of any specification: each is a
plausible bug, and replacing the definition named in `mutants` by it makes TLC
find the named property violated.

## Runs

`tlc -config MCSampling.cfg MCSampling` checks a run (module and configuration are in
`PROJECT.json`), `tlapm Daemon_proofs.tla` the proofs of a module.

| run | bounds | shows |
|---|---|---|
| `processes` | 2 names, 3 PIDs, configurations by two names, by PID and self, 2 memory and 2 CPU levels | types, sampling, streams, PIDs, log |
| `processes_liveness` | two names, one level | the last target by name is found again |
| `process_search` | two names | **violated**: every target by name is looked up again |
| `process_log` | one name | **violated**: the log's last word on a target is true |
| `system_alerts` | all levels of memory, the two extreme ones of disk, the real interval of 10, CPU counters modulo 5 that move by up to 2, two pairs of thresholds | streams, what a round tells, status against notifications, periodic record, the level of the CPU |
| `daemon` | two versions of the file, two interfaces, 2 bytes, each version selecting its own | reloads, stops, network baseline and speed, with liveness |
| `config_load` | texts of up to 3 of 13 kinds of line, an `int` of 8 bits, lists of up to 2 names | the configuration in force, the targets |
| `config_half` | the same | **violated**: half a file is never in force |
| `logger` | 2 paths, limits 2 and 3, records of 1 or 2 bytes, 4 records, 2 runs | size, losses, torn records, refinement |
| `log_limit` | the same | **violated**: the limit is that of the configuration in force |
| `notifier` | message of 3 bytes, pipe of 2, descriptor 0 open or not, SIGCHLD ignored or not, SIGPIPE ignored or not | results, SIGPIPE, leaks, waiting, termination |
| `notifier_stdin` | descriptor 0 closed | **violated**: success means a command with standard input |

Why these bounds are enough. Two targets are the fewest of which one is not the
last; three PIDs give each program one besides the daemon's own and let a PID
pass from one program to the other; more levels only repeat the comparison.
Memory takes every level, disk the two that decide the highest, the CPU what its
usage gives. Two versions of the file, besides the defaults that may be in force,
let its edit fall before and after the load that a signal asked for (the safety
properties are proved for any number). Four records of at most
two bytes fill a file, rotate it and overwrite the backup, with a torn record on
the way; two paths let a reload switch between them and two runs leave a torn
record behind. A pipe smaller than the message makes the writer wait, which the
real sizes (513 bytes, 64 KiB) never do. Three lines are the fewest in which a
good one comes before and after a bad one, and the kinds are those that matter
to one another: what may name the targets, PIDs in the range of an `int`, above
it and above an `unsigned`, empty values, duplicates, and a pair of thresholds
that is valid only once both are read. Counters modulo 5 wrap after two rounds,
the time in between may be none or negative, and half of it is a warning under
one pair of thresholds and nothing under the other. Two interfaces are the
fewest of which one may go while the other carries on. The passing runs have
from some thousand to some million states (`system_alerts` 2.6 million) and end
within two minutes each.

The bounds in guards are `MaxVersion` (edits of the file), `MaxBytes` and
`MaxCarried` (traffic), `MaxSpent` (time between two readings), `MaxLines`,
`MaxRecords` and `MaxRuns`; everything else is finite by itself.
`CHECK_DEADLOCK FALSE` is set where the daemon stops for good (`Daemon`,
`SystemAlerts`) or a bound is used up (`Logger`).

### Fairness

* `ProcessMonitor`: weak fairness of the daemon (it is scheduled, its sleep
  ends); strong fairness of a lookup that could find a program, and of a status
  read that could succeed, per target. A lookup reads the whole of `/proc` each
  round, so it fails for ever only if a permission or resource problem lasts for
  ever. `LastTargetFound` assumes that the program keeps running under some PID
  and that reloads stop (each reload starts over). Nothing is assumed of the
  operating system's own steps.
* `Daemon` and `Sampling`: weak fairness of the main program (`SMain` with its
  readings). Signals and edits are never
  obliged to happen, and nothing is obliged to fail.
* `Notifier`: weak fairness of the daemon, of the child until `exec`, and of a
  command that reads its standard input and exits at its end, as the README of
  EdgeSentinel requires ("从标准输入读取通知消息；完成处理后及时退出").
  Without the last one the daemon does wait for ever.

## Findings

* `process_search`: `main.c:2556` clears the PID of `active_process`, the last
  target of the loop. The README promises the search for every target.
* `process_log`: a lookup resets the availability baseline (`main.c:282`), so
  "recovered" is never logged for a target that came back under a new PID.
* `config_half`: `fgets` returns NULL on a read error as at the end of the file,
  and `config.c:856` does not ask which: the lines before the error are put in
  force, against the comment at `config.c:815-819`.
* `log_limit`: `logger.c:241` keeps the new limit although the reload then fails
  with "keeping previous configuration".
* `notifier_stdin`: with descriptor 0 closed in the daemon, `notifier.c:269`
  closes the command's standard input, and the call may return 0.

Not runs, but worth a maintainer's look: a file may exceed `log_max_size` by
less than one record (`OverrunBelowOneRecord` is the exact bound); the complete
example of the README (an empty `process_name=` and `process_names=`) is refused
by `config.c:898`; README:1767 promises a log record after a successful reload
and none is written; an interface that comes up with bytes on its counter
overstates one speed, and an iowait that goes down overstates one CPU usage, even
above 100 percent, or makes it 0.0 (`SpeedIsTraffic` and `CpuLevelIsBusyShare` say
when); under
the shipped unit every notification command starts with SIGPIPE ignored, which a
shell script cannot undo (`IgnoreSIGPIPE=no` would); a
command that never ends stops monitoring and delays the stop; the memory
baseline of a target by PID survives an outage (`main.c:605`) although it does
not survive a failed CPU read.

## What is proved

For every value of the constants, by TLAPS with Z3, Zenon and LS4:

* `ProcessMonitor_proofs`: all the safety properties of run `processes`.
  Assumptions: PIDs are positive and include the daemon's own, no name is
  `None` and no target asks for the daemon's name, samples are levels, and a
  configuration is 1 to 8 targets that are all by name unless there is one. The
  inductive invariant `IInv` is `TypeOK` and, for each target, `SampleInv`,
  `LostInv` and `WordInv`. The properties are not inductive by themselves: they
  speak of the end of a round or of idle states, and what they need in the
  middle of one depends on `pc` and on whether the target is before, at or after
  `cur`. `SampleInv` ties a kept sample to the PID and to an unbroken history at
  every step but the one that is about to drop it; `LostInv` says that a lost
  last target is unavailable until its PID is cleared; `WordInv` says that the
  log's last word is the availability last compared. A frame lemma covers the
  targets a step does not touch, so that each action needs an argument for one
  target only. `AttachedUntilLost` and the refinement of `AlertStream` follow
  action by action from it: `Moves` says that a stream makes one of the four
  moves of `AlertStream`. `RoundNearsItsEnd` counts the steps a round over `n`
  targets has left, at most `4 n + 1`; `LastIsSearched` says that the next one
  begins with a search for a last target that was lost.
* `Daemon_proofs`: the four safety properties of run `daemon`, for any number of
  versions. `ReloadNotLost` needs that no version is remembered that is not on
  disk yet (a load reads the version on disk and so catches up with every signal
  so far); `SpeedBaseComparable` needs the same of every place between the sleep
  and the network reading; `OneSleepAfterStop` needs that the flag is never
  taken back. `StopComesNearer` and `ReloadComesNearer` give the number of steps
  left to the end, and to the load that serves a signal: each step of the daemon
  lowers it, and no signal and no edit raises it.
* `Sampling_proofs`: `SamplingRefinesDaemon` carries the theorems above over to
  the loop that reads the network. `SpeedIsTraffic` and the types hold for any
  finite set of interfaces and any selections: the invariant `TrafficInv` says
  that what the selected counters say now is what they said at the baseline and
  what was carried since, as long as no interface came (an upper bound once one
  has gone). Packets and interfaces change one summand, so it needs that a sum
  over a finite set changes by what the summand changes by (`SumOfChanged`), in
  whatever order the sum takes its elements (`SumsAgree`).
* `ConfigLoad_proofs`: all properties of run `config_load`, for any lines, widths
  and limits. The argument has two invariants. `TextInv`: while no error was met, the copy being loaded is the
  `Meaning` of the lines read so far (`MeaningOfSetting` and `MeaningOfOther` say
  what one more line does to it). `ValidInv`: once validated, and so once in
  force, a configuration is `Valid`. `TargetsAsDocumented` compares the
  configuration in force with the last lines of the text that set a key:
  `MeaningOfSetters` says that the meaning of a text has, for each key, the value
  of the last line that sets it (for `process_name`, where no line sets
  `process_names`), and `TextInv` that what is in force is such a meaning, or the
  defaults.
* `SystemAlerts_proofs`: all properties of run `system_alerts` but the level of
  the CPU. `KnownInv` says what a level flag promises at each place of the round;
  `StatusInv` relates the status to the levels the round started from, some of
  them already replaced; `CountInv` ties the sample counter to the rounds
  since the last record. `LastInv` says that a metric not yet sampled in a round is
  still at the level of the round before, if the configuration was the same; so a
  round tells exactly what it changed, and nothing across a reload.
* `CpuSampling_proofs`: `CpuLevelIsBusyShare` for any width of the counters, with
  no bound on how often they wrap. The invariant is that the two readings kept
  are equal before a new one is taken, whatever reloads come between; the rest is
  arithmetic: `Remainder`, `Wrapped` and `Unwrapped` say when a difference modulo
  the word is the true one. `RoundsRefined` carries the theorems of
  `SystemAlerts_proofs` over.
* `Logger_proofs`: all properties of run `logger`. `RoomInv`: a record is only
  written to a file with room under the limit. `OrderInv`: no id or run of what
  is kept is larger than the last one written, and a torn record is the last of
  its run. The refinement of `LogStore` follows: a record that reaches a file is
  newer than all that is kept (`ReachKeeps`), and a rotation drops what was the
  backup, a prefix (`RotateKeeps`). `RecordsInOrder` is proved of `LogStore` alone
  and carried over by the refinement: what a reader finds is in the order
  written, and nothing is there twice.
* `Notifier_proofs`: all safety properties of run `notifier`, for messages and
  pipes of any length. `PipeInv` says who holds which end at each step of daemon
  and child, `SigpipeInv` that SIGPIPE is ignored around the writes, whatever was
  inherited, and as inherited elsewhere,
  `WrittenInv` that bytes written and left make up the message, `StatusInv` that a
  status of 0 is that of a command. From `PipeInv` follows that nobody waits in a
  circle (`NobodyStuck`). `CallNearsItsEnd` counts what a call has left: the steps
  of daemon and child, twice the bytes to write and once those to read. With
  both, a call can last for ever only in a command that does not end.

Two kinds of data are of any size: lines of a text and sets of interfaces. The
induction theorems of the library take an operator and cannot be used, so the
proofs take a minimal counterexample instead, which a well-founded relation on
the data provides (`WFMin`): the least position of a line in `LeastElement` and
`LastElement`, the smallest subset in `SubsetInduction`.

The assumptions on the constants are the named `ASSUME`s of the modules, which
TLC evaluates in every run: `Interfaces` is finite, widths, sizes and bounds are
numbers, configurations and samples are those the code accepts or computes. The
history variables are no assumption: no action reads them.

Only model-checked: `LastTargetFound`, `StopEnds`, `ReloadServed` and
`SendReturns`, because liveness is out of the prover's reach. What is proved of
them is their safety part, that every step is one nearer to the goal
(`RoundNearsItsEnd` and `LastIsSearched`, `StopComesNearer`, `ReloadComesNearer`,
`CallNearsItsEnd`); what the runs add is that fair scheduling takes the steps.
The properties of the violation runs are false and have no theorem.

## Not modelled

The text of messages and output; floating-point arithmetic (a usage is a
fraction); the parsing of `/proc`, reduced to readable or not; the ticks of a
process, reduced to a level; power failures (the logger never calls `fsync`, so
that nothing is promised); other writers of the log files; several daemons on one
log; what reads stdout; the readings of `system_status.c`, which are displayed
and forgotten; `alert_event.c`, which fills a record; the scripts, which are run
by hand, once; `main.c.backup`, which nothing builds.

## Plan

1. `AlertStream`, `ProcessMonitor` and its proofs: done.
2. `Daemon`, `SystemAlerts`, `Logger` with `LogStore`, `Notifier`, and the proofs
   of their safety properties: done.
3. `ConfigLoad` and its proofs: done.
4. `Sampling` composed with `Daemon`, `CpuSampling` composed with `SystemAlerts`:
   done and proved, the speeds for any finite set of interfaces.
5. The safety part of the liveness properties, as variants: done.
6. Left: one loop with `Daemon`, `ProcessMonitor` and `ConfigLoad` sharing the
   reload, shown to implement each; the ticks of a process.
