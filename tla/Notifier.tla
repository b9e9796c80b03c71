------------------------------ MODULE Notifier ------------------------------
(***************************************************************************)
(* notifier_send of src/notifier.c: the daemon makes a pipe, forks, writes *)
(* the message into the pipe and waits, while the child makes the pipe its *)
(* standard input and becomes the configured command.  Daemon, child and   *)
(* command run concurrently; the command is any program: it reads as much  *)
(* as it likes and ends, or is killed, whenever it likes.                  *)
(*                                                                         *)
(* The message is its length.  A call interrupted by a signal is repeated  *)
(* by the code (EINTR), which changes nothing here.                        *)
(***************************************************************************)
EXTENDS Integers

CONSTANTS MessageLength,   \* bytes of the message, without its newline
          Capacity,        \* bytes the pipe can hold
          StdinOpen,       \* whether the daemon runs with descriptor 0 open
          SigchldIgnored,  \* whether it inherited an ignored SIGCHLD
          Dispositions     \* the dispositions of SIGPIPE it may have inherited

ASSUME SizeAssumption == MessageLength \in Nat \ {0} /\ Capacity \in Nat \ {0}
ASSUME EnvironmentAssumption ==
    /\ StdinOpen \subseteq BOOLEAN /\ SigchldIgnored \subseteq BOOLEAN
    /\ Dispositions \subseteq {"default", "ignore"}

VARIABLES
    env,        \* [stdin_open, sigchld_ignored, sigpipe]: what the daemon
                \* inherited from whoever started it
    pc,         \* what notifier_send does next; "idle": it is not running
    readers,    \* processes that hold the read end of the pipe
    writers,    \* processes that hold the write end
    buffer,     \* bytes in the pipe
    left,       \* bytes the current write_all has left
    sigpipe,    \* the daemon's disposition of SIGPIPE, and the saved one
    previous_sigpipe,
    send_result,
    result,     \* what the last call returned, -1 before the first
    child,      \* the child: its next step, or how it is known to the kernel
    child_sigpipe,
    child_status,
    hist        \* history of this call, for the properties only

daemon == <<pc, left, sigpipe, previous_sigpipe, send_result, result>>
pipe == <<readers, writers, buffer>>
offspring == <<child, child_sigpipe, child_status>>
vars == <<env, daemon, pipe, offspring, hist>>

\* History: bytes written; whether the command began with the pipe as its
\* standard input; whether no restoring of SIGPIPE has failed (ever).
NewCall(h) == [h EXCEPT !.sent = 0, !.on_stdin = FALSE]

Exited(code) == [exited |-> TRUE, code |-> code]
Signaled == [exited |-> FALSE, code |-> 0]

\* systemd starts the shipped unit with SIGPIPE ignored (it does not set
\* IgnoreSIGPIPE=no), a shell does not; nothing else of the program changes it.
Init ==
    /\ env \in [stdin_open : StdinOpen, sigchld_ignored : SigchldIgnored,
                sigpipe : Dispositions]
    /\ pc = "idle" /\ result = -1 /\ send_result = 0 /\ left = 0
    /\ sigpipe = env.sigpipe /\ previous_sigpipe = env.sigpipe
    /\ readers = {} /\ writers = {} /\ buffer = 0
    /\ child = "none" /\ child_sigpipe = env.sigpipe /\ child_status = Signaled
    /\ hist = [sent |-> 0, on_stdin |-> FALSE, restored |-> TRUE]

-----------------------------------------------------------------------------
(* The daemon: up to the fork.                                             *)

Return(value) == pc' = "idle" /\ result' = value

\* No command, a message that does not fit, or pipe fails.
SendFails ==
    /\ pc = "idle"
    /\ Return(-1)
    /\ UNCHANGED <<env, left, sigpipe, previous_sigpipe, send_result, pipe,
                   offspring, hist>>

MakePipe ==
    /\ pc = "idle"
    /\ pc' = "fork" /\ send_result' = 0
    /\ readers' = {"daemon"} /\ writers' = {"daemon"} /\ buffer' = 0
    /\ hist' = NewCall(hist)
    /\ UNCHANGED <<env, left, sigpipe, previous_sigpipe, result, offspring>>

Fork ==
    /\ pc = "fork"
    /\ pc' = "close_read"
    /\ readers' = readers \cup {"child"} /\ writers' = writers \cup {"child"}
    /\ child' = "close_write" /\ child_sigpipe' = sigpipe
    /\ UNCHANGED <<env, left, sigpipe, previous_sigpipe, send_result, result,
                   buffer, child_status, hist>>

\* Fault: an error path that closes only the read end.
ForgetsWriteEnd == {"daemon"}

\* Who holds the write end after fork failed.
WritersAfterForkFailed == {}

ForkFails ==
    /\ pc = "fork"
    /\ Return(-1)
    /\ readers' = {} /\ writers' = WritersAfterForkFailed
    /\ UNCHANGED <<env, left, sigpipe, previous_sigpipe, send_result, buffer,
                   offspring, hist>>

-----------------------------------------------------------------------------
(* The daemon: sending.                                                    *)

\* Fault: the daemon keeps the read end.
KeepsReadEnd ==
    /\ pc = "close_read"
    /\ pc' = "ignore"
    /\ UNCHANGED <<env, left, sigpipe, previous_sigpipe, send_result, result,
                   pipe, offspring, hist>>

CloseRead ==
    /\ pc = "close_read"
    /\ readers' = readers \ {"daemon"}
    /\ pc' = "ignore"
    /\ UNCHANGED <<env, left, sigpipe, previous_sigpipe, send_result, result,
                   writers, buffer, offspring, hist>>

\* Fault: SIGPIPE is left as it is.
NotIgnored == sigpipe

Ignored == "ignore"

IgnoreSigpipe ==
    /\ pc = "ignore"
    /\ previous_sigpipe' = sigpipe /\ sigpipe' = Ignored
    /\ left' = MessageLength
    /\ pc' = "message"
    /\ UNCHANGED <<env, send_result, result, pipe, offspring, hist>>

\* sigaction fails: the pipe is closed, and the call fails after the wait.
IgnoreFails ==
    /\ pc = "ignore"
    /\ writers' = writers \ {"daemon"}
    /\ send_result' = -1
    /\ pc' = "wait"
    /\ UNCHANGED <<env, left, sigpipe, previous_sigpipe, result, readers, buffer,
                   offspring, hist>>

\* write takes some of the bytes; a full pipe makes it wait.
Write ==
    /\ pc \in {"message", "newline"}
    /\ readers # {}
    /\ \E n \in 1 .. left :
          /\ buffer + n <= Capacity
          /\ buffer' = buffer + n
          /\ hist' = [hist EXCEPT !.sent = @ + n]
          /\ IF n < left THEN left' = left - n /\ pc' = pc
             ELSE IF pc = "message" THEN left' = 1 /\ pc' = "newline"
             ELSE left' = 0 /\ pc' = "close_write"
    /\ UNCHANGED <<env, sigpipe, previous_sigpipe, send_result, result, readers,
                   writers, offspring>>

\* Nobody can read any more: an error, or the end of the daemon by SIGPIPE.
WriteBreaks ==
    /\ pc \in {"message", "newline"}
    /\ readers = {}
    /\ IF sigpipe = "ignore"
       THEN send_result' = -1 /\ pc' = "close_write"
       ELSE pc' = "killed" /\ UNCHANGED send_result
    /\ UNCHANGED <<env, left, sigpipe, previous_sigpipe, result, pipe, offspring,
                   hist>>

\* close may report an error; the descriptor is closed all the same.
CloseWrite ==
    /\ pc = "close_write"
    /\ writers' = writers \ {"daemon"}
    /\ send_result' \in {send_result, -1}
    /\ pc' = "restore"
    /\ UNCHANGED <<env, left, sigpipe, previous_sigpipe, result, readers, buffer,
                   offspring, hist>>

\* Fault: the disposition is not restored.
StaysIgnored == "ignore"

Restored == previous_sigpipe

RestoreSigpipe ==
    /\ pc = "restore"
    /\ sigpipe' = Restored
    /\ pc' = "wait"
    /\ UNCHANGED <<env, left, previous_sigpipe, send_result, result, pipe,
                   offspring, hist>>

RestoreFails ==
    /\ pc = "restore"
    /\ send_result' = -1
    /\ hist' = [hist EXCEPT !.restored = FALSE]
    /\ pc' = "wait"
    /\ UNCHANGED <<env, left, sigpipe, previous_sigpipe, result, pipe, offspring>>

-----------------------------------------------------------------------------
(* The daemon: waiting for the child.                                      *)

\* Faults: the exit status itself is returned, or the write is forgotten.
ResultIsCode(status) == IF status.exited THEN status.code ELSE -1
ResultOfCommand(status) == IF status = Exited(0) THEN 0 ELSE -1

ResultOf(status) ==
    IF send_result = 0 /\ status = Exited(0) THEN 0 ELSE -1

Reap ==
    /\ pc = "wait"
    /\ child = "zombie"
    /\ child' = "none"
    /\ Return(ResultOf(child_status))
    /\ UNCHANGED <<env, left, sigpipe, previous_sigpipe, send_result, pipe,
                   child_sigpipe, child_status, hist>>

\* With SIGCHLD ignored the kernel reaps the child itself: no such child.
WaitFails ==
    /\ pc = "wait"
    /\ child = "gone"
    /\ child' = "none"
    /\ Return(-1)
    /\ UNCHANGED <<env, left, sigpipe, previous_sigpipe, send_result, pipe,
                   child_sigpipe, child_status, hist>>

Daemon ==
    \/ Fork \/ ForkFails \/ CloseRead \/ IgnoreSigpipe \/ IgnoreFails
    \/ Write \/ WriteBreaks \/ CloseWrite \/ RestoreSigpipe \/ RestoreFails
    \/ Reap \/ WaitFails

-----------------------------------------------------------------------------
(* The child before exec.                                                  *)

Alive == {"close_write", "dup", "close_read", "exec", "command"}

\* The kernel closes what the child holds and keeps its status.
End(status) ==
    /\ child \in Alive
    /\ child' = IF env.sigchld_ignored THEN "gone" ELSE "zombie"
    /\ child_status' = status
    /\ readers' = readers \ {"child"} /\ writers' = writers \ {"child"}
    /\ UNCHANGED <<env, daemon, buffer, child_sigpipe, hist>>

\* Fault: the child keeps the write end, and so does the command.
KeepsWriteEnd == writers

WithoutChild == writers \ {"child"}

ChildClosesWrite ==
    /\ child = "close_write"
    /\ writers' = WithoutChild
    /\ child' = "dup"
    /\ UNCHANGED <<env, daemon, readers, buffer, child_sigpipe, child_status,
                   hist>>

\* dup2 makes the read end the standard input.
ChildDups ==
    /\ child = "dup"
    /\ child' = "close_read"
    /\ UNCHANGED <<env, daemon, pipe, child_sigpipe, child_status, hist>>

\* Closing the descriptor of pipe leaves the standard input, unless they are
\* the same: pipe returns descriptor 0 when the daemon has none open.
ChildClosesRead ==
    /\ child = "close_read"
    /\ readers' = IF env.stdin_open THEN readers ELSE readers \ {"child"}
    /\ child' = "exec"
    /\ UNCHANGED <<env, daemon, writers, buffer, child_sigpipe, child_status,
                   hist>>

Exec ==
    /\ child = "exec"
    /\ child' = "command"
    /\ hist' = [hist EXCEPT !.on_stdin = "child" \in readers]
    /\ UNCHANGED <<env, daemon, pipe, child_sigpipe, child_status>>

DupFails == child = "dup" /\ End(Exited(126))
ExecFails == child = "exec" /\ End(Exited(127))

BeforeExec ==
    \/ ChildClosesWrite \/ ChildDups \/ DupFails
    \/ ChildClosesRead \/ Exec \/ ExecFails

-----------------------------------------------------------------------------
(* The command.                                                            *)

Read ==
    /\ child = "command" /\ "child" \in readers
    /\ \E n \in 1 .. buffer : buffer' = buffer - n
    /\ UNCHANGED <<env, daemon, readers, writers, offspring, hist>>

CloseStdin ==
    /\ child = "command" /\ "child" \in readers
    /\ readers' = readers \ {"child"}
    /\ UNCHANGED <<env, daemon, writers, buffer, offspring, hist>>

CommandExits == child = "command" /\ \E code \in {0, 1} : End(Exited(code))

Killed == End(Signaled)

Command == Read \/ CloseStdin \/ CommandExits \/ Killed

Next == SendFails \/ MakePipe \/ Daemon \/ BeforeExec \/ Command

Spec == Init /\ [][Next]_vars

-----------------------------------------------------------------------------
(* Fairness: both processes are scheduled, and the command is as README    *)
(* asks: it reads its standard input and exits when there is no more.      *)

AtEnd == "child" \in readers => buffer = 0 /\ writers = {}

Fairness ==
    /\ WF_vars(Daemon)
    /\ WF_vars(BeforeExec)
    /\ WF_vars(Read)
    /\ WF_vars(AtEnd /\ CommandExits)

FairSpec == Spec /\ Fairness

-----------------------------------------------------------------------------
(* Properties.                                                             *)

\* Type invariant.
TypeOK ==
    /\ env \in [stdin_open : BOOLEAN, sigchld_ignored : BOOLEAN,
                sigpipe : {"default", "ignore"}]
    /\ pc \in {"idle", "fork", "close_read", "ignore", "message", "newline",
              "close_write", "restore", "wait", "killed"}
    /\ readers \subseteq {"daemon", "child"}
    /\ writers \subseteq {"daemon", "child"}
    /\ buffer \in 0 .. Capacity /\ left \in 0 .. MessageLength
    /\ {sigpipe, previous_sigpipe, child_sigpipe} \subseteq {"default", "ignore"}
    /\ {send_result, result} \subseteq {0, -1}
    /\ child \in Alive \cup {"none", "zombie", "gone"}
    /\ child_status \in [exited : BOOLEAN, code : {0, 1, 126, 127}]
    /\ hist \in [sent : 0 .. MessageLength + 1, on_stdin : BOOLEAN,
                 restored : BOOLEAN]

\* A call that returned 0 ran the command to its exit 0, wrote the whole
\* message and its newline, and, unless descriptor 0 was closed, the command
\* began with that pipe as its standard input.
SuccessMeansSent ==
    pc = "idle" /\ result = 0 =>
        /\ hist.sent = MessageLength + 1
        /\ child_status = Exited(0)
        /\ env.stdin_open => hist.on_stdin

\* A command that ends early never ends the daemon: the daemon writes only
\* while SIGPIPE is ignored.
SurvivesEarlyEnd == pc # "killed"

\* The daemon changes SIGPIPE around the writes only, so that every command, of
\* this call or of a later one, starts with the disposition the daemon itself
\* inherited; unless restoring it failed once.
CommandsGetInheritedSigpipe ==
    hist.restored =>
        /\ child \in Alive => child_sigpipe = env.sigpipe
        /\ pc \in {"idle", "fork"} => sigpipe = env.sigpipe

\* When the call returns, whichever way, neither a descriptor of the pipe nor
\* a child is left behind: a daemon that notifies for ever runs out of neither.
NothingLeftBehind ==
    pc = "idle" => readers = {} /\ writers = {} /\ child = "none"

\* Nobody waits for somebody who waits too: a command whose input is awaited by
\* the daemon's wait sees the end of that input, and a daemon that waits at a
\* full pipe waits for a living child, which alone can read from it.
NoCircularWait ==
    /\ pc = "wait" => child # "none" /\ (child = "command" => writers = {})
    /\ pc \in {"message", "newline"} /\ readers # {} =>
          readers = {"child"} /\ child \in Alive
    /\ child = "command" => "child" \notin writers

\* A call returns, if the command reads its input and exits at the end of it:
\* the pipe may fill, but somebody empties it, and the end is always seen.
SendReturns == pc # "idle" ~> pc = "idle"

\* notifier.h: the message is passed on the command's standard input, and 0 is
\* returned on success only.
SuccessMeansOnStdin ==
    pc = "idle" /\ result = 0 => hist.on_stdin

=============================================================================
