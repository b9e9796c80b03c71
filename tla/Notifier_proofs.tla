-------------------------- MODULE Notifier_proofs --------------------------
(***************************************************************************)
(* Safety of notifier_send for messages and pipes of any length: results,  *)
(* SIGPIPE, and what a call leaves behind.                                 *)
(***************************************************************************)
EXTENDS Notifier, TLAPS

\* Who holds the pipe at each step of the daemon and of the child, and when
\* there is a child.
PipeInv ==
    /\ child = "none" <=> pc \in {"idle", "fork"}
    /\ "daemon" \in readers <=> pc \in {"fork", "close_read"}
    /\ "daemon" \in writers <=>
          pc \in {"fork", "close_read", "ignore", "message", "newline",
                  "close_write"}
    /\ "child" \in writers => child = "close_write"
    /\ "child" \in readers => child \in Alive
    /\ child \in {"close_write", "dup", "close_read"} => "child" \in readers
    /\ child = "exec" /\ env.stdin_open => "child" \in readers

\* The daemon writes only while SIGPIPE is ignored, and while no restoring has
\* failed it has the inherited disposition everywhere else.
SigpipeInv ==
    /\ pc # "killed"
    /\ pc \in {"message", "newline", "close_write", "restore"} => sigpipe = "ignore"
    /\ hist.restored =>
          /\ child \in Alive => child_sigpipe = env.sigpipe
          /\ IF pc \in {"message", "newline", "close_write", "restore"}
             THEN previous_sigpipe = env.sigpipe
             ELSE sigpipe = env.sigpipe

\* How much has been written at each step of a call that has not failed.
WrittenInv ==
    /\ pc \in {"fork", "close_read", "ignore"} => hist.sent = 0
    /\ pc = "message" => left > 0 /\ hist.sent + left = MessageLength
    /\ pc = "newline" => left = 1 /\ hist.sent = MessageLength
    /\ pc \in {"close_write", "restore", "wait"} /\ send_result = 0 =>
          hist.sent = MessageLength + 1

\* A status of 0 is that of a command, which got the pipe if it could.
StatusInv ==
    /\ child = "command" /\ env.stdin_open => hist.on_stdin
    /\ child \in {"zombie", "gone"} /\ child_status = Exited(0) /\ env.stdin_open =>
          hist.on_stdin

IInv == TypeOK /\ PipeInv /\ SigpipeInv /\ WrittenInv /\ StatusInv /\ SuccessMeansSent

-----------------------------------------------------------------------------
(* The invariant holds at first, and every action preserves each part.     *)

LEMMA InitInv == Init => IInv
BY SizeAssumption, EnvironmentAssumption
   DEF Init, IInv, TypeOK, PipeInv, SigpipeInv, WrittenInv, StatusInv,
       SuccessMeansSent, Alive, Signaled, Exited

\* The pipe never holds more than it can, nor a call more than its message.
LEMMA TypeStep == IInv /\ [Next]_vars => TypeOK'
<1> SUFFICES ASSUME IInv, [Next]_vars PROVE TypeOK'
  OBVIOUS
<1> USE SizeAssumption DEF IInv, TypeOK, Alive
<1>1. CASE SendFails
  BY <1>1 DEF SendFails, Return, pipe, offspring
<1>2. CASE MakePipe
  <2>1. hist' \in [sent : 0 .. MessageLength + 1, on_stdin : BOOLEAN,
                   restored : BOOLEAN]
    <3>1. hist' = [hist EXCEPT !.sent = 0, !.on_stdin = FALSE]
      BY <1>2 DEF MakePipe, NewCall
    <3>2. 0 \in 0 .. MessageLength + 1
      OBVIOUS
    <3> QED BY <3>1, <3>2
  <2>2. UNCHANGED <<child, child_sigpipe, child_status>>
    BY <1>2 DEF MakePipe, offspring
  <2> QED BY <1>2, <2>1, <2>2 DEF MakePipe
<1>3. CASE Fork
  BY <1>3 DEF Fork
<1>4. CASE ForkFails
  BY <1>4 DEF ForkFails, WritersAfterForkFailed, Return, offspring
<1>5. CASE CloseRead
  BY <1>5 DEF CloseRead, offspring
<1>6. CASE IgnoreSigpipe
  <2>1. UNCHANGED <<readers, writers, buffer, child, child_sigpipe, child_status>>
    BY <1>6 DEF IgnoreSigpipe, pipe, offspring
  <2>2. {sigpipe', previous_sigpipe', child_sigpipe'} \subseteq {"default", "ignore"}
    BY <1>6, <2>1 DEF IgnoreSigpipe, Ignored
  <2> QED BY <1>6, <2>1, <2>2 DEF IgnoreSigpipe
<1>7. CASE IgnoreFails
  BY <1>7 DEF IgnoreFails, offspring
<1>8. CASE Write
  <2>1. PICK n \in 1 .. left :
         /\ buffer + n <= Capacity /\ buffer' = buffer + n
         /\ hist' = [hist EXCEPT !.sent = @ + n]
         /\ IF n < left THEN left' = left - n /\ pc' = pc
            ELSE IF pc = "message" THEN left' = 1 /\ pc' = "newline"
            ELSE left' = 0 /\ pc' = "close_write"
    BY <1>8 DEF Write
  <2>2. /\ left \in Nat /\ left =< MessageLength /\ n \in Nat /\ n >= 1 /\ n =< left
        /\ buffer \in Nat /\ Capacity \in Nat /\ MessageLength \in Nat \ {0}
    OBVIOUS
  <2>3. buffer' \in 0 .. Capacity /\ left' \in 0 .. MessageLength
    BY <2>1, <2>2
  <2>4. hist.sent \in Nat /\ hist.sent + n =< MessageLength + 1
    BY <1>8, <2>2 DEF Write, WrittenInv
  <2>5. hist' \in [sent : 0 .. MessageLength + 1, on_stdin : BOOLEAN,
                   restored : BOOLEAN]
    BY <2>1, <2>2, <2>4
  <2>6. pc' \in {"message", "newline", "close_write"}
    BY <1>8, <2>1 DEF Write
  <2>7. UNCHANGED <<env, sigpipe, previous_sigpipe, send_result, result, readers,
                    writers, child, child_sigpipe, child_status>>
    BY <1>8 DEF Write, offspring
  <2> QED BY <2>3, <2>5, <2>6, <2>7
<1>9. CASE WriteBreaks
  BY <1>9 DEF WriteBreaks, pipe, offspring
<1>10. CASE CloseWrite
  BY <1>10 DEF CloseWrite, offspring
<1>11. CASE RestoreSigpipe
  BY <1>11 DEF RestoreSigpipe, Restored, pipe, offspring
<1>12. CASE RestoreFails
  BY <1>12 DEF RestoreFails, pipe, offspring
<1>13. CASE Reap
  BY <1>13 DEF Reap, Return, ResultOf, pipe
<1>14. CASE WaitFails
  BY <1>14 DEF WaitFails, Return, pipe
<1>15. CASE ChildClosesWrite
  BY <1>15 DEF ChildClosesWrite, WithoutChild, daemon
<1>16. CASE ChildDups
  BY <1>16 DEF ChildDups, daemon, pipe
<1>17. CASE ChildClosesRead
  BY <1>17 DEF ChildClosesRead, daemon
<1>18. CASE Exec
  <2>1. hist' \in [sent : 0 .. MessageLength + 1, on_stdin : BOOLEAN,
                   restored : BOOLEAN]
    <3>1. ("child" \in readers) \in BOOLEAN
      OBVIOUS
    <3> QED BY <1>18, <3>1 DEF Exec
  <2> QED BY <1>18, <2>1 DEF Exec, daemon, pipe
<1>19. ASSUME NEW code \in {0, 1, 126, 127}, End(Exited(code)) \/ End(Signaled)
       PROVE  TypeOK'
  <2>1. child' \in {"zombie", "gone"}
    BY <1>19 DEF End
  <2>2. child_status' \in [exited : BOOLEAN, code : {0, 1, 126, 127}]
    <3>1. child_status' = [exited |-> TRUE, code |-> code] \/
          child_status' = [exited |-> FALSE, code |-> 0]
      BY <1>19 DEF End, Exited, Signaled
    <3>2. CASE child_status' = [exited |-> TRUE, code |-> code]
      BY <3>2
    <3>3. CASE child_status' = [exited |-> FALSE, code |-> 0]
      BY <3>3
    <3> QED BY <3>1, <3>2, <3>3
  <2>3. readers' \subseteq {"daemon", "child"} /\ writers' \subseteq {"daemon", "child"}
    BY <1>19 DEF End
  <2>4. UNCHANGED <<env, pc, left, sigpipe, previous_sigpipe, send_result, result,
                    buffer, child_sigpipe, hist>>
    BY <1>19 DEF End, daemon
  <2> QED BY <2>1, <2>2, <2>3, <2>4
<1>20. CASE DupFails \/ ExecFails \/ CommandExits \/ Killed
  BY <1>19, <1>20 DEF DupFails, ExecFails, CommandExits, Killed
<1>21. CASE Read
  <2>1. PICK n \in 1 .. buffer : buffer' = buffer - n
    BY <1>21 DEF Read
  <2>2. buffer' \in 0 .. Capacity
    <3>1. buffer \in Nat /\ Capacity \in Nat /\ buffer =< Capacity
      OBVIOUS
    <3> QED BY <2>1, <3>1
  <2>3. UNCHANGED <<env, pc, left, sigpipe, previous_sigpipe, send_result, result,
                    readers, writers, child, child_sigpipe, child_status, hist>>
    BY <1>21 DEF Read, daemon, offspring
  <2> QED BY <2>2, <2>3
<1>22. CASE CloseStdin
  BY <1>22 DEF CloseStdin, daemon, offspring
<1>23. CASE UNCHANGED vars
  <2>1. UNCHANGED <<env, pc, left, sigpipe, previous_sigpipe, send_result, result,
                    readers, writers, buffer, child, child_sigpipe, child_status,
                    hist>>
    BY <1>23 DEF vars, daemon, pipe, offspring
  <2> QED BY <2>1
<1> QED
  BY <1>1, <1>2, <1>3, <1>4, <1>5, <1>6, <1>7, <1>8, <1>9, <1>10, <1>11, <1>12,
     <1>13, <1>14, <1>15, <1>16, <1>17, <1>18, <1>20, <1>21, <1>22, <1>23
     DEF Next, Daemon, BeforeExec, Command

\* A descriptor is held exactly as long as the code of its holder says.
LEMMA PipeStep == IInv /\ [Next]_vars => PipeInv'
<1> SUFFICES ASSUME TypeOK, PipeInv, SigpipeInv, [Next]_vars PROVE PipeInv'
  BY DEF IInv
<1> USE SizeAssumption DEF TypeOK, PipeInv, SigpipeInv, Alive
<1>1. CASE SendFails
  BY <1>1 DEF SendFails, Return, pipe, offspring
<1>2. CASE MakePipe
  BY <1>2 DEF MakePipe, NewCall, offspring
<1>3. CASE Fork
  BY <1>3 DEF Fork
<1>4. CASE ForkFails
  BY <1>4 DEF ForkFails, WritersAfterForkFailed, Return, offspring
<1>5. CASE CloseRead
  BY <1>5 DEF CloseRead, offspring
<1>6. CASE IgnoreSigpipe
  BY <1>6 DEF IgnoreSigpipe, Ignored, pipe, offspring
<1>7. CASE IgnoreFails
  BY <1>7 DEF IgnoreFails, offspring
<1>8. CASE Write
  BY <1>8 DEF Write, offspring
<1>9. CASE WriteBreaks
  BY <1>9 DEF WriteBreaks, pipe, offspring
<1>10. CASE CloseWrite
  BY <1>10 DEF CloseWrite, offspring
<1>11. CASE RestoreSigpipe
  BY <1>11 DEF RestoreSigpipe, Restored, pipe, offspring
<1>12. CASE RestoreFails
  BY <1>12 DEF RestoreFails, pipe, offspring
<1>13. CASE Reap
  BY <1>13 DEF Reap, Return, ResultOf, pipe
<1>14. CASE WaitFails
  BY <1>14 DEF WaitFails, Return, pipe
<1>15. CASE ChildClosesWrite
  BY <1>15 DEF ChildClosesWrite, WithoutChild, daemon
<1>16. CASE ChildDups
  BY <1>16 DEF ChildDups, daemon, pipe
<1>17. CASE ChildClosesRead
  BY <1>17 DEF ChildClosesRead, daemon
<1>18. CASE Exec
  BY <1>18 DEF Exec, daemon, pipe
<1>19. ASSUME NEW status, End(status), status = Exited(0) => child = "command"
       PROVE  PipeInv'
  BY <1>19 DEF End, daemon
<1>20. CASE DupFails \/ ExecFails \/ CommandExits \/ Killed
  BY <1>19, <1>20 DEF DupFails, ExecFails, CommandExits, Killed, Exited, Signaled
<1>21. CASE Read
  BY <1>21 DEF Read, daemon, offspring
<1>22. CASE CloseStdin
  BY <1>22 DEF CloseStdin, daemon, offspring
<1>23. CASE UNCHANGED vars
  BY <1>23 DEF vars, daemon, pipe, offspring
<1> QED
  BY <1>1, <1>2, <1>3, <1>4, <1>5, <1>6, <1>7, <1>8, <1>9, <1>10, <1>11, <1>12,
     <1>13, <1>14, <1>15, <1>16, <1>17, <1>18, <1>20, <1>21, <1>22, <1>23
     DEF Next, Daemon, BeforeExec, Command

\* The disposition is saved, replaced and restored around the writes.
LEMMA SigpipeStep == IInv /\ [Next]_vars => SigpipeInv'
<1> SUFFICES ASSUME TypeOK, PipeInv, SigpipeInv, [Next]_vars PROVE SigpipeInv'
  BY DEF IInv
<1> USE SizeAssumption DEF TypeOK, PipeInv, SigpipeInv, Alive
<1>1. CASE SendFails
  BY <1>1 DEF SendFails, Return, pipe, offspring
<1>2. CASE MakePipe
  BY <1>2 DEF MakePipe, NewCall, offspring
<1>3. CASE Fork
  BY <1>3 DEF Fork
<1>4. CASE ForkFails
  BY <1>4 DEF ForkFails, WritersAfterForkFailed, Return, offspring
<1>5. CASE CloseRead
  BY <1>5 DEF CloseRead, offspring
<1>6. CASE IgnoreSigpipe
  BY <1>6 DEF IgnoreSigpipe, Ignored, pipe, offspring
<1>7. CASE IgnoreFails
  BY <1>7 DEF IgnoreFails, offspring
<1>8. CASE Write
  BY <1>8 DEF Write, offspring
<1>9. CASE WriteBreaks
  BY <1>9 DEF WriteBreaks, pipe, offspring
<1>10. CASE CloseWrite
  BY <1>10 DEF CloseWrite, offspring
<1>11. CASE RestoreSigpipe
  BY <1>11 DEF RestoreSigpipe, Restored, pipe, offspring
<1>12. CASE RestoreFails
  BY <1>12 DEF RestoreFails, pipe, offspring
<1>13. CASE Reap
  BY <1>13 DEF Reap, Return, ResultOf, pipe
<1>14. CASE WaitFails
  BY <1>14 DEF WaitFails, Return, pipe
<1>15. CASE ChildClosesWrite
  BY <1>15 DEF ChildClosesWrite, WithoutChild, daemon
<1>16. CASE ChildDups
  BY <1>16 DEF ChildDups, daemon, pipe
<1>17. CASE ChildClosesRead
  BY <1>17 DEF ChildClosesRead, daemon
<1>18. CASE Exec
  BY <1>18 DEF Exec, daemon, pipe
<1>19. ASSUME NEW status, End(status), status = Exited(0) => child = "command"
       PROVE  SigpipeInv'
  BY <1>19 DEF End, daemon
<1>20. CASE DupFails \/ ExecFails \/ CommandExits \/ Killed
  BY <1>19, <1>20 DEF DupFails, ExecFails, CommandExits, Killed, Exited, Signaled
<1>21. CASE Read
  BY <1>21 DEF Read, daemon, offspring
<1>22. CASE CloseStdin
  BY <1>22 DEF CloseStdin, daemon, offspring
<1>23. CASE UNCHANGED vars
  BY <1>23 DEF vars, daemon, pipe, offspring
<1> QED
  BY <1>1, <1>2, <1>3, <1>4, <1>5, <1>6, <1>7, <1>8, <1>9, <1>10, <1>11, <1>12,
     <1>13, <1>14, <1>15, <1>16, <1>17, <1>18, <1>20, <1>21, <1>22, <1>23
     DEF Next, Daemon, BeforeExec, Command

\* Bytes written and bytes left always make up the message.
LEMMA WrittenStep == IInv /\ [Next]_vars => WrittenInv'
<1> SUFFICES ASSUME TypeOK, PipeInv, SigpipeInv, WrittenInv, [Next]_vars PROVE WrittenInv'
  BY DEF IInv
<1> USE SizeAssumption DEF TypeOK, PipeInv, SigpipeInv, WrittenInv, Alive
<1>1. CASE SendFails
  BY <1>1 DEF SendFails, Return, pipe, offspring
<1>2. CASE MakePipe
  BY <1>2 DEF MakePipe, NewCall, offspring
<1>3. CASE Fork
  BY <1>3 DEF Fork
<1>4. CASE ForkFails
  BY <1>4 DEF ForkFails, WritersAfterForkFailed, Return, offspring
<1>5. CASE CloseRead
  BY <1>5 DEF CloseRead, offspring
<1>6. CASE IgnoreSigpipe
  BY <1>6 DEF IgnoreSigpipe, Ignored, pipe, offspring
<1>7. CASE IgnoreFails
  BY <1>7 DEF IgnoreFails, offspring
<1>8. CASE Write
  BY <1>8 DEF Write, offspring
<1>9. CASE WriteBreaks
  BY <1>9 DEF WriteBreaks, pipe, offspring
<1>10. CASE CloseWrite
  BY <1>10 DEF CloseWrite, offspring
<1>11. CASE RestoreSigpipe
  BY <1>11 DEF RestoreSigpipe, Restored, pipe, offspring
<1>12. CASE RestoreFails
  BY <1>12 DEF RestoreFails, pipe, offspring
<1>13. CASE Reap
  BY <1>13 DEF Reap, Return, ResultOf, pipe
<1>14. CASE WaitFails
  BY <1>14 DEF WaitFails, Return, pipe
<1>15. CASE ChildClosesWrite
  BY <1>15 DEF ChildClosesWrite, WithoutChild, daemon
<1>16. CASE ChildDups
  BY <1>16 DEF ChildDups, daemon, pipe
<1>17. CASE ChildClosesRead
  BY <1>17 DEF ChildClosesRead, daemon
<1>18. CASE Exec
  BY <1>18 DEF Exec, daemon, pipe
<1>19. ASSUME NEW status, End(status), status = Exited(0) => child = "command"
       PROVE  WrittenInv'
  BY <1>19 DEF End, daemon
<1>20. CASE DupFails \/ ExecFails \/ CommandExits \/ Killed
  BY <1>19, <1>20 DEF DupFails, ExecFails, CommandExits, Killed, Exited, Signaled
<1>21. CASE Read
  BY <1>21 DEF Read, daemon, offspring
<1>22. CASE CloseStdin
  BY <1>22 DEF CloseStdin, daemon, offspring
<1>23. CASE UNCHANGED vars
  BY <1>23 DEF vars, daemon, pipe, offspring
<1> QED
  BY <1>1, <1>2, <1>3, <1>4, <1>5, <1>6, <1>7, <1>8, <1>9, <1>10, <1>11, <1>12,
     <1>13, <1>14, <1>15, <1>16, <1>17, <1>18, <1>20, <1>21, <1>22, <1>23
     DEF Next, Daemon, BeforeExec, Command

\* Only the end of the child and exec touch what StatusInv speaks of; a new child
\* has not become the command yet.
LEMMA StatusStep == IInv /\ [Next]_vars => StatusInv'
<1> SUFFICES ASSUME TypeOK, PipeInv, StatusInv, [Next]_vars PROVE StatusInv'
  BY DEF IInv
<1> USE DEF TypeOK, PipeInv, StatusInv, Alive
<1>1. CASE UNCHANGED <<env, offspring>> /\ hist'.on_stdin = hist.on_stdin
  BY <1>1 DEF offspring
<1>2. CASE SendFails \/ ForkFails \/ CloseRead \/ IgnoreSigpipe \/ IgnoreFails
           \/ WriteBreaks \/ CloseWrite \/ RestoreSigpipe \/ RestoreFails
           \/ Read \/ CloseStdin \/ UNCHANGED vars
  BY <1>1, <1>2
     DEF SendFails, ForkFails, CloseRead, IgnoreSigpipe, IgnoreFails,
         WriteBreaks, CloseWrite, RestoreSigpipe, RestoreFails, Read,
         CloseStdin, vars
<1>3. CASE MakePipe \/ Fork
  BY <1>3 DEF MakePipe, Fork, offspring
<1>4. CASE Write
  BY <1>1, <1>4 DEF Write
<1>5. CASE Reap \/ WaitFails \/ ChildClosesWrite \/ ChildDups \/ ChildClosesRead
  BY <1>5 DEF Reap, WaitFails, ChildClosesWrite, ChildDups, ChildClosesRead
<1>6. CASE Exec
  BY <1>6 DEF Exec
<1>7. ASSUME NEW status, End(status), status = Exited(0) => child = "command"
      PROVE  StatusInv'
  BY <1>7 DEF End
<1>8. CASE DupFails \/ ExecFails \/ CommandExits \/ Killed
  BY <1>7, <1>8 DEF DupFails, ExecFails, CommandExits, Killed, Exited, Signaled
<1> QED
  BY <1>2, <1>3, <1>4, <1>5, <1>6, <1>8 DEF Next, Daemon, BeforeExec, Command

\* Only Reap returns 0; until the next call nothing it depends on changes.
LEMMA SuccessStep == IInv /\ [Next]_vars => SuccessMeansSent'
<1> SUFFICES ASSUME TypeOK, PipeInv, WrittenInv, StatusInv, SuccessMeansSent,
                    [Next]_vars
             PROVE  SuccessMeansSent'
  BY DEF IInv
<1> USE DEF TypeOK, PipeInv, WrittenInv, StatusInv, SuccessMeansSent, Alive
<1>1. CASE SendFails \/ ForkFails \/ WaitFails
  BY <1>1 DEF SendFails, ForkFails, WaitFails, Return
<1>2. CASE Reap
  BY <1>2 DEF Reap, Return, ResultOf
<1>3. CASE pc' # "idle"
  BY <1>3
<1>4. CASE MakePipe \/ Fork \/ CloseRead \/ IgnoreSigpipe \/ IgnoreFails \/ Write
           \/ WriteBreaks \/ CloseWrite \/ RestoreSigpipe \/ RestoreFails
  BY <1>3, <1>4
     DEF MakePipe, Fork, CloseRead, IgnoreSigpipe, IgnoreFails, Write,
         WriteBreaks, CloseWrite, RestoreSigpipe, RestoreFails
<1>5. CASE UNCHANGED daemon /\ child \in Alive
  BY <1>3, <1>5 DEF daemon
<1>6. CASE BeforeExec \/ Command
  <2>1. ASSUME NEW status, End(status) PROVE UNCHANGED daemon /\ child \in Alive
    BY <2>1 DEF End
  <2>2. UNCHANGED daemon /\ child \in Alive
    BY <1>6, <2>1
       DEF BeforeExec, ChildClosesWrite, ChildDups, DupFails, ChildClosesRead,
           Exec, ExecFails, Command, Read, CloseStdin, CommandExits, Killed
  <2> QED BY <1>5, <2>2
<1>7. CASE UNCHANGED vars
  BY <1>7 DEF vars, daemon, offspring
<1> QED BY <1>1, <1>2, <1>4, <1>6, <1>7 DEF Next, Daemon

-----------------------------------------------------------------------------
(* The theorems.                                                           *)

\* The invariant holds of every reachable state.
THEOREM Inductive == Spec => []IInv
<1>1. IInv /\ [Next]_vars => IInv'
  BY TypeStep, PipeStep, SigpipeStep, WrittenStep, StatusStep, SuccessStep DEF IInv
<1> QED BY InitInv, <1>1, PTL DEF Spec

\* The state of notifier_send, of the pipe and of the child keeps its types, for
\* messages and pipes of any length.
THEOREM TypeCorrect == Spec => []TypeOK
<1>1. IInv => TypeOK
  BY DEF IInv
<1> QED BY <1>1, Inductive, PTL

\* A call that returned 0 wrote all of its message to a command that exited with
\* 0, whatever the command did and whatever else failed.
THEOREM SuccessIsSent == Spec => []SuccessMeansSent
<1>1. IInv => SuccessMeansSent
  BY DEF IInv
<1> QED BY <1>1, Inductive, PTL

\* No command ends the daemon by closing its standard input early.
THEOREM NeverKilled == Spec => []SurvivesEarlyEnd
<1>1. IInv => SurvivesEarlyEnd
  BY DEF IInv, SigpipeInv, SurvivesEarlyEnd
<1> QED BY <1>1, Inductive, PTL

\* Every command starts with the disposition of SIGPIPE that the daemon inherited,
\* whichever that is, unless restoring it has failed.
THEOREM InheritedSigpipe == Spec => []CommandsGetInheritedSigpipe
<1>1. IInv => CommandsGetInheritedSigpipe
  BY DEF IInv, SigpipeInv, CommandsGetInheritedSigpipe
<1> QED BY <1>1, Inductive, PTL

\* A call that has returned leaves neither a descriptor nor a child.
THEOREM NothingLeft == Spec => []NothingLeftBehind
<1>1. IInv => NothingLeftBehind
  BY DEF IInv, TypeOK, PipeInv, NothingLeftBehind, Alive
<1> QED BY <1>1, Inductive, PTL

\* Daemon and command never wait for each other, for pipes of any capacity.
THEOREM NobodyStuck == Spec => []NoCircularWait
<1>1. ASSUME IInv PROVE NoCircularWait
  <2>1. PipeInv /\ readers \subseteq {"daemon", "child"}
        /\ writers \subseteq {"daemon", "child"}
    BY <1>1 DEF IInv, TypeOK
  <2>2. pc = "wait" => child # "none" /\ (child = "command" => writers = {})
    BY <2>1 DEF PipeInv
  <2>3. pc \in {"message", "newline"} /\ readers # {} =>
           readers = {"child"} /\ child \in Alive
    BY <2>1 DEF PipeInv
  <2>4. child = "command" => "child" \notin writers
    BY <2>1 DEF PipeInv
  <2> QED BY <2>2, <2>3, <2>4 DEF NoCircularWait
<1> QED BY <1>1, Inductive, PTL

-----------------------------------------------------------------------------
(* A call cannot go on for ever: what is left to do of it is a natural     *)
(* number that every step of daemon, child or command lowers.              *)

DaemonLeft(at) ==
    CASE at = "fork" -> 15 [] at = "close_read" -> 7 [] at = "ignore" -> 6
      [] at = "message" -> 5 [] at = "newline" -> 4 [] at = "close_write" -> 3
      [] at = "restore" -> 2 [] at = "wait" -> 1 [] OTHER -> 0

ChildLeft(at) ==
    CASE at = "close_write" -> 6 [] at = "dup" -> 5 [] at = "close_read" -> 4
      [] at = "exec" -> 3 [] at = "command" -> 2 [] OTHER -> 0

Unwritten(at, n) ==
    CASE at \in {"fork", "close_read", "ignore"} -> MessageLength + 1
      [] at = "message" -> n + 1 [] at = "newline" -> n [] OTHER -> 0

ReadEnd(holders) == IF "child" \in holders THEN 1 ELSE 0

\* A byte written is one less to write and one more to read.
StepsLeft ==
    DaemonLeft(pc) + ChildLeft(child) + 2 * Unwritten(pc, left) + buffer
       + ReadEnd(readers)

LEMMA LeftAreNat ==
  ASSUME TypeOK
  PROVE  /\ DaemonLeft(pc) \in Nat /\ ChildLeft(child) \in Nat
         /\ Unwritten(pc, left) \in Nat
         /\ buffer \in Nat /\ ReadEnd(readers) \in Nat
BY SizeAssumption DEF TypeOK, DaemonLeft, ChildLeft, Unwritten, ReadEnd

LEMMA StepsLeftIsNat == TypeOK => StepsLeft \in Nat
BY LeftAreNat DEF StepsLeft

LEMMA StillNat == TypeOK' => StepsLeft' \in Nat
<1>1. TypeOK' => /\ DaemonLeft(pc') \in Nat /\ ChildLeft(child') \in Nat
                 /\ Unwritten(pc', left') \in Nat /\ buffer' \in Nat
                 /\ ReadEnd(readers') \in Nat
  BY SizeAssumption DEF TypeOK, DaemonLeft, ChildLeft, Unwritten, ReadEnd
<1> QED BY <1>1 DEF StepsLeft

\* Each of the parts may only rise when another one falls by more.
LEMMA StepsLeftFalls ==
  ASSUME IInv, IInv', Next, pc # "idle"
  PROVE  StepsLeft' < StepsLeft
<1> USE DEF IInv
<1>1. /\ DaemonLeft(pc) \in Nat /\ ChildLeft(child) \in Nat
      /\ Unwritten(pc, left) \in Nat
      /\ buffer \in Nat /\ ReadEnd(readers) \in Nat
      /\ DaemonLeft(pc') \in Nat /\ ChildLeft(child') \in Nat
      /\ Unwritten(pc', left') \in Nat
      /\ buffer' \in Nat /\ ReadEnd(readers') \in Nat
  BY LeftAreNat, SizeAssumption
     DEF TypeOK, DaemonLeft, ChildLeft, Unwritten, ReadEnd
<1>2. CASE DaemonLeft(pc') + ChildLeft(child') + 2 * Unwritten(pc', left')
              + buffer' + ReadEnd(readers')
           < DaemonLeft(pc) + ChildLeft(child) + 2 * Unwritten(pc, left)
              + buffer + ReadEnd(readers)
  BY <1>2 DEF StepsLeft
<1>3. CASE Fork
  <2>1. /\ DaemonLeft(pc') + 8 = DaemonLeft(pc)
        /\ Unwritten(pc', left') = Unwritten(pc, left)
        /\ buffer' = buffer /\ ChildLeft(child') = 6 /\ ChildLeft(child) = 0
        /\ ReadEnd(readers') = 1 /\ ReadEnd(readers) = 0
    BY <1>3 DEF Fork, PipeInv, Alive, DaemonLeft, ChildLeft, Unwritten, ReadEnd
  <2> QED BY <1>1, <1>2, <2>1
<1>4. CASE UNCHANGED <<buffer, offspring>> /\ ReadEnd(readers') =< ReadEnd(readers)
           /\ DaemonLeft(pc') < DaemonLeft(pc)
           /\ Unwritten(pc', left') =< Unwritten(pc, left)
  <2>1. ChildLeft(child') = ChildLeft(child)
    BY <1>4 DEF offspring, ChildLeft
  <2> QED BY <1>1, <1>2, <1>4, <2>1
<1>5. CASE ForkFails \/ CloseRead \/ IgnoreSigpipe \/ IgnoreFails \/ WriteBreaks
           \/ CloseWrite \/ RestoreSigpipe \/ RestoreFails
  <2>1. UNCHANGED <<buffer, offspring>>
    BY <1>5 DEF ForkFails, CloseRead, IgnoreSigpipe, IgnoreFails, WriteBreaks,
          CloseWrite, RestoreSigpipe, RestoreFails, pipe
  <2>2. ReadEnd(readers') =< ReadEnd(readers)
    BY <1>5 DEF ForkFails, CloseRead, IgnoreSigpipe, IgnoreFails, WriteBreaks,
          CloseWrite, RestoreSigpipe, RestoreFails, pipe, ReadEnd
  <2>3. DaemonLeft(pc') < DaemonLeft(pc)
    BY <1>5 DEF ForkFails, Return, CloseRead, IgnoreSigpipe, IgnoreFails,
          WriteBreaks, CloseWrite, RestoreSigpipe, RestoreFails, DaemonLeft
  <2>4. Unwritten(pc', left') =< Unwritten(pc, left)
    <3>1. CASE IgnoreSigpipe
      BY <1>1, <3>1, SizeAssumption DEF IgnoreSigpipe, Unwritten
    <3>2. CASE CloseRead
      BY <1>1, <3>2, SizeAssumption DEF CloseRead, Unwritten
    <3>3. CASE ForkFails \/ IgnoreFails \/ WriteBreaks \/ CloseWrite
               \/ RestoreSigpipe \/ RestoreFails
      <4>1. Unwritten(pc', left') = 0
        BY <3>3 DEF ForkFails, Return, IgnoreFails, WriteBreaks, CloseWrite,
              RestoreSigpipe, RestoreFails, Unwritten
      <4> QED BY <1>1, <4>1
    <3> QED BY <1>5, <3>1, <3>2, <3>3
  <2> QED BY <1>4, <2>1, <2>2, <2>3, <2>4
<1>6. CASE Write
  <2>1. PICK n \in 1 .. left :
         /\ buffer' = buffer + n
         /\ IF n < left THEN left' = left - n /\ pc' = pc
            ELSE IF pc = "message" THEN left' = 1 /\ pc' = "newline"
            ELSE left' = 0 /\ pc' = "close_write"
    BY <1>6 DEF Write
  <2>2. /\ left \in Nat /\ n \in Nat /\ n >= 1 /\ n =< left
        /\ pc \in {"message", "newline"}
        /\ pc = "newline" => left = 1
    BY <1>6, SizeAssumption DEF Write, TypeOK, WrittenInv
  <2>3. ChildLeft(child') = ChildLeft(child) /\ ReadEnd(readers') = ReadEnd(readers)
    BY <1>6 DEF Write, offspring, ChildLeft, ReadEnd
  <2>4. Unwritten(pc', left') = Unwritten(pc, left) - n
    BY <2>1, <2>2 DEF Unwritten
  <2>5. DaemonLeft(pc') =< DaemonLeft(pc)
    BY <2>1, <2>2 DEF DaemonLeft
  <2>6. buffer' = buffer + n
    BY <2>1
  <2>7. n \in Nat /\ n >= 1
    BY <2>2
  <2>8. 2 * Unwritten(pc', left') + buffer' < 2 * Unwritten(pc, left) + buffer
    BY ONLY <1>1, <2>4, <2>6, <2>7
  <2> QED BY ONLY <1>1, <1>2, <2>3, <2>5, <2>8
<1>7. CASE Reap \/ WaitFails
  <2>1. /\ DaemonLeft(pc') = 0 /\ DaemonLeft(pc) = 1
        /\ ChildLeft(child') = 0 /\ ChildLeft(child) = 0
        /\ Unwritten(pc', left') = 0 /\ Unwritten(pc, left) = 0
    BY <1>7 DEF Reap, WaitFails, Return, DaemonLeft, ChildLeft, Unwritten
  <2>2. buffer' = buffer /\ ReadEnd(readers') = ReadEnd(readers)
    BY <1>7 DEF Reap, WaitFails, pipe, ReadEnd
  <2> QED BY <1>1, <1>2, <2>1, <2>2
<1>8. CASE UNCHANGED daemon /\ buffer' =< buffer /\ ReadEnd(readers') =< ReadEnd(readers)
           /\ ChildLeft(child') =< ChildLeft(child)
           /\ (\/ buffer' # buffer \/ ReadEnd(readers') # ReadEnd(readers)
               \/ ChildLeft(child') # ChildLeft(child))
  <2>1. DaemonLeft(pc') = DaemonLeft(pc) /\ Unwritten(pc', left') = Unwritten(pc, left)
    BY <1>8 DEF daemon, DaemonLeft, Unwritten
  <2>2. buffer' + ReadEnd(readers') + ChildLeft(child')
           < buffer + ReadEnd(readers) + ChildLeft(child)
    BY ONLY <1>1, <1>8
  <2> QED BY ONLY <1>1, <1>2, <2>1, <2>2
<1>9. ASSUME NEW status, End(status) PROVE StepsLeft' < StepsLeft
  <2>1. UNCHANGED daemon /\ buffer' = buffer
    BY <1>9 DEF End
  <2>2. ReadEnd(readers') =< ReadEnd(readers)
    BY <1>9 DEF End, ReadEnd
  <2>3. ChildLeft(child') < ChildLeft(child)
    BY <1>9 DEF End, ChildLeft, Alive
  <2> QED BY <1>1, <1>8, <2>1, <2>2, <2>3
<1>10. CASE ChildClosesWrite \/ ChildDups \/ ChildClosesRead \/ Exec
  <2>1. UNCHANGED daemon /\ buffer' = buffer
    BY <1>10 DEF ChildClosesWrite, ChildDups, ChildClosesRead, Exec, pipe
  <2>2. ReadEnd(readers') =< ReadEnd(readers)
    BY <1>10 DEF ChildClosesWrite, ChildDups, ChildClosesRead, Exec, pipe, ReadEnd
  <2>3. ChildLeft(child') < ChildLeft(child)
    BY <1>10 DEF ChildClosesWrite, ChildDups, ChildClosesRead, Exec, ChildLeft
  <2> QED BY <1>1, <1>8, <2>1, <2>2, <2>3
<1>11. CASE Read
  <2>1. PICK n \in 1 .. buffer : buffer' = buffer - n
    BY <1>11 DEF Read
  <2>2. /\ UNCHANGED daemon /\ ReadEnd(readers') = ReadEnd(readers)
        /\ ChildLeft(child') = ChildLeft(child)
    BY <1>11 DEF Read, offspring, ReadEnd, ChildLeft
  <2>3. buffer' < buffer
    BY <1>1, <2>1
  <2> QED BY <1>1, <1>8, <2>2, <2>3
<1>12. CASE CloseStdin
  <2>1. UNCHANGED daemon /\ buffer' = buffer /\ ChildLeft(child') = ChildLeft(child)
    BY <1>12 DEF CloseStdin, offspring, ChildLeft
  <2>2. ReadEnd(readers) = 1 /\ ReadEnd(readers') = 0
    BY <1>12 DEF CloseStdin, ReadEnd
  <2> QED BY <1>1, <1>8, <2>1, <2>2
<1>13. CASE SendFails \/ MakePipe
  BY <1>13 DEF SendFails, MakePipe
<1> QED
  BY <1>3, <1>5, <1>6, <1>7, <1>9, <1>10, <1>11, <1>12, <1>13
     DEF Next, Daemon, BeforeExec, DupFails, ExecFails, Command, CommandExits,
         Killed

\* Once it made the pipe, a call takes boundedly many steps, however the command
\* reads, stops reading or ends: no retry and no partial write goes round.
\* With NobodyStuck, only a command that does not end can make it wait.
THEOREM CallNearsItsEnd ==
    Spec => [][pc # "idle" =>
                 StepsLeft \in Nat /\ StepsLeft' \in Nat /\ StepsLeft' < StepsLeft]_vars
<1> DEFINE Nearer ==
       pc # "idle" =>
          StepsLeft \in Nat /\ StepsLeft' \in Nat /\ StepsLeft' < StepsLeft
<1>1. ASSUME IInv, IInv', Next, pc # "idle"
      PROVE  StepsLeft \in Nat /\ StepsLeft' \in Nat /\ StepsLeft' < StepsLeft
  <2>1. StepsLeft \in Nat
    BY <1>1, StepsLeftIsNat DEF IInv
  <2>2. StepsLeft' \in Nat
    BY <1>1, StillNat DEF IInv
  <2> QED BY <1>1, <2>1, <2>2, StepsLeftFalls
<1>2. IInv /\ IInv' /\ [Next]_vars => [Nearer]_vars
  BY <1>1
<1> QED BY <1>2, Inductive, PTL DEF Spec

=============================================================================
