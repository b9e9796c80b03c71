---------------------------- MODULE AlertStream ----------------------------
(***************************************************************************)
(* What EdgeSentinel promises about its streams of level changes, whoever  *)
(* produces them: the CPU, the memory and the availability of a monitored  *)
(* process; the CPU, the memory and the disk of the system; the status of  *)
(* the whole system.                                                       *)
(*                                                                         *)
(* A stream first establishes a level silently (README: a level is only    *)
(* reported when it changes), then reports each change exactly once, from  *)
(* the level it last held to the new one.  It may forget its level at any  *)
(* time, and must then establish one silently again.  A step of the daemon *)
(* may concern several streams: a reload makes all of them forget.         *)
(*                                                                         *)
(* event[s] is what the last step reported of stream s, or Silent.         *)
(***************************************************************************)
CONSTANTS Streams,        \* the streams
          StreamLevels,   \* the levels they move between
          Unknown         \* not a level: there is nothing to compare with

VARIABLES known, event

vars == <<known, event>>

Silent == [from |-> Unknown, to |-> Unknown]

Init ==
    /\ known = [s \in Streams |-> Unknown]
    /\ event = [s \in Streams |-> Silent]

\* The first sample of a tenure: remembered, never reported.
Establish(s) ==
    /\ known[s] = Unknown
    /\ known'[s] \in StreamLevels
    /\ event'[s] = Silent

\* A change: reported from the remembered level, which it replaces.
Change(s) ==
    /\ known[s] # Unknown
    /\ known'[s] \in StreamLevels \ {known[s]}
    /\ event'[s] = [from |-> known[s], to |-> known'[s]]

Forget(s) == known'[s] = Unknown /\ event'[s] = Silent

Quiet(s) == known'[s] = known[s] /\ event'[s] = Silent

Next ==
    /\ DOMAIN known' = Streams /\ DOMAIN event' = Streams
    /\ \A s \in Streams : Establish(s) \/ Change(s) \/ Forget(s) \/ Quiet(s)

Spec == Init /\ [][Next]_vars

=============================================================================
