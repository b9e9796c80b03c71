---------------------------- MODULE AlertLevels ----------------------------
(***************************************************************************)
(* The alert levels of include/alert.h and the function of src/alert.c     *)
(* that chooses the higher of two.  A level is its enum value, so that     *)
(* "higher" is >= as in C.                                                 *)
(***************************************************************************)
EXTENDS Integers

NORMAL == 0
WARNING == 1
CRITICAL == 2
Levels == {NORMAL, WARNING, CRITICAL}

\* alert_get_higher_level.
HigherLevel(first, second) == IF first >= second THEN first ELSE second

=============================================================================
