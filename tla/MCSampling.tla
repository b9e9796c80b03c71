----------------------------- MODULE MCSampling -----------------------------
(***************************************************************************)
(* An instance of Sampling: two interfaces, and a version of the file for  *)
(* each kind of selection.                                                 *)
(***************************************************************************)
EXTENDS Sampling

CONSTANTS lo, eth

MCInterfaces == {lo, eth}

\* The defaults take all but the loopback, version 1 takes both, version 2 one
\* that the defaults do not.
MCListed == [v \in 0 .. MaxVersion |->
               CASE v = 0 -> {} [] v = 1 -> {lo, eth} [] OTHER -> {lo}]

=============================================================================
