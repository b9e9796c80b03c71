------------------------------ MODULE LogStore ------------------------------
(***************************************************************************)
(* What a rotated log promises a reader, per path: what is kept, in the    *)
(* backup and then the current file, is a window on the sequence of the    *)
(* records written there.  A new record goes to its end, and only the      *)
(* oldest ones may be lost: none is skipped, repeated or out of order.     *)
(***************************************************************************)
EXTENDS Integers, Sequences

CONSTANTS Paths, Records      \* a record has an id, which grows with time

VARIABLE kept                 \* kept[p]: the records a reader of p finds

Init == kept = [p \in Paths |-> <<>>]

Newer(r, s) == \A i \in DOMAIN s : s[i].id < r.id

Write(p, r) ==
    /\ Newer(r, kept[p])
    /\ kept' = [kept EXCEPT ![p] = Append(@, r)]

LoseOldest(p) ==
    \E n \in 0 .. Len(kept[p]) :
        kept' = [kept EXCEPT ![p] = SubSeq(@, n + 1, Len(@))]

Next == \E p \in Paths : LoseOldest(p) \/ \E r \in Records : Write(p, r)

Spec == Init /\ [][Next]_kept

=============================================================================
