----------------------------- MODULE Allocator -----------------------------
(***************************************************************************)
(* What an allocator promises: it lends out items that are free, takes     *)
(* back items that are lent out, and no item is lost, invented or lent     *)
(* twice.                                                                  *)
(***************************************************************************)
CONSTANT Item

VARIABLES free, held

Init ==
    /\ free \subseteq Item
    /\ held = {}

Lend(S) ==
    /\ S # {} /\ S \subseteq free
    /\ free' = free \ S
    /\ held' = held \cup S

TakeBack(S) ==
    /\ S # {} /\ S \subseteq held
    /\ held' = held \ S
    /\ free' = free \cup S

Next ==
    \/ Lend(free \ free')
    \/ TakeBack(held \ held')

Spec == Init /\ [][Next]_<<free, held>>

=============================================================================
