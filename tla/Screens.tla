------------------------------ MODULE Screens ------------------------------
(***************************************************************************)
(* What virtual terminals promise: every terminal has a screen of its own, *)
(* output to one changes no other, and choosing which one is shown changes *)
(* none.  Output that is stored outside its own screen may spoil others,   *)
(* but neither from the terminal that is shown nor on it.                  *)
(***************************************************************************)
CONSTANTS Term

VARIABLES
    screen,  \* for each terminal, what is on it and where its cursor is
    shown,   \* the terminal on the display
    spilled  \* terminals to which output was stored outside the screen

Init == shown \in Term /\ DOMAIN screen = Term /\ spilled = {}

Output(t) ==
    /\ screen' = [screen EXCEPT ![t] = screen'[t]]
    /\ UNCHANGED <<shown, spilled>>

Spill(t) ==
    /\ DOMAIN screen' = Term
    /\ \A u \in Term \ {t} : shown \in {t, u} => screen'[u] = screen[u]
    /\ spilled' = spilled \cup {t}
    /\ UNCHANGED shown

Show(t) ==
    /\ shown' = t
    /\ UNCHANGED <<screen, spilled>>

Next == \E t \in Term : Output(t) \/ Spill(t) \/ Show(t)

Spec == Init /\ [][Next]_<<screen, shown, spilled>>

=============================================================================
