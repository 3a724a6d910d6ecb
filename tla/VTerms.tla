------------------------------- MODULE VTerms -------------------------------
(***************************************************************************)
(* The virtual terminals, and the one on the display, which the keyboard   *)
(* (global_fkey_handler) chooses and the console shows.                    *)
(***************************************************************************)
EXTENDS Integers

CONSTANT MaxTerm  \* MAX_VTERM

ASSUME VTermsAssumption == MaxTerm \in Nat \ {0}

Term == 1 .. MaxTerm

VARIABLE current_term

=============================================================================
