----------------------------- MODULE MCKeyboard -----------------------------
(* Both alt keys, a shift key, caps lock, a letter, an arrow and the keys    *)
(* that switch terminals.                                                    *)
EXTENDS Keyboard

=============================================================================
