------------------------------ MODULE Keyboard ------------------------------
(***************************************************************************)
(* From the keys to the programs: ps2_keyboard_interrupt_handler, keymap   *)
(* and global_fkey_handler (mckrnl/driver), and the system calls           *)
(* async_getc and async_getarrw with which programs poll.                  *)
(*                                                                         *)
(* The keyboard sends one byte per interrupt: a code for a key that goes   *)
(* down or up, preceded by 0xE0 for some.  The driver keeps one byte of    *)
(* look-ahead, the modifiers, one character and one arrow; the system      *)
(* calls take them only for a program whose terminal is on the display.    *)
(*                                                                         *)
(* Abstraction.  A byte is [code, up].  The codes 0x38 and 0x1D are the    *)
(* left or, behind the prefix, the right alt and ctrl.  One letter, one    *)
(* arrow and one extended key without a meaning stand for all.  A stored   *)
(* character is the number of its key press, the layout it was taken from  *)
(* and the terminal that was shown then; number 0 is the empty byte.       *)
(***************************************************************************)
EXTENDS Integers, Sequences, VTerms

CONSTANTS
    Key,        \* the keys of the keyboard, a subset of Keys
    MaxPresses  \* bound: how often keys go down or repeat

\* The code of a key, behind the prefix or alone.
Extended == [ralt |-> "38", rctrl |-> "1D", up |-> "48", delete |-> "53"]
Plain == [lalt |-> "38", lctrl |-> "1D", lshift |-> "2A", rshift |-> "36",
          caps |-> "3A", a |-> "1E", F1 |-> "3B", F2 |-> "3C", F9 |-> "43"]
Keys == DOMAIN Extended \cup DOMAIN Plain

\* The modifiers the driver knows by a code alone and behind the prefix.
Left == [c \in {"38", "1D", "2A", "36"} |->
            CASE c = "38" -> "lalt" [] c = "1D" -> "lctrl" [] c = "2A" -> "lshift" [] c = "36" -> "rshift"]
Right == [c \in {"38", "1D"} |-> IF c = "38" THEN "ralt" ELSE "rctrl"]
Modifier == {Left[c] : c \in DOMAIN Left} \cup {Right[c] : c \in DOMAIN Right}

\* The number of a function key.
Function == [c \in {"3B", "3C", "43"} |-> CASE c = "3B" -> 1 [] c = "3C" -> 2 [] c = "43" -> 9]

ASSUME KeyboardAssumption == Key \subseteq Keys

VARIABLES
    held,               \* the keys that are down
    wire,               \* bytes the keyboard has still to send
    special_key_next,   \* the next byte is the second of two
    special_code,       \* ... and this was the first
    special_keys_down,  \* the modifiers, as the driver sees them
    caps_lock,
    KBD_CHAR,
    KBD_ARRW,
    presses,            \* how often keys went down
    eaten,              \* history: a byte of another key came between the two of caps lock
    got                 \* the last character delivered, and to which terminal

keyboardVars ==
    <<held, wire, special_key_next, special_code, special_keys_down, caps_lock,
      KBD_CHAR, KBD_ARRW, current_term, presses, eaten, got>>

NoChar == [n |-> 0, layout |-> "none", term |-> 1]

----------------------------------------------------------------------------
(* The keyboard *)

Bytes(k, up) ==
    IF k \in DOMAIN Extended
    THEN <<[code |-> "E0", up |-> FALSE], [code |-> Extended[k], up |-> up]>>
    ELSE <<[code |-> Plain[k], up |-> up]>>

\* A key goes down, or is down and repeats.
Press(k) ==
    /\ wire = <<>> /\ presses < MaxPresses
    /\ held' = held \cup {k}
    /\ wire' = Bytes(k, FALSE)
    /\ presses' = presses + 1
    /\ UNCHANGED <<special_key_next, special_code, special_keys_down, caps_lock, KBD_CHAR,
                   KBD_ARRW, current_term, eaten, got>>

Lift(k) ==
    /\ wire = <<>> /\ k \in held
    /\ held' = held \ {k}
    /\ wire' = Bytes(k, TRUE)
    /\ UNCHANGED <<special_key_next, special_code, special_keys_down, caps_lock, KBD_CHAR,
                   KBD_ARRW, current_term, presses, eaten, got>>

----------------------------------------------------------------------------
(* ps2_keyboard_interrupt_handler, for a byte b *)

Toggle(modifier, up) ==
    special_keys_down' = IF up THEN special_keys_down \ {modifier}
                               ELSE special_keys_down \cup {modifier}

Wrong_SecondOfExtended(b) ==
    /\ special_key_next /\ special_code = "E0"
    /\ IF b.code \in DOMAIN Right THEN Toggle(Left[b.code], b.up)
       ELSE UNCHANGED special_keys_down
    /\ KBD_ARRW' = IF b.code = "48" /\ ~b.up
                   THEN [n |-> presses, layout |-> "arrow", term |-> current_term] ELSE KBD_ARRW
    /\ special_key_next' = FALSE
    /\ UNCHANGED <<special_code, caps_lock, KBD_CHAR, current_term, eaten>>

SecondOfExtended(b) ==
    /\ special_key_next /\ special_code = "E0"
    /\ IF b.code \in DOMAIN Right THEN Toggle(Right[b.code], b.up)
       ELSE UNCHANGED special_keys_down
    /\ KBD_ARRW' = IF b.code = "48" /\ ~b.up
                   THEN [n |-> presses, layout |-> "arrow", term |-> current_term] ELSE KBD_ARRW
    /\ special_key_next' = FALSE
    /\ UNCHANGED <<special_code, caps_lock, KBD_CHAR, current_term, eaten>>

\* Caps lock is switched when its release follows its press at once; whatever
\* else comes behind the press is dropped.
SecondOfCaps(b) ==
    /\ special_key_next /\ special_code = "3A"
    /\ caps_lock' = IF b.code = "3A" /\ b.up THEN ~caps_lock ELSE caps_lock
    /\ eaten' = (eaten \/ b.code # "3A")
    /\ special_key_next' = FALSE
    /\ UNCHANGED <<special_code, special_keys_down, KBD_CHAR, KBD_ARRW, current_term>>

FirstOfTwo(b) ==
    /\ ~special_key_next
    /\ b.code = "E0" \/ (b.code = "3A" /\ ~b.up)
    /\ special_key_next' = TRUE
    /\ special_code' = b.code
    /\ UNCHANGED <<special_keys_down, caps_lock, KBD_CHAR, KBD_ARRW, current_term, eaten>>

ModifierKey(b) ==
    /\ ~special_key_next
    /\ b.code \in DOMAIN Left
    /\ Toggle(Left[b.code], b.up)
    /\ UNCHANGED <<special_key_next, special_code, caps_lock, KBD_CHAR, KBD_ARRW,
                   current_term, eaten>>

\* keymap: the layouts hold 0 for function keys and for every release.
Layout ==
    LET shift == special_keys_down \cap {"lshift", "rshift"} # {}
        alt == special_keys_down \cap {"lalt", "ralt"} # {}
    IN  IF caps_lock # shift THEN "shift"
        ELSE IF ~caps_lock /\ alt THEN "alt" ELSE "normal"

keymap(b) ==
    IF b.code = "1E" /\ ~b.up
    THEN [n |-> presses, layout |-> Layout, term |-> current_term]
    ELSE NoChar

global_fkey_handler(b) ==
    current_term' = IF b.code \in DOMAIN Function /\ ~b.up /\ Function[b.code] <= MaxTerm
                    THEN Function[b.code] ELSE current_term

Wrong_OtherKey(b) ==
    /\ ~special_key_next
    /\ b.code \notin DOMAIN Left \cup {"E0"} /\ ~ (b.code = "3A" /\ ~b.up)
    /\ global_fkey_handler(b)
    /\ KBD_CHAR' = IF b.code \in DOMAIN Function THEN KBD_CHAR ELSE keymap(b)
    /\ UNCHANGED <<special_key_next, special_code, special_keys_down, caps_lock, KBD_ARRW, eaten>>

\* Every other byte, also a release, replaces the character.
OtherKey(b) ==
    /\ ~special_key_next
    /\ b.code \notin DOMAIN Left \cup {"E0"} /\ ~ (b.code = "3A" /\ ~b.up)
    /\ global_fkey_handler(b)
    /\ KBD_CHAR' = keymap(b)
    /\ UNCHANGED <<special_key_next, special_code, special_keys_down, caps_lock, KBD_ARRW, eaten>>

ps2_keyboard_interrupt_handler ==
    /\ wire # <<>>
    /\ LET b == Head(wire)
       IN  \/ SecondOfExtended(b) \/ SecondOfCaps(b)
           \/ FirstOfTwo(b) \/ ModifierKey(b) \/ OtherKey(b)
    /\ wire' = Tail(wire)
    /\ UNCHANGED <<held, presses, got>>

----------------------------------------------------------------------------
(* System calls of a program on terminal t; elsewhere they return 0 *)

sys_async_getc(t) ==
    /\ current_term = t /\ KBD_CHAR # NoChar
    /\ got' = [n |-> KBD_CHAR.n, from |-> KBD_CHAR.term, at |-> t]
    /\ KBD_CHAR' = NoChar
    /\ UNCHANGED <<held, wire, special_key_next, special_code, special_keys_down, caps_lock,
                   KBD_ARRW, current_term, presses, eaten>>

sys_async_getarrw(t) ==
    /\ current_term = t /\ KBD_ARRW # NoChar
    /\ KBD_ARRW' = NoChar
    /\ UNCHANGED <<held, wire, special_key_next, special_code, special_keys_down, caps_lock,
                   KBD_CHAR, current_term, presses, eaten, got>>

KeyboardInit ==
    /\ held = {} /\ wire = <<>>
    /\ special_key_next = FALSE /\ special_code = "00"
    /\ special_keys_down = {} /\ caps_lock = FALSE
    /\ KBD_CHAR = NoChar /\ KBD_ARRW = NoChar
    /\ current_term = 1
    /\ presses = 0 /\ eaten = FALSE
    /\ got = [n |-> 0, from |-> 1, at |-> 1]

KeyboardNext ==
    \/ \E k \in Key : Press(k) \/ Lift(k)
    \/ ps2_keyboard_interrupt_handler
    \/ \E t \in Term : sys_async_getc(t) \/ sys_async_getarrw(t)

KeyboardSpec == KeyboardInit /\ [][KeyboardNext]_keyboardVars

----------------------------------------------------------------------------
(* Properties *)

\* A character reaches a program on the terminal that was shown when its key
\* went down, and reaches no program twice: a switch of terminals while it
\* waits drops it, whatever is polled in between.
TypedHereReadHere ==
    [][got' # got => got'.n > got.n /\ got'.from = got'.at]_keyboardVars

\* Between key events the driver's modifiers are the modifier keys that are
\* down, left and right told apart by the prefix, unless another key was used
\* while caps lock was down (`eaten`): its byte is dropped and a modifier may
\* stay set after it has been released.
ModifiersFollowKeys ==
    wire = <<>> /\ ~eaten => special_keys_down = held \cap Modifier

=============================================================================
