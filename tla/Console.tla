------------------------------ MODULE Console ------------------------------
(***************************************************************************)
(* The text console and its virtual terminals:                             *)
(* mckrnl/renderer/text_console.c, with the system calls write, vpoke and  *)
(* vcursor that reach it.                                                  *)
(*                                                                         *)
(* The terminal on the display lives in the video memory, every other one  *)
(* in a buffer of its own; switching copies one out and the other in.      *)
(*                                                                         *)
(* Nothing tests where a program places the cursor or pokes, and a store   *)
(* goes where its offset points.  A buffer is the beginning of a page;     *)
(* behind the screen the page is unused, and behind the page lies what the *)
(* allocator has put there, such as the buffer of another terminal.  Of    *)
(* the video memory only the page of the screen is mapped.  A store        *)
(* outside the terminals' pages - a page fault in the video memory, other  *)
(* memory of the kernel otherwise - ends the model (astray): nothing is    *)
(* said about what follows.                                                *)
(*                                                                         *)
(* Abstraction.  A cell holds a character; its attribute byte and the      *)
(* hardware cursor are left out.  Offsets count cells.                     *)
(***************************************************************************)
EXTENDS Integers, FiniteSets, VTerms

CONSTANTS
    Width,     \* SCREEN_WIDTH
    Height,    \* SCREEN_HEIGHT
    Tab,       \* the distance of tab stops (4)
    PageCells, \* cells in a page
    Page,      \* for each terminal, the number of the page its buffer is in
    Letter,    \* printable characters
    Cursors,   \* where programs place the cursor
    Pokes,     \* offset and range of the programs' pokes
    MaxWrites  \* bound: how much is ever written

ASSUME ConsoleAssumption ==
    /\ Width \in Nat \ {0}
    /\ Height \in Nat \ {0, 1}  \* the hidden terminals start on the second line
    /\ Tab \in 1 .. Width /\ Width % Tab = 0
    /\ PageCells \in Nat /\ Width * Height <= PageCells
    /\ Page \in [Term -> Nat] /\ \A t, u \in Term : Page[t] = Page[u] => t = u
    /\ Cursors \subseteq Int \X Int /\ Pokes \subseteq Int \X Nat

Cell == 0 .. Width * Height - 1
Char == Letter \cup {"LF", "CR", "TAB", "BS"}

VARIABLES
    text_console_video,   \* the display
    text_console_vterms,  \* for each terminal, cursor x and y, and its buffer
    strayed,  \* history: terminals whose cursor was moved off the screen, or which
              \* a program has poked behind it
    spilled,  \* history: terminals to which output was stored outside the screen
    astray,   \* a store missed the terminals' pages
    writes    \* the count for MaxWrites

vars == <<text_console_video, text_console_vterms, current_term, strayed, spilled, astray,
          writes>>

x(t) == text_console_vterms[t].x
y(t) == text_console_vterms[t].y

\* The memory that terminal t is in.
Buffer(t) == IF current_term = t THEN text_console_video ELSE text_console_vterms[t].buffer

Stored(cells, S, c) == [k \in Cell |-> IF k \in S THEN c ELSE cells[k]]

Scrolled(cells) == [k \in Cell |-> IF k + Width \in Cell THEN cells[k + Width] ELSE "NUL"]

\* The cells of u's buffer that lie at the offsets S from the beginning of t's.
Reached(t, S, u) == {k \in Cell : (Page[u] - Page[t]) * PageCells + k \in S}

\* Some of the offsets S are in no terminal's page.
Misses(t, S) ==
    \E i \in S :
        IF current_term = t THEN i \notin 0 .. PageCells - 1
        ELSE \A u \in Term : i - (Page[u] - Page[t]) * PageCells \notin 0 .. PageCells - 1

\* Output to terminal t: its lines move up if `up`, character c is stored at the
\* offsets S, and the cursor is left at cx, cy.
Output(t, up, S, c, cx, cy) ==
    /\ writes < MaxWrites /\ writes' = writes + 1
    /\ LET old(u) == IF up /\ u = t THEN Scrolled(Buffer(u)) ELSE Buffer(u)
       IN  IF current_term = t
           THEN /\ text_console_video' = Stored(old(t), S, c)
                /\ text_console_vterms' = [text_console_vterms EXCEPT ![t].x = cx, ![t].y = cy]
           ELSE /\ text_console_vterms' = [u \in Term |->
                       [x |-> IF u = t THEN cx ELSE x(u), y |-> IF u = t THEN cy ELSE y(u),
                        buffer |-> IF u = current_term
                                   THEN Stored(text_console_vterms[u].buffer, Reached(t, S, u), c)
                                   ELSE Stored(old(u), Reached(t, S, u), c)]]
                /\ UNCHANGED text_console_video
    /\ spilled' = IF S \subseteq Cell THEN spilled ELSE spilled \cup {t}
    /\ astray' = Misses(t, S)
    /\ UNCHANGED current_term

\* The cursor of terminal t, or what it is poked with, is outside the screen if out.
Strays(t, out) == strayed' = IF out THEN strayed \cup {t} ELSE strayed

----------------------------------------------------------------------------
(* text_console_putc, by the kind of character *)

\* Before anything else the cursor leaves a line that is full.
Wraps(t, c) == c = "LF" \/ x(t) > Width - 1
Col(t, c) == IF Wraps(t, c) THEN 0 ELSE x(t)
Row(t, c) == IF Wraps(t, c) THEN y(t) + 1 ELSE y(t)

\* The remainder by Tab has the sign of the dividend.
TabStop(col) == col + Tab - (IF col >= 0 THEN col % Tab ELSE -((-col) % Tab))

\* Carriage return, tab and backspace return before the screen is scrolled.
PutControl(t, c) ==
    /\ LET back == IF Col(t, c) > 0 THEN Col(t, c) - 1 ELSE Col(t, c)
       IN  \/ c = "CR" /\ Output(t, FALSE, {}, c, 0, Row(t, c))
           \/ c = "TAB" /\ Output(t, FALSE, {}, c, TabStop(Col(t, c)), Row(t, c))
           \/ c = "BS" /\ Output(t, FALSE, {Row(t, c) * Width + back}, " ", back, Row(t, c))
    /\ Strays(t, Row(t, c) > Height - 1)

Wrong_Scrolls(t, c) == Row(t, c) > Height

Scrolls(t, c) == Row(t, c) > Height - 1

PutLetter(t, c) ==
    /\ LET row == IF Scrolls(t, c) THEN Row(t, c) - 1 ELSE Row(t, c)
       IN  \/ c = "LF" /\ Output(t, Scrolls(t, c), {}, c, 0, row)
           \/ c \in Letter /\ Output(t, Scrolls(t, c), {row * Width + Col(t, c)}, c,
                                     Col(t, c) + 1, row)
    /\ UNCHANGED strayed

text_console_putc(t, c) == PutControl(t, c) \/ PutLetter(t, c)

----------------------------------------------------------------------------
(* The other operations of the driver *)

text_console_driver_vpoke(t, offset, range, c) ==
    LET S == offset .. offset + range - 1
    IN  /\ Output(t, FALSE, S, c, x(t), y(t))
        /\ Strays(t, ~(S \subseteq Cell))

text_console_vcursor(t, cx, cy) ==
    /\ Output(t, FALSE, {}, " ", cx, cy)
    /\ Strays(t, cx \notin 0 .. Width \/ cy \notin 0 .. Height - 1)

Wrong_text_console_vterm(t) ==
    /\ text_console_video' = text_console_vterms[t].buffer
    /\ text_console_vterms' =
           [text_console_vterms EXCEPT ![current_term].buffer = text_console_video']
    /\ current_term' = t
    /\ UNCHANGED <<strayed, spilled, astray, writes>>

\* F1 .. F4.  The display is saved first, so that choosing the terminal that is
\* shown already keeps it.
text_console_vterm(t) ==
    /\ text_console_vterms' =
           [text_console_vterms EXCEPT ![current_term].buffer = text_console_video]
    /\ text_console_video' = text_console_vterms'[t].buffer
    /\ current_term' = t
    /\ UNCHANGED <<strayed, spilled, astray, writes>>

\* text_console_driver_init: the other terminals are cleared and have one line.
Init ==
    /\ text_console_video = [k \in Cell |-> " "]
    /\ text_console_vterms = [t \in Term |-> [x |-> 0, y |-> IF t = 1 THEN 0 ELSE 1,
                                             buffer |-> [k \in Cell |-> " "]]]
    /\ current_term = 1
    /\ strayed = {} /\ spilled = {} /\ astray = FALSE
    /\ writes = 0

Next ==
    /\ ~astray
    /\ \/ \E t \in Term, c \in Char : text_console_putc(t, c)
       \/ \E t \in Term, p \in Pokes, c \in Letter :
              text_console_driver_vpoke(t, p[1], p[2], c)
       \/ \E t \in Term, p \in Cursors : text_console_vcursor(t, p[1], p[2])
       \/ \E t \in Term : text_console_vterm(t)

Spec == Init /\ [][Next]_vars

----------------------------------------------------------------------------
(* Properties *)

\* Terminals are independent: whatever the order of output and switches, the
\* screen of a terminal, wherever it is kept, changes only by output to it, or by
\* output to another terminal that was stored outside that one's screen - and not
\* even so if one of the two is on the display.  This is the specification
\* Screens, implemented.
Terminals == INSTANCE Screens WITH
    screen <- [t \in Term |-> [cells |-> Buffer(t), x |-> x(t), y |-> y(t)]],
    shown <- current_term

TerminalsAreIndependent == Terminals!Spec

\* text_console_putc itself keeps the cursor and what it stores on the screen,
\* through every wrap and scroll: output to a terminal leaves its screen only after
\* a program has placed its cursor outside or poked outside, or after a tab, a
\* backspace or a carriage return on a full last line, which the scroll test
\* behind their early returns misses (`strayed`).
CursorOnScreen ==
    /\ \A t \in Term \ strayed : x(t) \in 0 .. Width /\ y(t) \in 0 .. Height - 1
    /\ spilled \subseteq strayed
    /\ astray => spilled # {}

=============================================================================
