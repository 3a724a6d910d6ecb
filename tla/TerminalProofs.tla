---------------------------- MODULE TerminalProofs ----------------------------
(***************************************************************************)
(* Proofs about the virtual terminals: what is written to them and what is *)
(* typed at them.                                                          *)
(*                                                                         *)
(* The text console, for screens of every size, every distance of tab      *)
(* stops that divides the width, any number of terminals, any placement of *)
(* their buffers in memory and any amount of output, whatever programs     *)
(* poke and wherever they place the cursor.                                *)
(*                                                                         *)
(* The keyboard driver, for every set of keys, every number of terminals   *)
(* and any number of key presses.                                          *)
(*                                                                         *)
(* A key is known to the driver by one byte or by two, and between the two *)
(* the driver depends on a byte it has remembered.  The invariants say     *)
(* what is on the wire, and of which key, at each of these moments.        *)
(***************************************************************************)
EXTENDS Console, Keyboard, TLAPS

Symbol == Char \cup {" ", "NUL"}
Cells == [Cell -> Symbol]

TypeOK ==
    /\ text_console_video \in Cells
    /\ text_console_vterms \in [Term -> [x : Int, y : Int, buffer : Cells]]
    /\ current_term \in Term
    /\ strayed \subseteq Term /\ spilled \subseteq Term /\ astray \in BOOLEAN

----------------------------------------------------------------------------
(* Lemmas about positions on the screen and in memory *)

\* A column of a line of the screen is a cell of it.
LEMMA OnScreen ==
    ASSUME NEW row \in Nat, NEW col \in Nat, row <= Height - 1, col <= Width - 1
    PROVE  row * Width + col \in Cell
  <1>1. Width \in Nat /\ Height \in Nat
    BY ConsoleAssumption
  <1>2. row * Width \in Nat /\ Width * Height \in Nat
    BY <1>1
  <1>3. row * Width + Width <= Width * Height
    <2>1. PICK d \in Nat : Height = row + 1 + d
      <3>1. Height - row - 1 \in Nat /\ Height = row + 1 + (Height - row - 1)
        BY <1>1
      <3>. QED
        BY <3>1
    <2>2. Width * Height = row * Width + Width + Width * d
      BY <1>1, <2>1
    <2>3. Width * d \in Nat
      BY <1>1
    <2>. QED
      BY <1>1, <1>2, <2>2, <2>3
  <1>. QED
    BY <1>1, <1>2, <1>3 DEF Cell

\* The next tab stop of a column is not beyond the width, which is a tab stop.
LEMMA TabStopOnScreen ==
    ASSUME NEW col \in Nat, col <= Width - 1
    PROVE  TabStop(col) \in 0 .. Width
  <1>1. Width \in Nat /\ Tab \in Nat /\ Tab >= 1 /\ Width % Tab = 0
    BY ConsoleAssumption
  <1>2. PICK q \in Nat : Width = q * Tab
    <2>1. Width = Tab * (Width \div Tab) + (Width % Tab) /\ Width \div Tab \in Nat
      BY <1>1
    <2>. QED
      BY <1>1, <2>1
  <1>3. PICK p \in Nat : col = p * Tab + (col % Tab)
    <2>1. col \div Tab \in Nat /\ col % Tab \in Nat
      BY <1>1
    <2>2. col = (col \div Tab) * Tab + (col % Tab)
      BY <1>1, <2>1
    <2>. QED
      BY <2>1, <2>2
  <1>4. col % Tab \in 0 .. Tab - 1
    BY <1>1
  <1>5. p < q
    <2>. SUFFICES ASSUME q <= p
                  PROVE  FALSE
      OBVIOUS
    <2>1. PICK d \in Nat : p = q + d
      <3>1. p - q \in Nat /\ p = q + (p - q)
        OBVIOUS
      <3>. QED
        BY <3>1
    <2>2. p * Tab = Width + d * Tab /\ d * Tab \in Nat
      BY <1>1, <1>2, <2>1
    <2>. QED
      BY <1>1, <1>3, <1>4, <2>2
  <1>6. PICK e \in Nat : q = p + 1 + e
    <2>1. q - p - 1 \in Nat /\ q = p + 1 + (q - p - 1)
      BY <1>5
    <2>. QED
      BY <2>1
  <1>7. Width = p * Tab + Tab + e * Tab /\ e * Tab \in Nat /\ p * Tab \in Nat
    BY <1>1, <1>2, <1>6
  <1>8. TabStop(col) = col + Tab - (col % Tab)
    BY DEF TabStop
  <1>. QED
    BY <1>1, <1>3, <1>4, <1>7, <1>8

\* A screen fits into its page, so what is stored on the screen of one terminal
\* reaches no other terminal and misses no page.
LEMMA ScreenInPage ==
    ASSUME NEW t \in Term, NEW S \in SUBSET Cell
    PROVE  (\A u \in Term \ {t} : Reached(t, S, u) = {}) /\ ~Misses(t, S)
  <1>1. /\ Width * Height \in Nat /\ PageCells \in Nat /\ Width * Height <= PageCells
        /\ Page \in [Term -> Nat] /\ \A u \in Term : Page[u] = Page[t] => u = t
    BY ConsoleAssumption
  <1>2. ASSUME NEW u \in Term \ {t}, NEW k \in Cell
        PROVE  (Page[u] - Page[t]) * PageCells + k \notin Cell
    <2>1. Page[u] \in Nat /\ Page[t] \in Nat /\ Page[u] # Page[t]
      BY <1>1
    <2>2. k \in Nat /\ k < PageCells
      BY <1>1 DEF Cell
    <2>3. CASE Page[u] > Page[t]
      <3>1. PICK d \in Nat : Page[u] - Page[t] = d + 1
        <4>1. Page[u] - Page[t] - 1 \in Nat /\ Page[u] - Page[t] = (Page[u] - Page[t] - 1) + 1
          BY <2>1, <2>3
        <4>. QED
          BY <4>1
      <3>2. (d + 1) * PageCells = d * PageCells + PageCells /\ d * PageCells \in Nat
        BY <1>1
      <3>. QED
        BY <1>1, <2>2, <3>1, <3>2 DEF Cell
    <2>4. CASE Page[u] < Page[t]
      <3>1. PICK d \in Nat : Page[u] - Page[t] = -(d + 1)
        <4>1. Page[t] - Page[u] - 1 \in Nat /\ Page[u] - Page[t] = -((Page[t] - Page[u] - 1) + 1)
          BY <2>1, <2>4
        <4>. QED
          BY <4>1
      <3>2. (-(d + 1)) * PageCells = -(d * PageCells + PageCells) /\ d * PageCells \in Nat
        BY <1>1
      <3>. QED
        BY <1>1, <2>2, <3>1, <3>2 DEF Cell
    <2>. QED
      BY <2>1, <2>3, <2>4
  <1>3. \A u \in Term \ {t} : Reached(t, S, u) = {}
    BY <1>2 DEF Reached
  <1>4. ASSUME NEW i \in S
        PROVE  i \in 0 .. PageCells - 1 /\ i - (Page[t] - Page[t]) * PageCells = i
    <2>1. i \in Int /\ i >= 0 /\ i <= PageCells - 1
      BY <1>1 DEF Cell
    <2>2. Page[t] - Page[t] = 0 /\ 0 * PageCells = 0
      BY <1>1
    <2>. QED
      BY <1>1, <2>1, <2>2
  <1>. QED
    BY <1>3, <1>4 DEF Misses

\* Storing a character, and scrolling, make a screen of a screen.
LEMMA StoredType ==
    ASSUME NEW cells \in Cells, NEW S, NEW c \in Symbol
    PROVE  /\ Stored(cells, S, c) \in Cells /\ Scrolled(cells) \in Cells
           /\ S = {} => Stored(cells, S, c) = cells
  BY DEF Stored, Scrolled, Cells, Symbol

----------------------------------------------------------------------------
(* What the operations do to the terminals *)

\* Output to t: the cursors of other terminals stay, and their content too unless
\* the output goes outside t's screen and neither terminal is on the display.
LEMMA OutputStep ==
    ASSUME TypeOK, NEW t \in Term, NEW up, NEW S, NEW c \in Symbol, NEW cx \in Int, NEW cy \in Int,
           Output(t, up, S, c, cx, cy)
    PROVE  /\ text_console_video' \in Cells /\ current_term' = current_term
           /\ text_console_vterms' \in [Term -> [x : Int, y : Int, buffer : Cells]]
           /\ x(t)' = cx /\ y(t)' = cy
           /\ \A u \in Term \ {t} : x(u)' = x(u) /\ y(u)' = y(u)
           /\ \A u \in Term \ {t} :
                  S \subseteq Cell \/ current_term \in {t, u} => Buffer(u)' = Buffer(u)
           /\ IF S \subseteq Cell THEN spilled' = spilled ELSE spilled' = spilled \cup {t}
           /\ astray' \in BOOLEAN /\ (astray' => ~(S \subseteq Cell))
  <1>. DEFINE old(u) == IF up /\ u = t THEN Scrolled(Buffer(u)) ELSE Buffer(u)
              R(u) == Reached(t, S, u)
  <1>1. \A u \in Term : Buffer(u) \in Cells /\ text_console_vterms[u].buffer \in Cells
                        /\ x(u) \in Int /\ y(u) \in Int
    BY DEF TypeOK, Buffer, x, y
  <1>2. \A u \in Term : old(u) \in Cells
    BY <1>1, StoredType
  <1>3. \A u \in Term : /\ Stored(old(u), R(u), c) \in Cells
                        /\ Stored(text_console_vterms[u].buffer, R(u), c) \in Cells
    BY <1>1, <1>2, StoredType
  <1>4. S \subseteq Cell => (\A u \in Term \ {t} : R(u) = {}) /\ ~Misses(t, S)
    BY ScreenInPage
  <1>5. /\ current_term' = current_term
        /\ IF S \subseteq Cell THEN spilled' = spilled ELSE spilled' = spilled \cup {t}
        /\ astray' \in BOOLEAN /\ (astray' => ~(S \subseteq Cell))
    BY <1>4 DEF Output, Misses
  <1>6. CASE current_term = t
    <2>1. /\ text_console_video' = Stored(old(t), S, c)
          /\ text_console_vterms' = [text_console_vterms EXCEPT ![t].x = cx, ![t].y = cy]
      BY <1>6 DEF Output
    <2>2. text_console_video' \in Cells
      BY <1>2, <2>1, StoredType
    <2>. HIDE DEF old, R
    <2>3. /\ text_console_vterms' \in [Term -> [x : Int, y : Int, buffer : Cells]]
          /\ x(t)' = cx /\ y(t)' = cy
          /\ \A u \in Term \ {t} : x(u)' = x(u) /\ y(u)' = y(u)
          /\ \A u \in Term : text_console_vterms'[u].buffer = text_console_vterms[u].buffer
      BY <2>1 DEF TypeOK, x, y
    <2>4. \A u \in Term \ {t} : Buffer(u)' = Buffer(u)
      BY <1>5, <1>6, <2>3 DEF Buffer
    <2>. QED
      BY <1>5, <2>2, <2>3, <2>4
  <1>7. CASE current_term # t
    <2>. DEFINE cell(u) == IF u = current_term
                           THEN Stored(text_console_vterms[u].buffer, R(u), c)
                           ELSE Stored(old(u), R(u), c)
    <2>1. /\ text_console_vterms' = [u \in Term |->
                 [x |-> IF u = t THEN cx ELSE x(u), y |-> IF u = t THEN cy ELSE y(u),
                  buffer |-> cell(u)]]
          /\ text_console_video' = text_console_video
      BY <1>7 DEF Output
    <2>2. \A u \in Term : cell(u) \in Cells
      BY <1>3
    <2>3. \A u \in Term \ {t} : u # current_term /\ S \subseteq Cell => cell(u) = Buffer(u)
      BY <1>1, <1>4, StoredType
    <2>. HIDE DEF old, R, cell
    <2>4. /\ text_console_vterms' \in [Term -> [x : Int, y : Int, buffer : Cells]]
          /\ x(t)' = cx /\ y(t)' = cy
          /\ \A u \in Term \ {t} : x(u)' = x(u) /\ y(u)' = y(u)
          /\ \A u \in Term : text_console_vterms'[u].buffer = cell(u)
      BY <1>1, <2>1, <2>2 DEF x, y
    <2>5. \A u \in Term \ {t} :
              S \subseteq Cell \/ current_term \in {t, u} => Buffer(u)' = Buffer(u)
      BY <1>5, <1>7, <2>1, <2>3, <2>4 DEF Buffer
    <2>6. text_console_video' \in Cells
      BY <2>1 DEF TypeOK
    <2>. QED
      BY <1>5, <2>4, <2>5, <2>6
  <1>. QED
    BY <1>6, <1>7

\* Output that stays on the screen, unless it is recorded that the terminal has left it.
Writes(t) ==
    \E up \in BOOLEAN, S \in SUBSET Int, c \in Symbol, cx \in Int, cy \in Int :
        /\ Output(t, up, S, c, cx, cy)
        /\ strayed' \in {strayed, strayed \cup {t}}
        /\ t \in strayed' \/ (cx \in 0 .. Width /\ cy \in 0 .. Height - 1 /\ S \subseteq Cell)

LEMMA OutputWrites ==
    ASSUME NEW t \in Term, NEW up \in BOOLEAN, NEW S \in SUBSET Int, NEW c \in Symbol,
           NEW cx \in Int, NEW cy \in Int, Output(t, up, S, c, cx, cy),
           strayed' \in {strayed, strayed \cup {t}},
           t \notin strayed' => cx \in 0 .. Width /\ cy \in 0 .. Height - 1 /\ S \subseteq Cell
    PROVE  Writes(t)
  BY DEF Writes

\* The inductive invariant: a cursor that is off the screen is recorded to be.
ScreenInv == TypeOK /\ CursorOnScreen

\* Where a character finds the cursor after the wrap.
LEMMA AfterWrap ==
    ASSUME ScreenInv, NEW t \in Term, NEW c
    PROVE  /\ Col(t, c) \in Int /\ Row(t, c) \in Int
           /\ t \notin strayed => /\ Col(t, c) \in Nat /\ Col(t, c) <= Width - 1
                                  /\ Row(t, c) \in Nat /\ Row(t, c) <= Height
  <1>1. Width \in Nat \ {0} /\ Height \in Nat \ {0, 1}
    BY ConsoleAssumption
  <1>2. x(t) \in Int /\ y(t) \in Int
    BY DEF ScreenInv, TypeOK, x, y
  <1>3. t \notin strayed => x(t) \in 0 .. Width /\ y(t) \in 0 .. Height - 1
    BY DEF ScreenInv, CursorOnScreen
  <1>. QED
    BY <1>1, <1>2, <1>3 DEF Col, Row, Wraps

LEMMA ControlWrites ==
    ASSUME ScreenInv, NEW t \in Term, NEW c \in Char, PutControl(t, c)
    PROVE  Writes(t)
  <1>. DEFINE col == Col(t, c)
              row == Row(t, c)
              back == IF col > 0 THEN col - 1 ELSE col
              at == row * Width + back
  <1>0. Width \in Nat \ {0} /\ Height \in Nat \ {0, 1} /\ Tab \in Nat /\ Tab >= 1
    BY ConsoleAssumption
  <1>1. /\ col \in Int /\ row \in Int
        /\ t \notin strayed => col \in Nat /\ col <= Width - 1 /\ row \in Nat
    BY AfterWrap
  <1>2. strayed' = IF row > Height - 1 THEN strayed \cup {t} ELSE strayed
    BY DEF PutControl, Strays
  <1>3. strayed' \in {strayed, strayed \cup {t}}
    BY <1>2
  <1>4. t \notin strayed' => /\ col \in Nat /\ col <= Width - 1
                             /\ row \in Nat /\ row <= Height - 1
    BY <1>0, <1>1, <1>2
  <1>5. \/ Output(t, FALSE, {}, c, 0, row)
        \/ Output(t, FALSE, {}, c, TabStop(col), row)
        \/ Output(t, FALSE, {at}, " ", back, row)
    BY DEF PutControl
  <1>6. t \notin strayed' => TabStop(col) \in 0 .. Width
    BY <1>4, TabStopOnScreen
  <1>7. TabStop(col) \in Int
    BY <1>0, <1>1 DEF TabStop
  <1>8. /\ back \in Int
        /\ t \notin strayed' => back \in 0 .. Width /\ back \in Nat /\ back <= Width - 1
    BY <1>0, <1>1, <1>4
  <1>9. t \notin strayed' => at \in Cell
    BY <1>4, <1>8, OnScreen
  <1>10. t \notin strayed' => row \in 0 .. Height - 1
    BY <1>0, <1>4
  <1>11. c \in Symbol /\ " " \in Symbol /\ 0 \in 0 .. Width /\ {} \subseteq Cell
    <2>1. c \in Symbol /\ " " \in Symbol
      BY Zenon DEF Symbol
    <2>2. 0 \in 0 .. Width
      BY <1>0
    <2>. QED
      BY <2>1, <2>2, Zenon
  <1>. HIDE DEF col, row, back, at
  <1>12. CASE Output(t, FALSE, {}, c, 0, row)
    <2>1. 0 \in Int /\ {} \in SUBSET Int
      OBVIOUS
    <2>. QED
      BY <1>1, <1>3, <1>10, <1>11, <1>12, <2>1, OutputWrites
  <1>13. CASE Output(t, FALSE, {}, c, TabStop(col), row)
    BY <1>1, <1>3, <1>6, <1>7, <1>10, <1>11, <1>13, OutputWrites
  <1>14. CASE Output(t, FALSE, {at}, " ", back, row)
    <2>1. t \notin strayed' => {at} \subseteq Cell
      BY <1>9
    <2>2. {at} \in SUBSET Int
      BY <1>0, <1>1, <1>8 DEF at
    <2>. QED
      BY <1>1, <1>3, <1>8, <1>10, <1>11, <1>14, <2>1, <2>2, OutputWrites
  <1>. QED
    BY <1>5, <1>12, <1>13, <1>14

LEMMA LetterWrites ==
    ASSUME ScreenInv, NEW t \in Term, NEW c \in Char, PutLetter(t, c)
    PROVE  Writes(t)
  <1>. DEFINE up == Scrolls(t, c)
              col == Col(t, c)
              row == IF up THEN Row(t, c) - 1 ELSE Row(t, c)
              at == row * Width + col
  <1>0. Width \in Nat \ {0} /\ Height \in Nat \ {0, 1}
    BY ConsoleAssumption
  <1>1. /\ col \in Int /\ Row(t, c) \in Int
        /\ t \notin strayed => /\ col \in Nat /\ col <= Width - 1
                               /\ Row(t, c) \in Nat /\ Row(t, c) <= Height
    BY AfterWrap
  <1>2. strayed' = strayed
    BY DEF PutLetter
  <1>3. row \in Int /\ (t \notin strayed => row \in Nat /\ row <= Height - 1)
    BY <1>0, <1>1 DEF Scrolls
  <1>4. t \notin strayed => at \in Cell
    BY <1>1, <1>3, OnScreen
  <1>5. \/ Output(t, up, {}, c, 0, row)
        \/ Output(t, up, {at}, c, col + 1, row)
    BY DEF PutLetter
  <1>6. t \notin strayed => row \in 0 .. Height - 1 /\ col + 1 \in 0 .. Width
    BY <1>0, <1>1, <1>3
  <1>7. c \in Symbol /\ 0 \in 0 .. Width /\ {} \subseteq Cell /\ col + 1 \in Int
    <2>1. c \in Symbol
      BY Zenon DEF Symbol
    <2>. QED
      BY <1>0, <1>1, <2>1
  <1>10. {at} \in SUBSET Int /\ up \in BOOLEAN
    BY <1>0, <1>1, <1>3 DEF Scrolls
  <1>. HIDE DEF up, col, row, at
  <1>8. CASE Output(t, up, {}, c, 0, row)
    <2>1. 0 \in Int /\ {} \in SUBSET Int
      OBVIOUS
    <2>. QED
      BY <1>2, <1>3, <1>6, <1>7, <1>8, <1>10, <2>1, OutputWrites
  <1>9. CASE Output(t, up, {at}, c, col + 1, row)
    <2>1. t \notin strayed => {at} \subseteq Cell
      BY <1>4
    <2>. QED
      BY <1>2, <1>3, <1>6, <1>7, <1>9, <1>10, <2>1, OutputWrites
  <1>. QED
    BY <1>5, <1>8, <1>9

LEMMA PokeWrites ==
    ASSUME ScreenInv, NEW t \in Term, NEW p \in Pokes, NEW c \in Letter,
           text_console_driver_vpoke(t, p[1], p[2], c)
    PROVE  Writes(t)
  <1>. DEFINE S == p[1] .. p[1] + p[2] - 1
  <1>1. Output(t, FALSE, S, c, x(t), y(t)) /\ Strays(t, ~(S \subseteq Cell))
    BY DEF text_console_driver_vpoke
  <1>2. x(t) \in Int /\ y(t) \in Int
    BY DEF ScreenInv, TypeOK, x, y
  <1>3. t \notin strayed => x(t) \in 0 .. Width /\ y(t) \in 0 .. Height - 1
    BY DEF ScreenInv, CursorOnScreen
  <1>4. c \in Symbol
    BY DEF Symbol, Char
  <1>6. S \in SUBSET Int
    BY ConsoleAssumption
  <1>. HIDE DEF S
  <1>5. strayed' = IF S \subseteq Cell THEN strayed ELSE strayed \cup {t}
    BY <1>1 DEF Strays
  <1>. QED
    BY <1>1, <1>2, <1>3, <1>4, <1>5, <1>6, OutputWrites

LEMMA CursorWrites ==
    ASSUME ScreenInv, NEW t \in Term, NEW p \in Cursors, text_console_vcursor(t, p[1], p[2])
    PROVE  Writes(t)
  <1>1. p[1] \in Int /\ p[2] \in Int
    BY ConsoleAssumption
  <1>2. " " \in Symbol /\ {} \subseteq Cell
    BY DEF Symbol
  <1>3. /\ Output(t, FALSE, {}, " ", p[1], p[2])
        /\ strayed' = IF p[1] \notin 0 .. Width \/ p[2] \notin 0 .. Height - 1
                      THEN strayed \cup {t} ELSE strayed
    BY DEF Strays, text_console_vcursor
  <1>. QED
    BY <1>1, <1>2, <1>3, OutputWrites

\* Switching moves two buffers and changes no screen, also when the terminal
\* that is chosen is the one on the display.
Shows(t) ==
    /\ current_term' = t
    /\ \A u \in Term : x(u)' = x(u) /\ y(u)' = y(u) /\ Buffer(u)' = Buffer(u)
    /\ UNCHANGED <<strayed, spilled, astray>>

LEMMA SwitchShows ==
    ASSUME TypeOK, NEW t \in Term, text_console_vterm(t)
    PROVE  Shows(t) /\ TypeOK'
  <1>1. text_console_vterms' = [text_console_vterms EXCEPT ![current_term].buffer = text_console_video]
    BY DEF text_console_vterm
  <1>2. text_console_vterms' \in [Term -> [x : Int, y : Int, buffer : Cells]]
    BY <1>1 DEF TypeOK
  <1>3. \A u \in Term : x(u)' = x(u) /\ y(u)' = y(u)
    BY <1>1 DEF TypeOK, x, y
  <1>4. \A u \in Term : text_console_vterms'[u].buffer = Buffer(u)
    BY <1>1 DEF TypeOK, Buffer
  <1>5. text_console_video' = text_console_vterms'[t].buffer /\ current_term' = t
    BY DEF text_console_vterm
  <1>6. \A u \in Term : Buffer(u)' = Buffer(u)
    BY <1>4, <1>5 DEF Buffer
  <1>. QED
    BY <1>2, <1>3, <1>5, <1>6 DEF TypeOK, Shows, text_console_vterm

----------------------------------------------------------------------------
(* The cursor *)

LEMMA ScreenInit == Init => ScreenInv
  <1>. SUFFICES ASSUME Init
                PROVE  ScreenInv
    OBVIOUS
  <1>1. Width \in Nat \ {0} /\ Height \in Nat \ {0, 1} /\ 1 \in Term
    BY ConsoleAssumption, VTermsAssumption DEF Term
  <1>2. [k \in Cell |-> " "] \in Cells
    BY DEF Cells, Symbol
  <1>3. \A t \in Term : [x |-> 0, y |-> IF t = 1 THEN 0 ELSE 1, buffer |-> [k \in Cell |-> " "]]
                            \in [x : Int, y : Int, buffer : Cells]
    <2>. DEFINE blank == [k \in Cell |-> " "]
    <2>1. blank \in Cells
      BY <1>2
    <2>. HIDE DEF blank
    <2>2. \A t \in Term : [x |-> 0, y |-> IF t = 1 THEN 0 ELSE 1, buffer |-> blank]
                              \in [x : Int, y : Int, buffer : Cells]
      BY <2>1
    <2>. QED
      BY <2>2 DEF blank
  <1>4. TypeOK
    BY <1>1, <1>2, <1>3 DEF Init, TypeOK
  <1>5. \A t \in Term : x(t) = 0 /\ y(t) = IF t = 1 THEN 0 ELSE 1
    BY DEF Init, x, y
  <1>6. \A t \in Term : x(t) \in 0 .. Width /\ y(t) \in 0 .. Height - 1
    BY <1>1, <1>5
  <1>. QED
    BY <1>4, <1>6 DEF ScreenInv, CursorOnScreen, Init

\* Every step is output to one terminal or shows another one.
LEMMA StepKinds ==
    ASSUME ScreenInv, Next
    PROVE  \E t \in Term : Writes(t) \/ text_console_vterm(t)
  <1>1. CASE \E t \in Term, c \in Char : text_console_putc(t, c)
    BY <1>1, ControlWrites, LetterWrites DEF text_console_putc
  <1>2. CASE \E t \in Term, p \in Pokes, c \in Letter :
                text_console_driver_vpoke(t, p[1], p[2], c)
    BY <1>2, PokeWrites
  <1>3. CASE \E t \in Term, p \in Cursors : text_console_vcursor(t, p[1], p[2])
    BY <1>3, CursorWrites
  <1>. QED
    BY <1>1, <1>2, <1>3, Zenon DEF Next

LEMMA ScreenNext == ScreenInv /\ [Next]_vars => ScreenInv'
  <1>. SUFFICES ASSUME ScreenInv, [Next]_vars
                PROVE  ScreenInv'
    OBVIOUS
  <1>1. ASSUME NEW t \in Term, Writes(t), ~astray
        PROVE  ScreenInv'
    <2>1. PICK up \in BOOLEAN, S \in SUBSET Int, c \in Symbol, cx \in Int, cy \in Int :
              /\ Output(t, up, S, c, cx, cy)
              /\ strayed' \in {strayed, strayed \cup {t}}
              /\ t \in strayed' \/ (cx \in 0 .. Width /\ cy \in 0 .. Height - 1 /\ S \subseteq Cell)
      BY <1>1, Zenon DEF Writes
    <2>2. TypeOK
      BY DEF ScreenInv
    <2>3. /\ text_console_video' \in Cells /\ current_term' = current_term
          /\ text_console_vterms' \in [Term -> [x : Int, y : Int, buffer : Cells]]
          /\ x(t)' = cx /\ y(t)' = cy
          /\ \A u \in Term \ {t} : x(u)' = x(u) /\ y(u)' = y(u)
          /\ IF S \subseteq Cell THEN spilled' = spilled ELSE spilled' = spilled \cup {t}
          /\ astray' \in BOOLEAN /\ (astray' => ~(S \subseteq Cell))
      BY <2>1, <2>2, OutputStep
    <2>4. TypeOK'
      BY <2>1, <2>2, <2>3 DEF TypeOK
    <2>5. \A u \in Term \ strayed' : x(u)' \in 0 .. Width /\ y(u)' \in 0 .. Height - 1
      BY <2>1, <2>3 DEF ScreenInv, CursorOnScreen
    <2>6. spilled' \subseteq strayed'
      BY <2>1, <2>3 DEF ScreenInv, CursorOnScreen
    <2>7. astray' => spilled' # {}
      BY <2>3
    <2>. QED
      BY <2>4, <2>5, <2>6, <2>7 DEF ScreenInv, CursorOnScreen
  <1>2. ASSUME NEW t \in Term, text_console_vterm(t)
        PROVE  ScreenInv'
    BY <1>2, SwitchShows DEF Shows, ScreenInv, CursorOnScreen
  <1>3. CASE UNCHANGED vars
    BY <1>3 DEF vars, ScreenInv, TypeOK, CursorOnScreen, x, y
  <1>. QED
    BY <1>1, <1>2, <1>3, StepKinds DEF Next

\* text_console_putc keeps the cursor of a terminal, and what it stores, on the
\* screen, until a program moves the cursor or pokes outside, or sends a tab, a
\* backspace or a carriage return at the end of the last line.
THEOREM ConsoleCursorOnScreen == Spec => []CursorOnScreen
  <1>1. ScreenInv => CursorOnScreen
    BY DEF ScreenInv
  <1>. QED
    BY <1>1, ScreenInit, ScreenNext, PTL DEF Spec

----------------------------------------------------------------------------
(* The refinement of Screens *)

Screen(t) == [cells |-> Buffer(t), x |-> x(t), y |-> y(t)]

\* Output to one terminal changes the screen of this terminal alone, unless it goes
\* outside this screen.
LEMMA WritesIsOutput ==
    ASSUME TypeOK, NEW t \in Term, Writes(t)
    PROVE  Terminals!Output(t) \/ Terminals!Spill(t)
  <1>. DEFINE screens == [u \in Term |-> Screen(u)]
  <1>1. PICK up \in BOOLEAN, S \in SUBSET Int, c \in Symbol, cx \in Int, cy \in Int : Output(t, up, S, c, cx, cy)
    BY Zenon DEF Writes
  <1>2. /\ current_term' = current_term
        /\ \A u \in Term \ {t} : x(u)' = x(u) /\ y(u)' = y(u)
        /\ \A u \in Term \ {t} :
               S \subseteq Cell \/ current_term \in {t, u} => Buffer(u)' = Buffer(u)
        /\ IF S \subseteq Cell THEN spilled' = spilled ELSE spilled' = spilled \cup {t}
    BY <1>1, OutputStep
  <1>3. \A u \in Term \ {t} : S \subseteq Cell \/ current_term \in {t, u}
                                  => Screen(u)' = Screen(u)
    BY <1>2 DEF Screen
  <1>. HIDE DEF Screen
  <1>4. CASE S \subseteq Cell
    <2>1. screens' = [screens EXCEPT ![t] = screens'[t]]
      BY <1>3, <1>4
    <2>. QED
      BY <1>2, <1>4, <2>1 DEF Terminals!Output, Screen
  <1>5. CASE ~(S \subseteq Cell)
    <2>1. /\ DOMAIN screens' = Term
          /\ \A u \in Term \ {t} : current_term \in {t, u} => screens'[u] = screens[u]
      BY <1>3
    <2>2. spilled' = spilled \cup {t}
      BY <1>2, <1>5
    <2>. QED
      BY <1>2, <2>1, <2>2 DEF Terminals!Spill, Screen
  <1>. QED
    BY <1>4, <1>5

\* Choosing a terminal changes no screen.
LEMMA ShowsIsShow ==
    ASSUME NEW t \in Term, Shows(t)
    PROVE  Terminals!Show(t)
  <1>1. \A u \in Term : Screen(u)' = Screen(u)
    BY DEF Shows, Screen
  <1>2. [u \in Term |-> Screen(u)]' = [u \in Term |-> Screen(u)]
    BY <1>1
  <1>. QED
    BY <1>2 DEF Shows, Terminals!Show, Screen

LEMMA TerminalsInit == Init => Terminals!Init
  <1>1. 1 \in Term
    BY VTermsAssumption DEF Term
  <1>. QED
    BY <1>1 DEF Init, Terminals!Init, Screen, Buffer, x, y

LEMMA TerminalsNext ==
    ScreenInv /\ [Next]_vars
        => [Terminals!Next]_<<[t \in Term |-> Screen(t)], current_term, spilled>>
  <1>. SUFFICES ASSUME ScreenInv, [Next]_vars
                PROVE  [Terminals!Next]_<<[t \in Term |-> Screen(t)], current_term, spilled>>
    OBVIOUS
  <1>0. TypeOK
    BY DEF ScreenInv
  <1>1. CASE Next
    <2>1. PICK t \in Term : Terminals!Output(t) \/ Terminals!Spill(t) \/ Terminals!Show(t)
      BY <1>0, <1>1, StepKinds, SwitchShows, WritesIsOutput, ShowsIsShow
    <2>. QED
      BY <2>1 DEF Terminals!Next
  <1>2. CASE UNCHANGED vars
    BY <1>2 DEF vars, Screen, Buffer, x, y
  <1>. QED
    BY <1>1, <1>2

\* The display and the buffers together implement one screen per terminal:
\* writing to a terminal, on the display or not, and switching between them
\* never changes what another terminal shows, unless what is written goes outside
\* the screen of a hidden terminal into that of another hidden one.
THEOREM ConsoleTerminalsAreIndependent == Spec => TerminalsAreIndependent
  <1>. USE DEF Screen
  <1>. QED
    BY ScreenInit, ScreenNext, TerminalsInit, TerminalsNext, PTL
       DEF Spec, TerminalsAreIndependent, Terminals!Spec

----------------------------------------------------------------------------
(* The keyboard *)

\* The second byte of an extended key, when the driver has taken the prefix.
Rest(k, up) == <<[code |-> Extended[k], up |-> up]>>

\* The bytes on the wire are those of one event, or what is left of them.
Whole(k, up) == wire = Bytes(k, up)
Half(k, up) == k \in DOMAIN Extended /\ wire = Rest(k, up)

WireOK == wire = <<>> \/ \E k \in Key, up \in BOOLEAN : Whole(k, up) \/ Half(k, up)

----------------------------------------------------------------------------
(* Lemmas about the codes *)

\* Behind the prefix a modifier's code names this modifier, and every other
\* code names none.
LEMMA ExtendedCode ==
    ASSUME NEW k \in DOMAIN Extended
    PROVE  /\ Extended[k] \in DOMAIN Right => Right[Extended[k]] = k
           /\ Extended[k] \notin DOMAIN Right => k \notin Modifier
           /\ Extended[k] # "1E"
  <1>1. DOMAIN Extended = {"ralt", "rctrl", "up", "delete"}
    BY DEF Extended
  <1>2. DOMAIN Right = {"38", "1D"} /\ Right["38"] = "ralt" /\ Right["1D"] = "rctrl"
    BY DEF Right
  <1>3. Modifier \subseteq {"lalt", "lctrl", "lshift", "rshift", "ralt", "rctrl"}
    BY DEF Modifier, Left, Right
  <1>4. CASE k = "ralt"
    BY <1>2, <1>4 DEF Extended
  <1>5. CASE k = "rctrl"
    BY <1>2, <1>5 DEF Extended
  <1>6. CASE k = "up"
    BY <1>2, <1>3, <1>6 DEF Extended
  <1>7. CASE k = "delete"
    BY <1>2, <1>3, <1>7 DEF Extended
  <1>. QED
    BY <1>1, <1>4, <1>5, <1>6, <1>7

\* So it is without the prefix, for the other keys.
LEMMA PlainCode ==
    ASSUME NEW k \in DOMAIN Plain
    PROVE  /\ Plain[k] \in DOMAIN Left => Left[Plain[k]] = k
           /\ Plain[k] \notin DOMAIN Left => k \notin Modifier
           /\ Plain[k] # "E0"
           /\ Plain[k] = "3A" <=> k = "caps"
           /\ k = "caps" => k \notin Modifier
  <1>1. DOMAIN Plain = {"lalt", "lctrl", "lshift", "rshift", "caps", "a", "F1", "F2", "F9"}
    BY DEF Plain
  <1>2. /\ DOMAIN Left = {"38", "1D", "2A", "36"}
        /\ Left["38"] = "lalt" /\ Left["1D"] = "lctrl"
        /\ Left["2A"] = "lshift" /\ Left["36"] = "rshift"
    BY DEF Left
  <1>3. Modifier \subseteq {"lalt", "lctrl", "lshift", "rshift", "ralt", "rctrl"}
    BY DEF Modifier, Left, Right
  <1>4. CASE k \in {"lalt", "lctrl", "lshift", "rshift"}
    BY <1>2, <1>4 DEF Plain
  <1>5. CASE k \in {"caps", "a", "F1", "F2", "F9"}
    BY <1>2, <1>3, <1>5 DEF Plain
  <1>. QED
    BY <1>1, <1>4, <1>5

\* What the handler takes from the wire, and what it leaves there.
LEMMA TakeByte ==
    ASSUME NEW k \in Key, NEW up \in BOOLEAN
    PROVE  /\ k \in DOMAIN Extended \/ k \in DOMAIN Plain
           /\ Whole(k, up) /\ k \in DOMAIN Extended =>
                wire # <<>> /\ Head(wire) = [code |-> "E0", up |-> FALSE] /\ Tail(wire) = Rest(k, up)
           /\ Whole(k, up) /\ k \notin DOMAIN Extended =>
                wire # <<>> /\ Head(wire) = [code |-> Plain[k], up |-> up] /\ Tail(wire) = <<>>
           /\ Half(k, up) =>
                wire # <<>> /\ Head(wire) = [code |-> Extended[k], up |-> up] /\ Tail(wire) = <<>>
  <1>1. k \in DOMAIN Extended \/ k \in DOMAIN Plain
    BY KeyboardAssumption DEF Keys
  <1>2. \A b : <<b>> # <<>> /\ Head(<<b>>) = b /\ Tail(<<b>>) = <<>>
    OBVIOUS
  <1>3. \A b, c : <<b, c>> # <<>> /\ Head(<<b, c>>) = b /\ Tail(<<b, c>>) = <<c>>
    OBVIOUS
  <1>4. Whole(k, up) /\ k \in DOMAIN Extended =>
            wire # <<>> /\ Head(wire) = [code |-> "E0", up |-> FALSE] /\ Tail(wire) = Rest(k, up)
    BY <1>3, Zenon DEF Whole, Bytes, Rest
  <1>5. Whole(k, up) /\ k \notin DOMAIN Extended =>
            wire # <<>> /\ Head(wire) = [code |-> Plain[k], up |-> up] /\ Tail(wire) = <<>>
    BY <1>2, Zenon DEF Whole, Bytes
  <1>6. Half(k, up) =>
            wire # <<>> /\ Head(wire) = [code |-> Extended[k], up |-> up] /\ Tail(wire) = <<>>
    BY <1>2, Zenon DEF Half, Rest
  <1>. QED
    BY <1>1, <1>4, <1>5, <1>6

----------------------------------------------------------------------------
(* The modifiers *)

\* Between events the modifiers are right; while the bytes of an event are on
\* the wire they are right but for its key, and the driver has remembered the
\* prefix exactly when the prefix has been taken.
Agree(k) ==
    /\ special_keys_down \subseteq Modifier
    /\ special_keys_down \ {k} = (held \cap Modifier) \ {k}

Quiet ==
    /\ wire = <<>>
    /\ special_key_next => special_code = "3A"
    /\ special_keys_down = held \cap Modifier

Event(k, up) ==
    /\ k \in held <=> ~up
    /\ Agree(k)
    /\ \/ Whole(k, up) /\ (special_key_next => special_code = "3A")
       \/ Half(k, up) /\ special_key_next /\ special_code = "E0"

ModifierInv == eaten \/ Quiet \/ \E k \in Key, up \in BOOLEAN : Event(k, up)

\* Whether the event's last byte was of a modifier or not, it brings the
\* modifiers up to date.
Done(k, up) ==
    \/ special_keys_down' = special_keys_down /\ k \notin Modifier
    \/ k \in Modifier /\ special_keys_down' = IF up THEN special_keys_down \ {k}
                                            ELSE special_keys_down \cup {k}

LEMMA EventDone ==
    ASSUME NEW k \in Key, NEW up \in BOOLEAN, k \in held <=> ~up, Agree(k), Done(k, up)
    PROVE  special_keys_down' = held \cap Modifier
  <1>. SUFFICES ASSUME NEW m
                PROVE  m \in special_keys_down' <=> m \in held \cap Modifier
    OBVIOUS
  <1>1. CASE m = k
    BY <1>1 DEF Agree, Done
  <1>2. CASE m # k
    <2>1. m \in special_keys_down' <=> m \in special_keys_down
      BY <1>2, Zenon DEF Done
    <2>2. m \in special_keys_down <=> m \in special_keys_down \ {k}
      BY <1>2
    <2>3. m \in held \cap Modifier <=> m \in (held \cap Modifier) \ {k}
      BY <1>2
    <2>. QED
      BY <2>1, <2>2, <2>3, Zenon DEF Agree
  <1>. QED
    BY <1>1, <1>2

LEMMA ModifierInit == KeyboardInit => ModifierInv
  BY DEF KeyboardInit, ModifierInv, Quiet

\* A key event starts when the wire is empty.
LEMMA ModifierKeys ==
    ASSUME ModifierInv, NEW k \in Key, Press(k) \/ Lift(k)
    PROVE  ModifierInv'
  <1>. SUFFICES ASSUME ~eaten, Quiet
                PROVE  \E up \in BOOLEAN : Event(k, up)'
    <2>1. wire = <<>> /\ eaten' = eaten
      BY DEF Press, Lift
    <2>2. ASSUME NEW j \in Key, NEW up \in BOOLEAN, Event(j, up)
          PROVE  FALSE
      BY <2>1, <2>2, TakeByte DEF Event
    <2>. QED
      BY <2>1, <2>2, Zenon DEF ModifierInv
  <1>1. CASE Press(k)
    <2>1. Event(k, FALSE)'
      BY <1>1 DEF Press, Event, Quiet, Agree, Whole
    <2>. QED
      BY <2>1
  <1>2. CASE Lift(k)
    <2>1. Event(k, TRUE)'
      BY <1>2 DEF Lift, Event, Quiet, Agree, Whole
    <2>. QED
      BY <2>1
  <1>. QED
    BY <1>1, <1>2

\* The interrupt handler takes one byte of the event.
LEMMA ModifierInterrupt ==
    ASSUME ModifierInv, ps2_keyboard_interrupt_handler
    PROVE  ModifierInv'
  <1>. DEFINE b == Head(wire)
  <1>1. eaten => eaten'
    BY DEF ps2_keyboard_interrupt_handler, SecondOfExtended, SecondOfCaps, FirstOfTwo,
           ModifierKey, OtherKey
  <1>2. ASSUME NEW k \in Key, NEW up \in BOOLEAN, Event(k, up), ~eaten
        PROVE  ModifierInv'
    <2>0. wire' = Tail(wire) /\ held' = held
      BY DEF ps2_keyboard_interrupt_handler
    <2>1. CASE Whole(k, up) /\ k \in DOMAIN Extended
      <3>1. b.code = "E0" /\ Tail(wire) = Rest(k, up) /\ (special_key_next => special_code = "3A")
        <4>1. Rest(k, up) # <<>>
          BY DEF Rest
        <4>2. Head(wire) = [code |-> "E0", up |-> FALSE] /\ Tail(wire) = Rest(k, up)
          BY <2>1, TakeByte
        <4>3. ~Half(k, up)
          BY <4>1, <4>2, TakeByte
        <4>. QED
          BY <1>2, <4>2, <4>3 DEF Event
      <3>2. CASE special_key_next
        BY <3>1, <3>2 DEF ps2_keyboard_interrupt_handler, SecondOfExtended, SecondOfCaps,
                          FirstOfTwo, ModifierKey, OtherKey, ModifierInv
      <3>3. CASE ~special_key_next
        <4>1. special_key_next' /\ special_code' = "E0" /\ special_keys_down' = special_keys_down
          BY <3>1, <3>3 DEF ps2_keyboard_interrupt_handler, SecondOfExtended, SecondOfCaps,
                            FirstOfTwo, ModifierKey, OtherKey, Left
        <4>2. Event(k, up)'
          BY <1>2, <2>0, <2>1, <3>1, <4>1 DEF Event, Half, Agree
        <4>. QED
          BY <4>2 DEF ModifierInv
      <3>. QED
        BY <3>2, <3>3
    <2>2. CASE Whole(k, up) /\ k \notin DOMAIN Extended
      <3>1. /\ b.code = Plain[k] /\ b.up = up /\ k \in DOMAIN Plain /\ Tail(wire) = <<>>
            /\ special_key_next => special_code = "3A"
        BY <1>2, <2>2, TakeByte DEF Event, Half
      <3>2. /\ Plain[k] \in DOMAIN Left => Left[Plain[k]] = k
            /\ Plain[k] \notin DOMAIN Left => k \notin Modifier
            /\ Plain[k] # "E0" /\ (Plain[k] = "3A" <=> k = "caps")
            /\ k = "caps" => k \notin Modifier
        BY <3>1, PlainCode
      <3>3. CASE special_key_next
        <4>1. /\ eaten' = (eaten \/ Plain[k] # "3A") /\ ~special_key_next'
              /\ special_keys_down' = special_keys_down
          BY <3>1, <3>2, <3>3 DEF ps2_keyboard_interrupt_handler, SecondOfExtended,
                                  SecondOfCaps, FirstOfTwo, ModifierKey, OtherKey
        <4>2. CASE Plain[k] # "3A"
          BY <4>1, <4>2 DEF ModifierInv
        <4>3. CASE Plain[k] = "3A"
          <5>1. Done(k, up)
            BY <3>2, <4>1, <4>3 DEF Done
          <5>2. special_keys_down' = held \cap Modifier
            BY <1>2, <5>1, EventDone DEF Event
          <5>. QED
            BY <2>0, <3>1, <4>1, <5>2 DEF ModifierInv, Quiet
        <4>. QED
          BY <4>2, <4>3
      <3>4. CASE ~special_key_next
        <4>1. /\ special_key_next' => special_code' = "3A"
              /\ Done(k, up)
          BY <3>1, <3>2, <3>4 DEF ps2_keyboard_interrupt_handler, SecondOfExtended,
                 SecondOfCaps, FirstOfTwo, ModifierKey, OtherKey, Toggle, Modifier, Done
        <4>2. special_keys_down' = held \cap Modifier
          BY <1>2, <4>1, EventDone DEF Event
        <4>. QED
          BY <2>0, <3>1, <4>1, <4>2 DEF ModifierInv, Quiet
      <3>. QED
        BY <3>3, <3>4
    <2>3. CASE Half(k, up) /\ special_key_next /\ special_code = "E0"
      <3>1. b.code = Extended[k] /\ b.up = up /\ k \in DOMAIN Extended /\ Tail(wire) = <<>>
        BY <2>3, TakeByte DEF Half
      <3>2. /\ Extended[k] \in DOMAIN Right => Right[Extended[k]] = k
            /\ Extended[k] \notin DOMAIN Right => k \notin Modifier
        BY <3>1, ExtendedCode
      <3>3. /\ ~special_key_next'
            /\ Done(k, up)
        BY <2>3, <3>1, <3>2 DEF ps2_keyboard_interrupt_handler, SecondOfExtended, SecondOfCaps,
                                FirstOfTwo, ModifierKey, OtherKey, Toggle, Modifier, Done
      <3>4. special_keys_down' = held \cap Modifier
        BY <1>2, <3>3, EventDone DEF Event
      <3>. QED
        BY <2>0, <3>1, <3>3, <3>4 DEF ModifierInv, Quiet
    <2>. QED
      BY <1>2, <2>1, <2>2, <2>3 DEF Event
  <1>3. ~Quiet
    BY DEF Quiet, ps2_keyboard_interrupt_handler
  <1>. QED
    BY <1>1, <1>2, <1>3, Zenon DEF ModifierInv

LEMMA ModifierNext == ModifierInv /\ [KeyboardNext]_keyboardVars => ModifierInv'
  <1>. SUFFICES ASSUME ModifierInv, [KeyboardNext]_keyboardVars
                PROVE  ModifierInv'
    OBVIOUS
  <1>1. CASE \E k \in Key : Press(k) \/ Lift(k)
    BY <1>1, ModifierKeys
  <1>2. CASE ps2_keyboard_interrupt_handler
    BY <1>2, ModifierInterrupt
  <1>3. CASE \E t \in Term : sys_async_getc(t) \/ sys_async_getarrw(t)
    BY <1>3 DEF sys_async_getc, sys_async_getarrw, ModifierInv, Quiet, Event, Agree, Whole, Half
  <1>4. CASE UNCHANGED keyboardVars
    BY <1>4 DEF keyboardVars, ModifierInv, Quiet, Event, Agree, Whole, Half
  <1>. QED
    BY <1>1, <1>2, <1>3, <1>4 DEF KeyboardNext

\* Between key events ps2_keyboard_interrupt_handler's modifiers are the keys
\* that are down, left and right told apart, unless caps lock has swallowed a
\* byte of another key.
THEOREM KeyboardModifiersFollowKeys == KeyboardSpec => []ModifiersFollowKeys
  <1>1. ModifierInv => ModifiersFollowKeys
    <2>. SUFFICES ASSUME ModifierInv, wire = <<>>, ~eaten
                  PROVE  special_keys_down = held \cap Modifier
      BY DEF ModifiersFollowKeys
    <2>1. \A k \in Key, up \in BOOLEAN : ~Event(k, up)
      BY TakeByte DEF Event
    <2>. QED
      BY <2>1, Zenon DEF ModifierInv, Quiet
  <1>. QED
    BY <1>1, ModifierInit, ModifierNext, PTL DEF KeyboardSpec

----------------------------------------------------------------------------
(* The characters *)

\* The letter has gone down and the driver has not seen it yet.
Typing == wire # <<>> /\ Head(wire).code = "1E" /\ ~Head(wire).up

\* A character that waits is newer than the last one delivered and belongs to
\* the terminal on the display; one on the wire is newer than both.
CharInv ==
    /\ WireOK
    /\ presses \in Nat /\ got.n \in Nat /\ KBD_CHAR.n \in Nat
    /\ got.n <= presses /\ KBD_CHAR.n <= presses
    /\ KBD_CHAR # NoChar => KBD_CHAR.n > got.n /\ KBD_CHAR.term = current_term
    /\ Typing => got.n < presses /\ KBD_CHAR.n < presses

LEMMA CharInit == KeyboardInit => CharInv
  BY DEF KeyboardInit, CharInv, WireOK, Typing, NoChar

\* A press numbers the character to come.
LEMMA CharKeys ==
    ASSUME CharInv, NEW k \in Key, Press(k) \/ Lift(k)
    PROVE  CharInv'
  <1>1. \E up \in BOOLEAN : wire' = Bytes(k, up) /\ (Lift(k) => up)
    BY DEF Press, Lift
  <1>2. WireOK'
    BY <1>1 DEF WireOK, Whole
  <1>3. CASE Press(k)
    BY <1>2, <1>3 DEF Press, CharInv
  <1>4. CASE Lift(k)
    <2>1. Whole(k, TRUE)'
      BY <1>4 DEF Lift, Whole
    <2>2. ~Typing'
      <3>1. CASE k \in DOMAIN Extended
        <4>1. \A b, c : Head(<<b, c>>) = b
          OBVIOUS
        <4>2. Head(wire)' = [code |-> "E0", up |-> FALSE]
          BY <2>1, <3>1, <4>1, Zenon DEF Whole, Bytes
        <4>. QED
          BY <4>2 DEF Typing
      <3>2. CASE k \notin DOMAIN Extended
        <4>1. \A b : Head(<<b>>) = b
          OBVIOUS
        <4>2. Head(wire)' = [code |-> Plain[k], up |-> TRUE]
          BY <2>1, <3>2, <4>1, Zenon DEF Whole, Bytes
        <4>. QED
          BY <4>2 DEF Typing
      <3>. QED
        BY <3>1, <3>2
    <2>. QED
      BY <1>2, <1>4, <2>2 DEF Lift, CharInv
  <1>. QED
    BY <1>3, <1>4

\* Behind a byte that has been taken there is never the letter.
LEMMA TakenLeaves ==
    ASSUME WireOK, wire # <<>>, wire' = Tail(wire)
    PROVE  WireOK' /\ ~Typing'
  <1>1. PICK k \in Key, up \in BOOLEAN : Whole(k, up) \/ Half(k, up)
    BY DEF WireOK
  <1>2. CASE Whole(k, up) /\ k \in DOMAIN Extended
    <2>1. wire' = Rest(k, up)
      BY <1>2, TakeByte
    <2>2. \A b : Head(<<b>>) = b
      OBVIOUS
    <2>3. Head(wire)' = [code |-> Extended[k], up |-> up]
      BY <2>1, <2>2, Zenon DEF Rest
    <2>4. Head(wire)'.code # "1E"
      <3>1. Extended[k] # "1E"
        BY <1>2, ExtendedCode
      <3>2. [code |-> Extended[k], up |-> up].code = Extended[k]
        OBVIOUS
      <3>. QED
        BY <2>3, <3>1, <3>2, Zenon
    <2>5. Half(k, up)'
      BY <1>2, <2>1, Zenon DEF Half
    <2>. QED
      BY <2>4, <2>5 DEF WireOK, Typing
  <1>3. CASE ~ (Whole(k, up) /\ k \in DOMAIN Extended)
    <2>1. wire' = <<>>
      BY <1>1, <1>3, TakeByte
    <2>. QED
      BY <2>1 DEF WireOK, Typing
  <1>. QED
    BY <1>2, <1>3

\* The handler replaces the character, by the letter just typed or by none.  A
\* function key that moves the display to another terminal is among the keys
\* that replace it by none.
LEMMA CharInterrupt ==
    ASSUME CharInv, ps2_keyboard_interrupt_handler
    PROVE  CharInv'
  <1>. DEFINE b == Head(wire)
  <1>1. WireOK' /\ ~Typing' /\ presses' = presses /\ got' = got
    BY TakenLeaves DEF CharInv, ps2_keyboard_interrupt_handler
  <1>2. CASE OtherKey(b)
    <2>1. CASE Typing
      <3>1. b.code \notin DOMAIN Function
        BY <2>1 DEF Typing, Function
      <3>2. KBD_CHAR' = [n |-> presses, layout |-> Layout, term |-> current_term]
        BY <1>2, <2>1 DEF OtherKey, keymap, Typing
      <3>3. current_term' = current_term
        BY <1>2, <3>1 DEF OtherKey, global_fkey_handler
      <3>4. KBD_CHAR'.n = presses /\ KBD_CHAR'.term = current_term
        BY <3>2
      <3>. QED
        BY <1>1, <2>1, <3>3, <3>4 DEF CharInv
    <2>2. CASE ~Typing
      <3>1. KBD_CHAR' = NoChar /\ KBD_CHAR'.n = 0
        BY <1>2, <2>2 DEF OtherKey, keymap, Typing, ps2_keyboard_interrupt_handler, NoChar
      <3>. QED
        BY <1>1, <3>1 DEF CharInv
    <2>. QED
      BY <2>1, <2>2
  <1>3. CASE SecondOfExtended(b) \/ SecondOfCaps(b) \/ FirstOfTwo(b) \/ ModifierKey(b)
    <2>1. KBD_CHAR' = KBD_CHAR /\ current_term' = current_term
      BY <1>3 DEF SecondOfExtended, SecondOfCaps, FirstOfTwo, ModifierKey
    <2>. QED
      BY <1>1, <2>1 DEF CharInv
  <1>. QED
    BY <1>2, <1>3 DEF ps2_keyboard_interrupt_handler

\* async_getc delivers the character that waits, and empties its place.
LEMMA CharDelivered ==
    ASSUME CharInv, NEW t \in Term, sys_async_getc(t)
    PROVE  CharInv' /\ got'.n > got.n /\ got'.from = got'.at
  <1>1. /\ got' = [n |-> KBD_CHAR.n, from |-> KBD_CHAR.term, at |-> t]
        /\ KBD_CHAR # NoChar /\ current_term = t
    BY DEF sys_async_getc
  <1>2. got'.n = KBD_CHAR.n /\ got'.from = KBD_CHAR.term /\ got'.at = t
    BY <1>1
  <1>3. got'.n > got.n /\ got'.from = got'.at
    BY <1>1, <1>2 DEF CharInv
  <1>4. KBD_CHAR' = NoChar /\ KBD_CHAR'.n = 0 /\ presses' = presses /\ wire' = wire
    BY DEF sys_async_getc, NoChar
  <1>5. WireOK' /\ Typing' = Typing
    BY <1>4 DEF CharInv, WireOK, Whole, Half, Typing
  <1>. QED
    BY <1>2, <1>3, <1>4, <1>5 DEF CharInv

LEMMA CharNext == CharInv /\ [KeyboardNext]_keyboardVars => CharInv'
  <1>. SUFFICES ASSUME CharInv, [KeyboardNext]_keyboardVars
                PROVE  CharInv'
    OBVIOUS
  <1>1. CASE \E k \in Key : Press(k) \/ Lift(k)
    BY <1>1, CharKeys
  <1>2. CASE ps2_keyboard_interrupt_handler
    BY <1>2, CharInterrupt
  <1>3. CASE \E t \in Term : sys_async_getc(t)
    BY <1>3, CharDelivered
  <1>4. CASE \E t \in Term : sys_async_getarrw(t)
    BY <1>4 DEF sys_async_getarrw, CharInv, WireOK, Whole, Half, Typing
  <1>5. CASE UNCHANGED keyboardVars
    BY <1>5 DEF keyboardVars, CharInv, WireOK, Whole, Half, Typing
  <1>. QED
    BY <1>1, <1>2, <1>3, <1>4, <1>5 DEF KeyboardNext

\* What sys_async_getc returns was typed at the terminal that reads it, and is
\* newer than everything returned before: nothing is delivered twice.
THEOREM KeyboardTypedHereReadHere == KeyboardSpec => TypedHereReadHere
  <1>1. CharInv /\ [KeyboardNext]_keyboardVars => [got' # got => got'.n > got.n /\ got'.from = got'.at]_keyboardVars
    <2>. SUFFICES ASSUME CharInv, KeyboardNext, got' # got
                  PROVE  got'.n > got.n /\ got'.from = got'.at
      OBVIOUS
    <2>1. \E t \in Term : sys_async_getc(t)
      BY DEF KeyboardNext, Press, Lift, ps2_keyboard_interrupt_handler, sys_async_getarrw
    <2>. QED
      BY <2>1, CharDelivered
  <1>. QED
    BY <1>1, CharInit, CharNext, PTL DEF KeyboardSpec, TypedHereReadHere

===============================================================================
