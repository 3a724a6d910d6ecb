------------------------------ MODULE MCConsole ------------------------------
(* Three terminals of two lines, short enough to scroll within the bound,   *)
(* whose buffers lie one behind the other in pages of five cells.           *)
EXTENDS Console

InARow == [t \in Term |-> t]

\* On the screen, left of it, below it and far below it.
Places == {<<1, 0>>, <<-1, 1>>, <<0, 2>>, <<1, 2>>, <<0, 5>>}

\* Inside, to the end of the page, and into the next.
Ranges == {<<1, 1>>, <<3, 2>>, <<4, 3>>}

=============================================================================
