CONSTANTS
    MaxTerm = 3
    Width = 2
    Height = 2
    Tab = 2
    PageCells = 5
    Page <- InARow
    Letter = {"a"}
    Cursors <- Places
    Pokes <- Ranges
    MaxWrites = 4
SPECIFICATION Spec
INVARIANT CursorOnScreen
 
CHECK_DEADLOCK FALSE
