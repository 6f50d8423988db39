------------------------------ MODULE Console ------------------------------
(***************************************************************************)
(* What kernel/framebuffer.c promises its callers: a window of rows, a     *)
(* cursor that walks through it, and rows that leave the window at the top *)
(* when the cursor walks out of the bottom.  Writing a character, with all *)
(* that follows from it, is one step.                                      *)
(***************************************************************************)
EXTENDS Integers

CONSTANTS Width, Height, Chars, Colors, Space, NoColor

VARIABLES window, row, column, color

vars == <<window, row, column, color>>

Columns == 0 .. Width - 1
Rows    == 0 .. Height - 1

BlankRow(c) == [x \in Columns |-> [ch |-> Space, color |-> c]]

Init ==
  /\ color \in Colors
  /\ window = [y \in Rows |-> BlankRow(color)]
  /\ row = 0 /\ column = 0

\* The window w with a character at the cursor.
Written(w, c) == [w EXCEPT ![row] = [@ EXCEPT ![column] = [ch |-> c, color |-> color]]]

\* The window w one row further down.
Scrolled(w) == [y \in Rows |-> IF y = Height - 1 THEN BlankRow(color) ELSE w[y + 1]]

\* The cursor at the beginning of the next row, the window being w.
NextRow(w) ==
  /\ column' = 0
  /\ \/ row < Height - 1 /\ row' = row + 1 /\ window' = w
     \/ row = Height - 1 /\ row' = row /\ window' = Scrolled(w)

Put(c) ==
  /\ \/ column < Width - 1 /\ column' = column + 1 /\ row' = row /\ window' = Written(window, c)
     \/ column = Width - 1 /\ NextRow(Written(window, c))
  /\ color' = color

Enter == NextRow(window) /\ color' = color

Clean ==
  /\ window' = [y \in Rows |-> BlankRow(color)]
  /\ UNCHANGED <<row, column, color>>

SetColor(c) == color' = c /\ UNCHANGED <<window, row, column>>

\* The cursor goes to the first row, in whatever column it is.
Home == row' = 0 /\ color' = NoColor /\ UNCHANGED <<window, column>>

Next ==
  \/ \E c \in Chars : Put(c)
  \/ Enter \/ Clean \/ Home
  \/ \E c \in Colors : SetColor(c)

Spec == Init /\ [][Next]_vars

=============================================================================
