------------------------------ MODULE Terminal ------------------------------
(***************************************************************************)
(* The terminal, kernel/framebuffer.c: a flat buffer of Width * Height     *)
(* cells, a cursor and a colour.                                           *)
(*                                                                         *)
(* term_newline moves the buffer up by copying it onto itself with memcpy, *)
(* whose ranges overlap: that loop, and the blanking of the last row after *)
(* it, take one step per cell (memcpy copies the two bytes of a cell one   *)
(* after the other).  The rest of each function is one step.  Strings,     *)
(* numbers, panic() and yell() are sequences of these operations.          *)
(***************************************************************************)
EXTENDS Integers

CONSTANTS
  Width, Height,   \* VGA_WIDTH and VGA_HEIGHT: 80 and 25
  Chars,           \* the characters other than '\n'
  Colors,          \* the colours
  Space,           \* ' '
  NoColor          \* the colour term_reset_cursor sets: 0

ASSUME SizeAssumption  == Width \in Nat \ {0} /\ Height \in Nat \ {0, 1}
ASSUME ColorAssumption == NoColor \in Colors

VARIABLES
  term_buffer, term_row, term_column, term_color,
  pc,   \* "idle" between calls, "copy" and "blank" in term_newline
  i     \* the loop variable of memcpy and of term_newline

vars == <<term_buffer, term_row, term_column, term_color, pc, i>>

Cells == 0 .. Width * Height - 1
Entries == [ch : Chars \cup {Space}, color : Colors]

\* The first cell of the last row.
LastRow == Width * (Height - 1)

vga_entry(c) == [ch |-> c, color |-> term_color]

\* term_init, from the cursor's static initial values.
Init ==
  /\ term_color \in Colors
  /\ term_buffer = [n \in Cells |-> vga_entry(Space)]
  /\ term_row = 0 /\ term_column = 0
  /\ pc = "idle" /\ i = 0

\* term_put_char_at the cursor.
PutAtCursor(c) ==
  term_buffer' = [term_buffer EXCEPT ![term_row * Width + term_column] = vga_entry(c)]

\* Whether the cursor leaves the last row.
RowFull == term_row + 1 >= Height

\* newline_callback: on to the next row, or, from the last one, into term_newline.
Newline ==
  /\ term_column' = 0
  /\ IF RowFull
     THEN term_row' = Height - 1 /\ pc' = "copy" /\ i' = 0
     ELSE term_row' = term_row + 1 /\ UNCHANGED <<pc, i>>

\* term_putchar of a character, inside a row.
PutInside(c) ==
  /\ pc = "idle"
  /\ term_column + 1 < Width
  /\ PutAtCursor(c)
  /\ term_column' = term_column + 1
  /\ UNCHANGED <<term_row, term_color, pc, i>>

\* term_putchar of a character at the end of a row, which wraps at once.
PutWraps(c) ==
  /\ pc = "idle"
  /\ term_column + 1 >= Width
  /\ PutAtCursor(c)
  /\ Newline
  /\ UNCHANGED term_color

\* term_putchar('\n').
Enter ==
  /\ pc = "idle"
  /\ Newline
  /\ UNCHANGED <<term_buffer, term_color>>

\* (mutant: memcpy copies from the end)
CopiedDown == LastRow - 1 - i

\* The cell that memcpy copies in its iteration i.
Copied == i

\* One iteration of memcpy(term_buffer, term_buffer + VGA_WIDTH, ...).
CopyCell ==
  /\ pc = "copy"
  /\ term_buffer' = [term_buffer EXCEPT ![Copied] = term_buffer[Copied + Width]]
  /\ IF i + 1 < LastRow THEN i' = i + 1 /\ pc' = pc
                        ELSE i' = 0 /\ pc' = "blank"
  /\ UNCHANGED <<term_row, term_column, term_color>>

\* One iteration of the loop that blanks the last row.
BlankCell ==
  /\ pc = "blank"
  /\ term_buffer' = [term_buffer EXCEPT ![LastRow + i] = vga_entry(Space)]
  /\ IF i + 1 < Width THEN i' = i + 1 /\ pc' = pc
                      ELSE i' = 0 /\ pc' = "idle"
  /\ UNCHANGED <<term_row, term_column, term_color>>

\* term_clean: the cursor stays where it is.
Clean ==
  /\ pc = "idle"
  /\ term_buffer' = [n \in Cells |-> vga_entry(Space)]
  /\ UNCHANGED <<term_row, term_column, term_color, pc, i>>

SetColor(c) ==
  /\ pc = "idle"
  /\ term_color' = c
  /\ UNCHANGED <<term_buffer, term_row, term_column, pc, i>>

\* term_reset_cursor: the column stays.
ResetCursor ==
  /\ pc = "idle"
  /\ term_row' = 0
  /\ term_color' = NoColor
  /\ UNCHANGED <<term_buffer, term_column, pc, i>>

Next ==
  \/ \E c \in Chars : PutInside(c) \/ PutWraps(c)
  \/ Enter \/ CopyCell \/ BlankCell
  \/ Clean \/ ResetCursor
  \/ \E c \in Colors : SetColor(c)

Spec == Init /\ [][Next]_vars

-----------------------------------------------------------------------------
(* Properties *)

\* The types of the variables.  The cursor is on the screen at every step, so no
\* character is written behind the buffer.
TypeOK ==
  /\ term_buffer \in [Cells -> Entries]
  /\ term_row \in 0 .. Height - 1
  /\ term_column \in 0 .. Width - 1
  /\ term_color \in Colors
  /\ pc \in {"idle", "copy", "blank"}
  /\ i \in 0 .. (IF pc = "copy" THEN LastRow ELSE Width) - 1
  /\ pc = "idle" => i = 0

\* The cell that is on its way to place n while term_newline runs.
Shown(n) ==
  CASE pc = "idle"  -> term_buffer[n]
    [] pc = "copy"  -> IF n < i THEN term_buffer[n]
                       ELSE IF n < LastRow THEN term_buffer[n + Width]
                       ELSE vga_entry(Space)
    [] pc = "blank" -> IF n < LastRow + i THEN term_buffer[n] ELSE vga_entry(Space)

Window == [y \in 0 .. Height - 1 |-> [x \in 0 .. Width - 1 |-> Shown(y * Width + x)]]

Abs == INSTANCE Console WITH window <- Window, row <- term_row,
                             column <- term_column, color <- term_color

\* The flat buffer is the console's window: wrapping, the cursor's arithmetic
\* and the copying of the buffer onto itself lose no row but the first, repeat
\* none, and put every character where the cursor is.
ImplementsConsole == Abs!Spec

=============================================================================
