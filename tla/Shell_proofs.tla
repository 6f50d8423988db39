----------------------------- MODULE Shell_proofs -----------------------------
(***************************************************************************)
(* Proofs about the terminal of Terminal.tla, and about the shell of       *)
(* Shell.tla that writes on it.                                            *)
(*                                                                         *)
(* The terminal, for every size of the screen and all sets of characters   *)
(* and colours: its flat buffer implements a console.  The shell, for      *)
(* every screen, every buffer, every table of names and all that its       *)
(* programs write: it only uses the terminal, its buffer holds the line    *)
(* that was typed, that line stands before the cursor, and a name that is  *)
(* typed in full runs its program.                                         *)
(***************************************************************************)
EXTENDS Shell, SequenceTheorems, TLAPS

USE SizeAssumption, ColorAssumption

Rows    == 0 .. Height - 1
Columns == 0 .. Width - 1

-----------------------------------------------------------------------------
(* The arithmetic of the flat buffer *)

LEMMA Times ==
  ASSUME NEW w \in Nat, NEW a \in Nat, NEW b \in Nat, a <= b
  PROVE  w * a \in Nat /\ w * b \in Nat /\ w * a <= w * b
<1>1. PICK d \in Nat : b = a + d
  <2>1. b - a \in Nat /\ b = a + (b - a)
    OBVIOUS
  <2> QED
    BY <2>1
<1>2. w * b = w * a + w * d /\ w * d \in Nat /\ w * a \in Nat
  BY <1>1
<1> QED
  BY <1>2

LEMMA Sizes ==
  /\ LastRow \in Nat /\ LastRow >= Width /\ Width * Height = LastRow + Width
  /\ Cells = 0 .. LastRow + Width - 1
<1>1. Height - 1 \in Nat /\ 1 <= Height - 1
  OBVIOUS
<1>2. LastRow \in Nat /\ Width * 1 <= LastRow
  BY <1>1, Times DEF LastRow
<1>3. Width * Height = Width * (Height - 1) + Width
  BY <1>1
<1> QED
  BY <1>2, <1>3 DEF Cells, LastRow

LEMMA Place ==
  ASSUME NEW y \in Rows, NEW x \in Columns
  PROVE  /\ y * Width + x \in Cells
         /\ y = Height - 1 => y * Width + x = LastRow + x
         /\ y < Height - 1 => /\ y * Width + x < LastRow
                              /\ (y + 1) * Width + x = (y * Width + x) + Width
<1>1. y \in Nat /\ x \in Nat /\ x < Width /\ Height - 1 \in Nat
  BY DEF Rows, Columns
<1>2. y * Width = Width * y /\ y * Width \in Nat
  BY <1>1
<1>3. CASE y = Height - 1
  BY <1>1, <1>2, <1>3, Sizes DEF LastRow
<1>4. CASE y < Height - 1
  <2>1. y + 1 \in Nat /\ y + 1 <= Height - 1
    BY <1>1, <1>4
  <2>2. Width * (y + 1) <= LastRow
    BY <1>1, <2>1, Times DEF LastRow
  <2>3. Width * (y + 1) = Width * y + Width /\ (y + 1) * Width = Width * (y + 1)
    BY <1>1
  <2> QED
    BY <1>1, <1>2, <1>4, <2>2, <2>3, Sizes
<1> QED
  BY <1>1, <1>3, <1>4 DEF Rows

LEMMA Distinct ==
  ASSUME NEW y \in Rows, NEW x \in Columns, NEW v \in Rows, NEW u \in Columns,
         y * Width + x = v * Width + u
  PROVE  y = v /\ x = u
<1>1. ASSUME NEW a \in Rows, NEW b \in Columns, NEW c \in Rows, NEW d \in Columns, a < c
      PROVE  a * Width + b < c * Width + d
  <2>1. a \in Nat /\ c \in Nat /\ a + 1 <= c /\ b \in Nat /\ d \in Nat /\ b < Width
    BY <1>1 DEF Rows, Columns
  <2>2. Width * (a + 1) <= Width * c
    BY <2>1, Times
  <2>3. Width * (a + 1) = Width * a + Width /\ a * Width = Width * a /\ c * Width = Width * c
    BY <2>1
  <2>4. Width * a \in Nat /\ Width * c \in Nat
    BY <2>1
  <2> QED
    BY <2>1, <2>2, <2>3, <2>4
<1>2. y \in Nat /\ v \in Nat /\ y * Width \in Nat /\ x \in Nat /\ u \in Nat /\ v * Width \in Nat
  BY DEF Rows, Columns
<1>3. ~(y < v) /\ ~(v < y)
  BY <1>1, <1>2
<1> QED
  BY <1>2, <1>3

-----------------------------------------------------------------------------
(* Types *)

LEMMA InitType == Init => TypeOK
<1> SUFFICES ASSUME Init PROVE TypeOK
  OBVIOUS
<1>1. term_buffer \in [Cells -> Entries]
  BY DEF Init, vga_entry, Entries
<1> QED
  BY <1>1 DEF Init, TypeOK

\* Writing one cell keeps the type of the buffer.
LEMMA EntryType ==
  ASSUME TypeOK, NEW c \in Chars \cup {Space}
  PROVE  vga_entry(c) \in Entries
  BY DEF TypeOK, vga_entry, Entries

LEMMA NewlineType ==
  ASSUME TypeOK, Newline, pc = "idle", term_color' = term_color,
         term_buffer' \in [Cells -> Entries]
  PROVE  TypeOK'
<1>1. CASE term_row + 1 >= Height
  <2>1. term_row' = Height - 1 /\ pc' = "copy" /\ i' = 0 /\ term_column' = 0
    BY <1>1 DEF Newline, RowFull
  <2>2. 0 \in 0 .. LastRow - 1
    BY Sizes
  <2> QED
    BY <2>1, <2>2 DEF TypeOK
<1>2. CASE ~(term_row + 1 >= Height)
  <2>1. term_row' = term_row + 1 /\ pc' = pc /\ i' = i /\ term_column' = 0
    BY <1>2 DEF Newline, RowFull
  <2> QED
    BY <1>2, <2>1 DEF TypeOK
<1> QED
  BY <1>1, <1>2

LEMMA NextType ==
  ASSUME TypeOK, [Next]_vars
  PROVE  TypeOK'
<1>0. \A c \in Chars : PutAtCursor(c) => term_buffer' \in [Cells -> Entries]
  BY EntryType DEF PutAtCursor, TypeOK
<1>1. ASSUME NEW c \in Chars, PutInside(c)
      PROVE  TypeOK'
  BY <1>0, <1>1 DEF PutInside, TypeOK
<1>2. ASSUME NEW c \in Chars, PutWraps(c)
      PROVE  TypeOK'
  BY <1>0, <1>2, NewlineType DEF PutWraps
<1>3. CASE Enter
  BY <1>3, NewlineType DEF Enter, TypeOK
<1>4. CASE CopyCell
  <2>1. i \in Nat /\ i < LastRow /\ LastRow \in Nat
    BY <1>4, Sizes DEF CopyCell, TypeOK
  <2>2. i + Width \in Cells
    BY <2>1, Sizes
  <2>3. term_buffer' \in [Cells -> Entries]
    BY <1>4, <2>2 DEF CopyCell, Copied, TypeOK
  <2>4. i' \in 0 .. (IF pc' = "copy" THEN LastRow ELSE Width) - 1
    BY <1>4, <2>1 DEF CopyCell
  <2> QED
    BY <1>4, <2>3, <2>4 DEF CopyCell, TypeOK
<1>5. CASE BlankCell
  <2>1. i \in Nat /\ i < Width
    BY <1>5 DEF BlankCell, TypeOK
  <2>2. vga_entry(Space) \in Entries
    BY EntryType
  <2>3. term_buffer' \in [Cells -> Entries]
    BY <1>5, <2>2 DEF BlankCell, TypeOK
  <2>4. i' \in 0 .. (IF pc' = "copy" THEN LastRow ELSE Width) - 1
    BY <1>5, <2>1 DEF BlankCell
  <2> QED
    BY <1>5, <2>3, <2>4 DEF BlankCell, TypeOK
<1>6. CASE Clean
  BY <1>6, EntryType DEF Clean, TypeOK
<1>7. CASE ResetCursor \/ (\E c \in Colors : SetColor(c))
  BY <1>7 DEF ResetCursor, SetColor, TypeOK
<1>8. CASE UNCHANGED vars
  BY <1>8 DEF vars, TypeOK
<1> QED
  BY <1>1, <1>2, <1>3, <1>4, <1>5, <1>6, <1>7, <1>8 DEF Next

\* The cursor is on the screen at every step, for any size of the screen.
THEOREM TypeCorrect == Spec => []TypeOK
  BY InitType, NextType, PTL DEF Spec

-----------------------------------------------------------------------------
(* The buffer as the console's window *)

LEMMA ShownIs ==
  ASSUME NEW n \in Cells
  PROVE  /\ pc = "idle" => Shown(n) = term_buffer[n]
         /\ pc = "copy" => Shown(n) = IF n < i THEN term_buffer[n]
                                      ELSE IF n < LastRow THEN term_buffer[n + Width]
                                      ELSE vga_entry(Space)
         /\ pc = "blank" => Shown(n) = IF n < LastRow + i THEN term_buffer[n]
                                       ELSE vga_entry(Space)
  BY DEF Shown

LEMMA ShownNext ==
  ASSUME NEW n \in Cells
  PROVE  /\ pc' = "idle" => Shown(n)' = term_buffer'[n]
         /\ pc' = "copy" => Shown(n)' = IF n < i' THEN term_buffer'[n]
                                        ELSE IF n < LastRow THEN term_buffer'[n + Width]
                                        ELSE vga_entry(Space)'
         /\ pc' = "blank" => Shown(n)' = IF n < LastRow + i' THEN term_buffer'[n]
                                         ELSE vga_entry(Space)'
  BY DEF Shown

LEMMA WindowIs ==
  /\ Window = [y \in Rows |-> [x \in Columns |-> Shown(y * Width + x)]]
  /\ Window' = [y \in Rows |-> [x \in Columns |-> Shown(y * Width + x)']]
  BY DEF Window, Rows, Columns

LEMMA AbsNames == Abs!Rows = Rows /\ Abs!Columns = Columns
  BY DEF Abs!Rows, Abs!Columns, Rows, Columns

\* Steps of term_newline do not show.
LEMMA SameShown ==
  ASSUME \A n \in Cells : Shown(n)' = Shown(n)
  PROVE  Window' = Window
  BY WindowIs, Place

LEMMA CopyHides ==
  ASSUME TypeOK, CopyCell
  PROVE  Window' = Window /\ \A n \in Cells : Shown(n)' = Shown(n)
<1>1. /\ pc = "copy" /\ i \in Nat /\ i < LastRow /\ LastRow \in Nat
      /\ term_buffer' = [term_buffer EXCEPT ![i] = term_buffer[i + Width]]
      /\ vga_entry(Space)' = vga_entry(Space)
  BY Sizes DEF CopyCell, Copied, TypeOK, vga_entry
<1>2. ASSUME NEW n \in Cells
      PROVE  Shown(n)' = Shown(n)
  <2>1. /\ n \in Nat /\ i \in Cells /\ i + Width \in Cells
        /\ n < LastRow => n + Width \in Cells
    BY <1>1, Sizes
  <2>2. \A m \in Cells : term_buffer'[m] = IF m = i THEN term_buffer[i + Width]
                                           ELSE term_buffer[m]
    BY <1>1, <2>1 DEF TypeOK
  <2>3. Shown(n) = IF n < i THEN term_buffer[n]
                   ELSE IF n < LastRow THEN term_buffer[n + Width]
                   ELSE vga_entry(Space)
    BY <1>1, ShownIs
  <2>4. CASE i + 1 < LastRow
    <3>1. i' = i + 1 /\ pc' = "copy"
      BY <1>1, <2>4 DEF CopyCell
    <3>2. Shown(n)' = IF n < i + 1 THEN term_buffer'[n]
                      ELSE IF n < LastRow THEN term_buffer'[n + Width]
                      ELSE vga_entry(Space)
      BY <1>1, <3>1, ShownNext
    <3>3. CASE n < i
      BY <1>1, <2>1, <2>2, <2>3, <3>2, <3>3
    <3>4. CASE n = i
      BY <1>1, <2>1, <2>2, <2>3, <3>2, <3>4
    <3>5. CASE i < n /\ n < LastRow
      <4>1. n + Width # i /\ ~(n < i + 1) /\ ~(n < i)
        BY <1>1, <2>1, <3>5
      <4> QED
        BY <2>1, <2>2, <2>3, <3>2, <3>5, <4>1
    <3>6. CASE ~(n < LastRow)
      BY <1>1, <2>1, <2>3, <2>4, <3>2, <3>6
    <3> QED
      BY <1>1, <2>1, <3>3, <3>4, <3>5, <3>6
  <2>5. CASE ~(i + 1 < LastRow)
    <3>1. i' = 0 /\ pc' = "blank" /\ i = LastRow - 1
      BY <1>1, <2>5 DEF CopyCell
    <3>2. Shown(n)' = IF n < LastRow THEN term_buffer'[n] ELSE vga_entry(Space)
      BY <1>1, <3>1, ShownNext
    <3>3. CASE n < i
      BY <1>1, <2>1, <2>2, <2>3, <3>2, <3>3
    <3>4. CASE n = i
      BY <1>1, <2>1, <2>2, <2>3, <3>2, <3>4
    <3>5. CASE ~(n < LastRow)
      BY <1>1, <2>1, <2>3, <3>2, <3>5
    <3> QED
      BY <1>1, <2>1, <3>1, <3>3, <3>4, <3>5
  <2> QED
    BY <2>4, <2>5
<1> QED
  BY <1>2, SameShown

LEMMA BlankHides ==
  ASSUME TypeOK, BlankCell
  PROVE  Window' = Window /\ \A n \in Cells : Shown(n)' = Shown(n)
<1>1. /\ pc = "blank" /\ i \in Nat /\ i < Width /\ LastRow \in Nat
      /\ term_buffer' = [term_buffer EXCEPT ![LastRow + i] = vga_entry(Space)]
      /\ vga_entry(Space)' = vga_entry(Space)
  BY Sizes DEF BlankCell, TypeOK, vga_entry
<1>2. ASSUME NEW n \in Cells
      PROVE  Shown(n)' = Shown(n)
  <2>1. n \in Nat /\ n <= LastRow + Width - 1 /\ LastRow + i \in Cells
    BY <1>1, Sizes
  <2>2. term_buffer'[n] = IF n = LastRow + i THEN vga_entry(Space) ELSE term_buffer[n]
    BY <1>1, <2>1 DEF TypeOK
  <2>3. Shown(n) = IF n < LastRow + i THEN term_buffer[n] ELSE vga_entry(Space)
    BY <1>1, ShownIs
  <2>4. CASE i + 1 < Width
    <3>1. i' = i + 1 /\ pc' = "blank"
      BY <1>1, <2>4 DEF BlankCell
    <3>2. Shown(n)' = IF n < LastRow + (i + 1) THEN term_buffer'[n] ELSE vga_entry(Space)
      BY <1>1, <3>1, ShownNext
    <3> QED
      BY <1>1, <2>1, <2>2, <2>3, <3>2
  <2>5. CASE ~(i + 1 < Width)
    <3>1. pc' = "idle" /\ i = Width - 1
      BY <1>1, <2>5 DEF BlankCell
    <3>2. Shown(n)' = term_buffer'[n]
      BY <3>1, ShownNext
    <3> QED
      BY <1>1, <2>1, <2>2, <2>3, <3>1, <3>2
  <2> QED
    BY <2>4, <2>5
<1> QED
  BY <1>2, SameShown

\* The window between calls, and with a character put at the cursor.
LEMMA IdleWindow ==
  ASSUME pc = "idle"
  PROVE  Window = [y \in Rows |-> [x \in Columns |-> term_buffer[y * Width + x]]]
  BY WindowIs, ShownIs, Place

LEMMA IdleWindowNext ==
  ASSUME pc' = "idle"
  PROVE  Window' = [y \in Rows |-> [x \in Columns |-> term_buffer'[y * Width + x]]]
  BY WindowIs, ShownNext, Place

LEMMA WrittenIs ==
  ASSUME TypeOK, pc = "idle", NEW c, PutAtCursor(c)
  PROVE  Abs!Written(Window, c) =
           [y \in Rows |-> [x \in Columns |-> term_buffer'[y * Width + x]]]
<1> DEFINE old == [y \in Rows |-> [x \in Columns |-> term_buffer[y * Width + x]]]
           new == [y \in Rows |-> [x \in Columns |-> term_buffer'[y * Width + x]]]
<1>1. term_row \in Rows /\ term_column \in Columns
  BY DEF TypeOK, Rows, Columns
<1>2. ASSUME NEW y \in Rows, NEW x \in Columns
      PROVE  new[y][x] = IF y = term_row /\ x = term_column THEN vga_entry(c)
                                                           ELSE old[y][x]
  <2>1. y * Width + x \in Cells /\ term_row * Width + term_column \in Cells
    BY <1>1, Place
  <2>2. y * Width + x = term_row * Width + term_column <=> y = term_row /\ x = term_column
    BY <1>1, Distinct
  <2> QED
    BY <2>1, <2>2 DEF PutAtCursor, TypeOK
<1>3. Abs!Written(old, c) = [old EXCEPT ![term_row] = [@ EXCEPT ![term_column] = vga_entry(c)]]
  BY DEF Abs!Written, vga_entry
<1>4. DOMAIN old = Rows /\ DOMAIN new = Rows
  OBVIOUS
<1>5. \A y \in Rows : /\ old[y] = [x \in Columns |-> old[y][x]]
                      /\ new[y] = [x \in Columns |-> new[y][x]]
  OBVIOUS
<1>6. old = [y \in Rows |-> old[y]] /\ new = [y \in Rows |-> new[y]]
  OBVIOUS
<1>7. Window = old
  BY IdleWindow
<1> HIDE DEF old, new
<1>8. ASSUME NEW y \in Rows
      PROVE  new[y] = IF y = term_row
                      THEN [old[y] EXCEPT ![term_column] = vga_entry(c)]
                      ELSE old[y]
  <2>1. CASE y = term_row
    <3>1. new[y] = [x \in Columns |-> IF x = term_column THEN vga_entry(c) ELSE old[y][x]]
      BY <1>2, <1>5, <2>1
    <3>2. old[y] = [x \in Columns |-> old[y][x]]
      BY <1>5
    <3> QED
      BY <1>1, <2>1, <3>1, <3>2
  <2>2. CASE y # term_row
    <3>1. new[y] = [x \in Columns |-> old[y][x]]
      BY <1>2, <1>5, <2>2
    <3> QED
      BY <1>5, <2>2, <3>1
  <2> QED
    BY <2>1, <2>2
<1>9. new = [old EXCEPT ![term_row] = [@ EXCEPT ![term_column] = vga_entry(c)]]
  BY <1>1, <1>4, <1>6, <1>8
<1> QED
  BY <1>3, <1>7, <1>9 DEF new

\* newline_callback, after a step that leaves the buffer's cells as they are in w.
LEMMA NewlineRefines ==
  ASSUME TypeOK, pc = "idle", Newline, term_color' = term_color, NEW w,
         w = [y \in Rows |-> [x \in Columns |-> term_buffer'[y * Width + x]]]
  PROVE  Abs!NextRow(w)
<1>1. CASE term_row + 1 >= Height
  <2>1. /\ term_row = Height - 1 /\ term_row' = Height - 1 /\ term_column' = 0
        /\ pc' = "copy" /\ i' = 0
    BY <1>1 DEF Newline, RowFull, TypeOK
  <2>2. ASSUME NEW y \in Rows
        PROVE  [x \in Columns |-> Shown(y * Width + x)'] =
                 IF y = Height - 1 THEN Abs!BlankRow(term_color) ELSE w[y + 1]
    <3>1. \A n \in Cells : Shown(n)' = IF n < LastRow THEN term_buffer'[n + Width]
                                       ELSE vga_entry(Space)
      <4> SUFFICES ASSUME NEW n \in Cells
                   PROVE  Shown(n)' = IF n < LastRow THEN term_buffer'[n + Width]
                                      ELSE vga_entry(Space)
        OBVIOUS
      <4>1. ~(n < 0)
        BY Sizes
      <4>2. vga_entry(Space)' = vga_entry(Space)
        BY DEF vga_entry
      <4> QED
        BY <2>1, <4>1, <4>2, ShownNext
    <3>2. CASE y = Height - 1
      <4>1. \A x \in Columns : Shown(y * Width + x)' = vga_entry(Space)
        <5> SUFFICES ASSUME NEW x \in Columns
                     PROVE  Shown(y * Width + x)' = vga_entry(Space)
          OBVIOUS
        <5>1. y * Width + x \in Cells /\ y * Width + x = LastRow + x /\ x \in Nat
          BY <3>2, Place DEF Columns
        <5>2. ~(y * Width + x < LastRow)
          BY <5>1, Sizes
        <5> QED
          BY <3>1, <5>1, <5>2
      <4> QED
        BY <3>2, <4>1, AbsNames DEF Abs!BlankRow, vga_entry
    <3>3. CASE y # Height - 1
      <4>1. y < Height - 1 /\ y + 1 \in Rows
        BY <3>3 DEF Rows
      <4>2. \A x \in Columns : Shown(y * Width + x)' = term_buffer'[(y + 1) * Width + x]
        BY <3>1, <4>1, Place
      <4>3. w[y + 1] = [x \in Columns |-> term_buffer'[(y + 1) * Width + x]]
        BY <4>1
      <4> QED
        BY <3>3, <4>2, <4>3
    <3> QED
      BY <3>2, <3>3
  <2>3. Window' = Abs!Scrolled(w)
    BY <2>2, WindowIs, AbsNames DEF Abs!Scrolled
  <2> QED
    BY <2>1, <2>3 DEF Abs!NextRow
<1>2. CASE ~(term_row + 1 >= Height)
  <2>1. /\ term_row' = term_row + 1 /\ term_column' = 0 /\ pc' = "idle"
        /\ term_row < Height - 1
    BY <1>2 DEF Newline, RowFull, TypeOK
  <2>2. Window' = w
    BY <2>1, IdleWindowNext
  <2> QED
    BY <2>1, <2>2 DEF Abs!NextRow
<1> QED
  BY <1>1, <1>2

LEMMA InitRefines ==
  ASSUME Init
  PROVE  Abs!Init
<1>1. \A n \in Cells : term_buffer[n] = vga_entry(Space)
  BY DEF Init
<1>2. Window = [y \in Rows |-> [x \in Columns |-> vga_entry(Space)]]
  BY <1>1, IdleWindow, Place DEF Init
<1>3. Window = [y \in Rows |-> Abs!BlankRow(term_color)]
  BY <1>2, AbsNames DEF Abs!BlankRow, vga_entry
<1> QED
  BY <1>3, AbsNames DEF Init, Abs!Init

LEMMA StepRefines ==
  ASSUME TypeOK, [Next]_vars
  PROVE  [Abs!Next]_(Abs!vars)
<1>1. ASSUME NEW c \in Chars, PutInside(c)
      PROVE  Abs!Put(c)
  <2>1. /\ pc = "idle" /\ pc' = "idle" /\ PutAtCursor(c)
        /\ term_column < Width - 1 /\ term_column' = term_column + 1
        /\ term_row' = term_row /\ term_color' = term_color
    BY <1>1 DEF PutInside, TypeOK
  <2>2. Window' = Abs!Written(Window, c)
    BY <2>1, WrittenIs, IdleWindowNext
  <2> QED
    BY <2>1, <2>2 DEF Abs!Put
<1>2. ASSUME NEW c \in Chars, PutWraps(c)
      PROVE  Abs!Put(c)
  <2>1. /\ pc = "idle" /\ PutAtCursor(c) /\ Newline
        /\ term_column = Width - 1 /\ term_color' = term_color
    BY <1>2 DEF PutWraps, TypeOK
  <2>2. Abs!NextRow(Abs!Written(Window, c))
    BY <2>1, WrittenIs, NewlineRefines
  <2> QED
    BY <2>1, <2>2 DEF Abs!Put
<1>3. CASE Enter
  <2>1. /\ pc = "idle" /\ Newline /\ term_color' = term_color
        /\ term_buffer' = term_buffer
    BY <1>3 DEF Enter
  <2>2. Window = [y \in Rows |-> [x \in Columns |-> term_buffer'[y * Width + x]]]
    BY <2>1, IdleWindow
  <2>3. Abs!NextRow(Window)
    BY <2>1, <2>2, NewlineRefines
  <2> QED
    BY <2>1, <2>3 DEF Abs!Next, Abs!Enter
<1>4. CASE CopyCell \/ BlankCell
  <2>1. Window' = Window
    BY <1>4, CopyHides, BlankHides
  <2> QED
    BY <1>4, <2>1 DEF CopyCell, BlankCell, Abs!vars
<1>5. CASE Clean
  <2>1. /\ pc' = "idle" /\ UNCHANGED <<term_row, term_column, term_color>>
        /\ \A n \in Cells : term_buffer'[n] = vga_entry(Space)
    BY <1>5 DEF Clean
  <2>2. Window' = [y \in Rows |-> [x \in Columns |-> vga_entry(Space)]]
    BY <2>1, IdleWindowNext, Place
  <2>3. Window' = [y \in Rows |-> Abs!BlankRow(term_color)]
    BY <2>2, AbsNames DEF Abs!BlankRow, vga_entry
  <2> QED
    BY <2>1, <2>3, AbsNames DEF Abs!Next, Abs!Clean
<1>6. ASSUME ResetCursor \/ (\E c \in Colors : SetColor(c))
      PROVE  Abs!Next
  <2>1. /\ pc = "idle" /\ pc' = "idle" /\ term_buffer' = term_buffer
        /\ term_column' = term_column
    BY <1>6 DEF ResetCursor, SetColor
  <2>2. Window' = Window
    BY <2>1, IdleWindow, IdleWindowNext
  <2> QED
    BY <1>6, <2>1, <2>2 DEF ResetCursor, SetColor, Abs!Next, Abs!Home, Abs!SetColor
<1>7. CASE UNCHANGED vars
  <2>1. \A n \in Cells : Shown(n)' = Shown(n)
    BY <1>7 DEF vars, Shown, vga_entry
  <2>2. Window' = Window
    BY <2>1, SameShown
  <2> QED
    BY <1>7, <2>2 DEF vars, Abs!vars
<1> QED
  BY <1>1, <1>2, <1>3, <1>4, <1>5, <1>6, <1>7 DEF Next, Abs!Next

\* For every size of the screen, the flat buffer with its cursor implements the
\* console: the copying of the buffer onto itself moves every row up by one, and
\* wrapping and scrolling put each character where the cursor is.
THEOREM TerminalImplementsConsole == Spec => ImplementsConsole
  BY TypeCorrect, InitRefines, StepRefines, PTL DEF Spec, ImplementsConsole, Abs!Spec

-----------------------------------------------------------------------------
(* Sequences *)

\* A sequence that is given element by element.
LEMMA IsSequence ==
  ASSUME NEW S, NEW n \in Nat, NEW f \in [1 .. n -> S]
  PROVE  f \in Seq(S) /\ Len(f) = n
  OBVIOUS

LEMMA InDomain ==
  ASSUME NEW S, NEW q \in Seq(S), NEW n \in DOMAIN q
  PROVE  n \in 1 .. Len(q) /\ q[n] \in S
  OBVIOUS

LEMMA Beginning ==
  ASSUME NEW S, NEW s \in Seq(S), NEW n \in 0 .. Len(s)
  PROVE  /\ SubSeq(s, 1, n) \in Seq(S)
         /\ Len(SubSeq(s, 1, n)) = n
         /\ \A k \in 1 .. n : SubSeq(s, 1, n)[k] = s[k]
  OBVIOUS

LEMMA LineType ==
  ASSUME input_buffer \in [0 .. BufLen - 1 -> Keys], NEW n \in 0 .. BufLen
  PROVE  /\ Line(n) \in Seq(Keys) /\ Len(Line(n)) = n
         /\ \A k \in 1 .. n : Line(n)[k] = input_buffer[k - 1]
<1> USE LineAssumption
<1>1. \A k \in 1 .. n : k - 1 \in 0 .. BufLen - 1
  OBVIOUS
<1>2. Line(n) \in [1 .. n -> Keys]
  BY <1>1 DEF Line
<1> QED
  BY <1>2, IsSequence DEF Line

LEMMA WriteType ==
  ASSUME NEW s \in Seq(Chars)
  PROVE  Write(s) \in Seq(Operations)
<1>1. DOMAIN s = 1 .. Len(s) /\ Len(s) \in Nat /\ \A n \in 1 .. Len(s) : s[n] \in Chars
  BY LenProperties, ElementOfSeq
<1>2. \A n \in 1 .. Len(s) : Put(s[n]) \in Operations
  BY <1>1 DEF Operations
<1>3. Write(s) \in [1 .. Len(s) -> Operations]
  BY <1>1, <1>2 DEF Write
<1> QED
  BY <1>1, <1>3, IsSequence

LEMMA Operation ==
  /\ NewLine \in Operations
  /\ \A c \in Colors : Color(c) \in Operations
  /\ Grey \in Colors /\ Red \in Colors
  /\ \A s : s \in Seq(Keys) => s \in Seq(Chars)
  /\ Prefix \in Seq(Chars) /\ Message \in Seq(Chars)
<1>1. Keys \subseteq Chars
  BY NameAssumption
<1>2. \A s : s \in Seq(Keys) => s \in Seq(Chars)
  BY <1>1, SeqMonotonic
<1> QED
  BY <1>2, NameAssumption DEF Operations

-----------------------------------------------------------------------------
(* The shell only uses the terminal *)

LEMMA ShellInitType == ShellInit => ShellTypeOK /\ LineInStep
<1> SUFFICES ASSUME ShellInit PROVE ShellTypeOK /\ LineInStep
  OBVIOUS
<1> USE DEF ShellInit
<1>1. TypeOK
  BY InitType
<1>2. todo \in Seq(Operations)
  BY WriteType, Operation
<1>3. /\ input_buffer \in [0 .. BufLen - 1 -> Keys] /\ input_index \in 0 .. IndexMod - 1
      /\ typed \in Seq(Keys) /\ overrun \in BOOLEAN
  <2>1. Nul \in Keys /\ BufLen \in Nat \ {0} /\ IndexMod = BufLen + 1
    BY LineAssumption, NameAssumption
  <2>2. typed \in Seq(Keys)
    BY EmptySeq
  <2>3. input_buffer \in [0 .. BufLen - 1 -> Keys]
    BY <2>1
  <2>4. input_index \in 0 .. IndexMod - 1
    BY <2>1
  <2> QED
    BY <2>2, <2>3, <2>4
<1>4. running \in Nothing .. Len(Names)
  BY NameAssumption DEF Nothing
<1>5. typed = Line(input_index)
  BY LineType, <1>3, LineAssumption, SeqEqual
<1> QED
  BY <1>1, <1>2, <1>3, <1>4, <1>5 DEF ShellTypeOK, LineInStep

\* What is written next is an operation of the terminal's.
LEMMA PerformIsNext ==
  ASSUME NEW op \in Operations, Perform(op)
  PROVE  Next
<1>1. CASE op \in {Put(c) : c \in Chars}
  <2>1. PICK c \in Chars : op = <<"put", c>>
    BY <1>1 DEF Put
  <2> QED
    BY <2>1 DEF Perform, Next
<1>2. CASE op \in {Color(c) : c \in Colors}
  <2>1. PICK c \in Colors : op = <<"color", c>>
    BY <1>2 DEF Color
  <2> QED
    BY <2>1 DEF Perform, Next
<1>3. CASE op = <<"newline">>
  BY <1>3 DEF Perform, Next
<1>4. CASE op = <<"home">>
  BY <1>4 DEF Perform, Next
<1>5. CASE op = <<"clean">>
  BY <1>5 DEF Perform, Next
<1> QED
  BY <1>1, <1>2, <1>3, <1>4, <1>5 DEF Operations, NewLine, ResetRow, Cls

\* Each step of the shell is one of the terminal's, or leaves the screen alone.
LEMMA ShellStep ==
  ASSUME ShellTypeOK, [ShellNext]_shellVars
  PROVE  [Next]_vars
<1>1. CASE Output
  <2>1. Head(todo) \in Operations
    BY <1>1, HeadTailProperties DEF ShellTypeOK, Output
  <2> QED
    BY <1>1, <2>1, PerformIsNext DEF Output
<1>2. CASE Scroll
  BY <1>2 DEF Scroll, Next
<1>3. CASE (\E ch \in Keys : Type(ch)) \/ Backspace \/ (\E j \in 0 .. Len(Names) : Parse(j))
  BY <1>3 DEF Type, Backspace, Parse
<1>4. CASE UNCHANGED shellVars
  BY <1>4 DEF shellVars
<1> QED
  BY <1>1, <1>2, <1>3, <1>4 DEF ShellNext

\* The programs' operations, and the shell's own.
LEMMA ParseTodo ==
  ASSUME NEW j \in 0 .. Len(Names), Parse(j)
  PROVE  /\ todo' \in Seq(Operations)
         /\ \E h \in Seq(Operations) : todo' = h \o Write(Prefix)
<1>1. <<NewLine>> \in Seq(Operations) /\ <<Color(Red)>> \in Seq(Operations)
                                     /\ <<Color(Grey)>> \in Seq(Operations)
  BY Operation
<1>2. Write(Prefix) \in Seq(Operations) /\ Write(Message) \in Seq(Operations)
  BY Operation, WriteType
<1>3. j # 0 => Effects[j] \in Seq(Operations)
  <2>1. DOMAIN Names = 1 .. Len(Names)
    BY NameAssumption, LenProperties
  <2> QED
    BY <2>1, EffectsAssumption
<1> DEFINE Shows == IF j = 0 THEN <<Color(Red)>> \o Write(Message) \o <<Color(Grey)>> ELSE Effects[j]
<1>4. <<Color(Red)>> \o Write(Message) \in Seq(Operations)
  BY <1>1, <1>2, ConcatProperties
<1>5. (<<Color(Red)>> \o Write(Message)) \o <<Color(Grey)>> \in Seq(Operations)
  BY <1>1, <1>4, ConcatProperties
<1>6. Shows \in Seq(Operations)
  BY <1>3, <1>5
<1>7. todo' = <<NewLine>> \o Shows \o <<NewLine>> \o Write(Prefix)
  BY DEF Parse
<1> HIDE DEF Shows
<1>8. <<NewLine>> \o Shows \in Seq(Operations)
  BY <1>1, <1>6, ConcatProperties
<1>9. (<<NewLine>> \o Shows) \o <<NewLine>> \in Seq(Operations)
  BY <1>1, <1>8, ConcatProperties
<1> QED
  BY <1>2, <1>7, <1>9, ConcatProperties

LEMMA BackspaceStep ==
  ASSUME ShellTypeOK, LineInStep, Backspace
  PROVE  /\ todo' \in Seq(Operations) /\ typed' \in Seq(Keys)
         /\ input_index' \in 0 .. IndexMod - 1
         /\ ~overrun => typed' = Line(input_index)'
<1> DEFINE n == input_index - 1
<1>1. n \in 0 .. BufLen /\ n + 1 \in 0 .. BufLen /\ input_index \in Nat /\ input_index' = n
  BY LineAssumption DEF ShellTypeOK, Backspace
<1>2. todo' = <<NewLine>> \o Write(Prefix) \o Write(Line(n))
  BY DEF Backspace
<1>3. Line(n) \in Seq(Keys) /\ Line(n + 1) \in Seq(Keys) /\ Len(Line(n + 1)) = n + 1 /\ Len(Line(n)) = n
  BY <1>1, LineType DEF ShellTypeOK
<1>4. Write(Line(n)) \in Seq(Operations) /\ Write(Prefix) \in Seq(Operations)
  BY <1>3, Operation, WriteType
<1>5. <<NewLine>> \o Write(Prefix) \in Seq(Operations)
  BY <1>4, Operation, ConcatProperties
<1>6. todo' \in Seq(Operations)
  BY <1>2, <1>4, <1>5, ConcatProperties
<1>7. typed \in Seq(Keys)
  BY DEF ShellTypeOK
<1>8. typed' = IF typed = <<>> THEN typed ELSE Front(typed)
  BY DEF Backspace
<1>9. typed # <<>> => /\ Front(typed) \in Seq(Keys) /\ Len(Front(typed)) = Len(typed) - 1
                      /\ \A k \in 1 .. Len(typed) - 1 : Front(typed)[k] = typed[k]
  <2> SUFFICES ASSUME typed # <<>>
               PROVE  /\ Front(typed) \in Seq(Keys) /\ Len(Front(typed)) = Len(typed) - 1
                      /\ \A k \in 1 .. Len(typed) - 1 : Front(typed)[k] = typed[k]
    OBVIOUS
  <2>1. Len(typed) \in Nat \ {0}
    BY <1>7, EmptySeq
  <2>2. Len(typed) - 1 \in 0 .. Len(typed)
    BY <2>1
  <2> QED
    BY <1>7, <2>2, Beginning DEF Front
<1>10. ASSUME ~overrun PROVE typed' = Line(input_index)'
  <2>1. typed = Line(n + 1)
    BY <1>1, <1>10 DEF LineInStep
  <2>2. Len(typed) = n + 1 /\ typed # <<>>
    BY <2>1, <1>1, <1>3, EmptySeq
  <2>3. \A k \in 1 .. n : Front(typed)[k] = Line(n)[k]
    <3>1. \A k \in 1 .. n + 1 : Line(n + 1)[k] = input_buffer[k - 1]
      BY <1>1, LineType DEF ShellTypeOK
    <3>2. \A k \in 1 .. n : Line(n)[k] = input_buffer[k - 1]
      BY <1>1, LineType DEF ShellTypeOK
    <3>3. \A k \in 1 .. n : k \in 1 .. n + 1 /\ k \in 1 .. Len(typed) - 1
      BY <1>1, <2>2
    <3>4. \A k \in 1 .. n : Front(typed)[k] = typed[k]
      BY <3>3, <2>2, <1>9
    <3>5. \A k \in 1 .. n : typed[k] = Line(n + 1)[k]
      BY <2>1
    <3> HIDE DEF n
    <3> QED
      BY <3>1, <3>2, <3>3, <3>4, <3>5
  <2>4. Front(typed) = Line(n)
    BY <2>2, <2>3, <1>1, <1>3, <1>9, SeqEqual
  <2>5. Line(input_index)' = Line(n)
    BY <1>1 DEF Line, Backspace
  <2> QED
    BY <2>2, <2>4, <2>5, <1>8
<1> QED
  BY <1>1, <1>6, <1>7, <1>8, <1>9, <1>10, LineAssumption

LEMMA TypeStep ==
  ASSUME ShellTypeOK, LineInStep, NEW ch \in Keys, Type(ch)
  PROVE  /\ todo' \in Seq(Operations) /\ typed' \in Seq(Keys)
         /\ input_index' \in 0 .. IndexMod - 1
         /\ input_buffer' \in [0 .. BufLen - 1 -> Keys] /\ overrun' \in BOOLEAN
         /\ ~overrun' => typed' = Line(input_index)'
<1> USE LineAssumption DEF ShellTypeOK
<1>1. <<ch>> \in Seq(Chars)
  BY NameAssumption
<1>2. todo' \in Seq(Operations)
  BY <1>1, WriteType DEF Type
<1>3. /\ typed' = Append(typed, ch) /\ typed' \in Seq(Keys) /\ Len(typed') = Len(typed) + 1
      /\ \A k \in 1 .. Len(typed) : typed'[k] = typed[k]
      /\ typed'[Len(typed) + 1] = ch
      /\ Len(typed) \in Nat
  <2>1. typed' = Append(typed, ch) /\ typed \in Seq(Keys)
    BY DEF Type
  <2> QED
    BY <2>1, AppendProperties, LenProperties
<1>4. CASE input_index < BufLen /\ input_index' = input_index + 1 /\ UNCHANGED overrun
           /\ input_buffer' = [input_buffer EXCEPT ![input_index] = ch]
  <2>1. input_index \in 0 .. BufLen - 1 /\ input_index' \in 0 .. BufLen
    BY <1>4
  <2>2. input_buffer' \in [0 .. BufLen - 1 -> Keys]
    BY <1>4, <2>1
  <2>3. ASSUME ~overrun' PROVE typed' = Line(input_index)'
    <3> DEFINE n == input_index'
    <3>1. /\ Line(input_index)' \in Seq(Keys) /\ Len(Line(input_index)') = n
          /\ \A k \in 1 .. n : Line(input_index)'[k] = input_buffer'[k - 1]
      <4>1. Line(input_index)' \in [1 .. n -> Keys] /\ \A k \in 1 .. n : Line(input_index)'[k] = input_buffer'[k - 1]
        <5>1. \A k \in 1 .. n : k - 1 \in 0 .. BufLen - 1
          BY <2>1
        <5>2. Line(input_index)' = [k \in 1 .. n |-> input_buffer'[k - 1]]
          BY DEF Line
        <5> QED
          BY <5>1, <5>2, <2>2
      <4> QED
        BY <4>1, <2>1, IsSequence
    <3>2. typed = Line(input_index)
      BY <2>3, <1>4 DEF LineInStep
    <3>3. /\ Len(typed) = input_index
          /\ \A k \in 1 .. input_index : typed[k] = input_buffer[k - 1]
      <4>1. input_index \in 0 .. BufLen
        BY <2>1
      <4> QED
        BY <3>2, <4>1, LineType
    <3>4. \A k \in 1 .. n : typed'[k] = Line(input_index)'[k]
      BY <3>1, <3>3, <1>3, <1>4, <2>1
    <3>5. Len(typed') = Len(Line(input_index)')
      BY <3>1, <3>3, <1>3, <1>4
    <3> HIDE DEF n
    <3>6. typed' = Line(input_index)'
      BY <3>1, <3>4, <3>5, <1>3, SeqEqual
    <3> QED
      BY <3>6 DEF n
  <2> QED
    BY <1>2, <1>3, <1>4, <2>1, <2>2, <2>3
<1>5. CASE input_index = BufLen /\ overrun' = TRUE /\ input_index' \in 0 .. IndexMod - 1
           /\ UNCHANGED input_buffer
  BY <1>2, <1>3, <1>5
<1> QED
  BY <1>4, <1>5 DEF Type

LEMMA ShellNextType ==
  ASSUME ShellTypeOK, LineInStep, [ShellNext]_shellVars
  PROVE  ShellTypeOK' /\ LineInStep'
<1>1. TypeOK'
  BY ShellStep, NextType DEF ShellTypeOK
<1>2. CASE Output
  <2>1. Tail(todo) \in Seq(Operations)
    BY <1>2, HeadTailProperties DEF ShellTypeOK, Output
  <2> QED
    BY <1>1, <1>2, <2>1 DEF ShellTypeOK, LineInStep, Line, line, Output
<1>3. CASE Scroll
  BY <1>1, <1>3 DEF ShellTypeOK, LineInStep, Line, line, Scroll
<1>4. ASSUME NEW ch \in Keys, Type(ch) PROVE ShellTypeOK' /\ LineInStep'
  <2>1. running' \in Nothing .. Len(Names)
    BY <1>4, NameAssumption, LenProperties DEF Type, Nothing
  <2> QED
    BY <1>1, <1>4, <2>1, TypeStep DEF ShellTypeOK, LineInStep
<1>5. CASE Backspace
  <2>1. running' \in Nothing .. Len(Names)
    BY <1>5, NameAssumption, LenProperties DEF Backspace, Nothing
  <2>2. UNCHANGED <<input_buffer, overrun>>
    BY <1>5 DEF Backspace
  <2> QED
    BY <1>1, <1>5, <2>1, <2>2, BackspaceStep DEF ShellTypeOK, LineInStep
<1>6. ASSUME NEW j \in 0 .. Len(Names), Parse(j) PROVE ShellTypeOK' /\ LineInStep'
  <2>1. running' \in Nothing .. Len(Names)
    BY <1>6, NameAssumption, LenProperties DEF Parse, Nothing
  <2>2. input_index' = 0 /\ typed' = <<>> /\ overrun' = FALSE /\ UNCHANGED input_buffer
    BY <1>6 DEF Parse
  <2>3. typed' = Line(input_index)'
    BY <2>2 DEF Line
  <2>4. typed' \in Seq(Keys) /\ input_index' \in 0 .. IndexMod - 1
    BY <2>2, EmptySeq, LineAssumption
  <2> QED
    BY <1>1, <1>6, <2>1, <2>2, <2>3, <2>4, ParseTodo DEF ShellTypeOK, LineInStep
<1>7. CASE UNCHANGED shellVars
  BY <1>1, <1>7 DEF ShellTypeOK, LineInStep, Line, line, shellVars
<1> QED
  BY <1>2, <1>3, <1>4, <1>5, <1>6, <1>7 DEF ShellNext

\* For every screen, buffer, table of names and all that programs write, the
\* cursor stays on the screen and the index inside its eight bits, whatever is
\* typed and run, also when a line goes behind the buffer.
THEOREM ShellTypeCorrect == ShellSpec => []ShellTypeOK
BY ShellInitType, ShellNextType, PTL DEF ShellSpec

\* The buffer holds what was typed and not taken back.
THEOREM LineIsTyped == ShellSpec => []LineInStep
BY ShellInitType, ShellNextType, PTL DEF ShellSpec

\* The shell, whatever programs write, only uses the terminal.
THEOREM ShellUsesTerminal == ShellSpec => Spec
<1>1. ShellInit => Init
  BY DEF ShellInit
<1> QED
  BY <1>1, ShellStep, ShellTypeCorrect, PTL DEF ShellSpec, Spec

\* Under the shell the flat buffer implements the console, as it does under any
\* other user.
THEOREM ShellImplementsConsole == ShellSpec => ImplementsConsole
BY ShellUsesTerminal, TerminalImplementsConsole, PTL

-----------------------------------------------------------------------------
(* The table of programs *)

\* A line without Nul that agrees with a name begins it.
LEMMA AgreesIsPrefix ==
  ASSUME NEW j \in DOMAIN Names, Line(input_index) \in Seq(Keys), Nul \notin ToSet(Line(input_index)),
         Agrees(j)
  PROVE  IsPrefix(Line(input_index), Names[j])
<1> DEFINE l == Line(input_index)
<1> DEFINE name == Names[j]
<1>1. /\ name \in Seq(Chars \ {Nul}) /\ name \in Seq(Chars) /\ Nul \in Chars /\ l \in Seq(Chars)
      /\ Len(name) \in Nat /\ Len(l) \in Nat
  <2>1. name \in Seq(Chars \ {Nul})
    BY NameAssumption, InDomain
  <2>2. Chars \ {Nul} \subseteq Chars /\ Keys \subseteq Chars /\ Nul \in Chars
    BY NameAssumption
  <2> QED
    BY <2>1, <2>2, SeqMonotonic, LenProperties
<1>2. \A n \in 1 .. Len(l) : l[n] # Nul
  BY <1>1, LenProperties DEF ToSet
<1> HIDE DEF l, name
<1>3. /\ Append(name, Nul) \in Seq(Chars) /\ Len(Append(name, Nul)) = Len(name) + 1
      /\ \A n \in 1 .. Len(name) : Append(name, Nul)[n] = name[n]
      /\ Append(name, Nul)[Len(name) + 1] = Nul
  BY <1>1, AppendProperties
<1> DEFINE stored == Append(name, Nul)
<1> HIDE DEF stored
<1>4. IsPrefix(l, stored) \/ IsPrefix(stored, l)
  BY DEF Agrees, Stored, l, name, stored
<1>5. Len(l) <= Len(name) /\ \A n \in 1 .. Len(l) : l[n] = name[n]
  <2>1. CASE IsPrefix(l, stored)
    <3>1. Len(l) <= Len(stored) /\ SubSeq(l, 1, Len(l)) = SubSeq(stored, 1, Len(l))
      BY <2>1 DEF IsPrefix
    <3>2. \A n \in 1 .. Len(l) : l[n] = stored[n]
      BY <3>1, <1>1, <1>3, Beginning DEF stored
    <3>3. Len(l) # Len(name) + 1
      BY <3>2, <1>1, <1>2, <1>3 DEF stored
    <3> QED
      BY <3>1, <3>2, <3>3, <1>1, <1>3 DEF stored
  <2>2. CASE IsPrefix(stored, l)
    <3>1. Len(stored) <= Len(l) /\ SubSeq(stored, 1, Len(stored)) = SubSeq(l, 1, Len(stored))
      BY <2>2 DEF IsPrefix
    <3>2. \A n \in 1 .. Len(stored) : l[n] = stored[n]
      BY <3>1, <1>1, <1>3, Beginning DEF stored
    <3>3. l[Len(name) + 1] = Nul /\ Len(name) + 1 \in 1 .. Len(l)
      BY <3>1, <3>2, <1>1, <1>3 DEF stored
    <3> QED
      BY <3>3, <1>2
  <2> QED
    BY <1>4, <2>1, <2>2
<1>6. SubSeq(l, 1, Len(l)) = SubSeq(name, 1, Len(l))
  <2>1. Len(l) \in 0 .. Len(l) /\ Len(l) \in 0 .. Len(name)
    BY <1>1, <1>5
  <2>2. /\ SubSeq(l, 1, Len(l)) \in Seq(Chars) /\ Len(SubSeq(l, 1, Len(l))) = Len(l)
        /\ \A n \in 1 .. Len(l) : SubSeq(l, 1, Len(l))[n] = l[n]
    BY <1>1, <2>1, Beginning
  <2>3. /\ SubSeq(name, 1, Len(l)) \in Seq(Chars) /\ Len(SubSeq(name, 1, Len(l))) = Len(l)
        /\ \A n \in 1 .. Len(l) : SubSeq(name, 1, Len(l))[n] = name[n]
    BY <1>1, <2>1, Beginning
  <2> QED
    BY <1>5, <2>2, <2>3, SeqEqual
<1> QED
  BY <1>5, <1>6 DEF IsPrefix, l, name

\* A name agrees with itself.
LEMMA NameAgrees ==
  ASSUME NEW j \in DOMAIN Names, Line(input_index) = Names[j], input_index \in Nat,
         Len(Line(input_index)) = input_index
  PROVE  /\ Agrees(j) /\ Inside(j)
         /\ Line(input_index) \in Seq(Chars) /\ Nul \notin ToSet(Line(input_index))
<1> DEFINE name == Names[j]
<1>1. /\ name \in Seq(Chars \ {Nul}) /\ name \in Seq(Chars) /\ Nul \in Chars
      /\ Len(name) \in Nat
  <2>1. name \in Seq(Chars \ {Nul})
    BY NameAssumption, InDomain
  <2>2. Chars \ {Nul} \subseteq Chars /\ Keys \subseteq Chars /\ Nul \in Chars
    BY NameAssumption
  <2> QED
    BY <2>1, <2>2, SeqMonotonic, LenProperties
<1> HIDE DEF name
<1>2. /\ Append(name, Nul) \in Seq(Chars) /\ Len(Append(name, Nul)) = Len(name) + 1
      /\ \A n \in 1 .. Len(name) : Append(name, Nul)[n] = name[n]
  BY <1>1, AppendProperties
<1>3. Len(name) \in 0 .. Len(name) /\ Len(name) \in 0 .. Len(Append(name, Nul))
  BY <1>1, <1>2
<1>4. SubSeq(name, 1, Len(name)) = SubSeq(Append(name, Nul), 1, Len(name))
  <2>1. /\ SubSeq(name, 1, Len(name)) \in Seq(Chars) /\ Len(SubSeq(name, 1, Len(name))) = Len(name)
        /\ \A n \in 1 .. Len(name) : SubSeq(name, 1, Len(name))[n] = name[n]
    BY <1>1, <1>3, Beginning
  <2> DEFINE stored == Append(name, Nul)
  <2> HIDE DEF stored
  <2>2. /\ SubSeq(stored, 1, Len(name)) \in Seq(Chars) /\ Len(SubSeq(stored, 1, Len(name))) = Len(name)
        /\ \A n \in 1 .. Len(name) : SubSeq(stored, 1, Len(name))[n] = stored[n]
    BY <1>2, <1>3, Beginning DEF stored
  <2>3. \A n \in 1 .. Len(name) : stored[n] = name[n]
    BY <1>2 DEF stored
  <2> QED
    BY <2>1, <2>2, <2>3, SeqEqual DEF stored
<1>5. IsPrefix(name, Append(name, Nul))
  BY <1>2, <1>4, <1>1 DEF IsPrefix
<1>6. Agrees(j) /\ Inside(j)
  BY <1>1, <1>2, <1>5 DEF Agrees, Inside, Stored, name
<1>7. Nul \notin ToSet(name)
  BY <1>1, InDomain DEF ToSet
<1> QED
  BY <1>1, <1>6, <1>7 DEF name

LEMMA ParseRuns ==
  ASSUME ShellTypeOK, LineInStep, ~overrun, NEW j \in 0 .. Len(Names), Parse(j)
  PROVE  Runs(typed, j)
<1>1. typed = Line(input_index) /\ input_index \in 0 .. BufLen /\ typed \in Seq(Keys)
  BY LineAssumption DEF LineInStep, ShellTypeOK
<1>2. Len(typed) = input_index /\ input_index \in Nat
  BY <1>1, LineType, LineAssumption DEF ShellTypeOK
<1>3. DOMAIN Names = 1 .. Len(Names) /\ Len(Names) \in Nat
  BY NameAssumption, LenProperties
<1>4. /\ j # 0 => Agrees(j)
      /\ \A k \in DOMAIN Names : k < j \/ j = 0 => ~(Agrees(k) /\ Inside(k))
  BY DEF Parse, Found
<1>5. ASSUME NEW n \in DOMAIN Names, typed = Names[n],
             \A k \in 1 .. n - 1 : ~IsPrefix(Names[n], Names[k])
      PROVE  j = n
  <2>1. Agrees(n) /\ Inside(n) /\ Nul \notin ToSet(Line(input_index))
    BY <1>1, <1>2, <1>5, NameAgrees
  <2>2. j # 0 /\ j <= n
    BY <2>1, <1>3, <1>4
  <2>3. j \in DOMAIN Names
    BY <2>2, <1>3
  <2>4. IsPrefix(Names[n], Names[j])
    BY <2>1, <2>2, <2>3, <1>1, <1>4, <1>5, AgreesIsPrefix
  <2> QED
    BY <2>2, <2>3, <2>4, <1>3, <1>5
<1>6. ASSUME \A n \in DOMAIN Names : ~IsPrefix(typed, Names[n]), Nul \notin ToSet(typed)
      PROVE  j = 0
  <2>1. CASE j # 0
    <3>1. j \in DOMAIN Names /\ Agrees(j)
      BY <2>1, <1>3, <1>4
    <3> QED
      BY <3>1, <1>1, <1>6, AgreesIsPrefix
  <2> QED
    BY <2>1
<1> QED
  BY <1>5, <1>6 DEF Runs

\* For every table of names: the whole of a name runs its program, unless it
\* begins an earlier one, and what begins no name runs none, whatever earlier
\* lines left in the buffer.
THEOREM NamedProgramRuns == ShellSpec => RunsTheNamed
<1>1. ASSUME ShellTypeOK, LineInStep, [ShellNext]_shellVars
      PROVE  [running' \notin {running, Nothing} /\ ~overrun => Runs(typed, running')]_shellVars
  <2> SUFFICES ASSUME ShellNext, running' \notin {running, Nothing}, ~overrun
               PROVE  Runs(typed, running')
    BY <1>1
  <2>1. PICK j \in 0 .. Len(Names) : Parse(j)
    BY DEF ShellNext, Output, Scroll, line, Type, Backspace
  <2>2. running' = j
    BY <2>1 DEF Parse
  <2> QED
    BY <1>1, <2>1, <2>2, ParseRuns
<1> QED
  BY <1>1, ShellTypeCorrect, LineIsTyped, PTL DEF ShellSpec, RunsTheNamed

-----------------------------------------------------------------------------
(* What stands on the screen *)

Echo == Prefix \o typed
Cursor == term_row * Width + term_column

\* What is still to be written ends with the end of the echo, and what of the
\* echo is not to be written any more stands before the cursor.
Queued(t, e) ==
  \A k \in 1 .. Len(e) : k <= Len(t) => t[Len(t) + 1 - k] = Put(e[Len(e) + 1 - k])
Trails(left, e) ==
  \A k \in 1 .. Len(e) : k > left /\ k - left <= Cursor =>
    Shown(Cursor - (k - left)).ch = e[Len(e) + 1 - k]

EchoInv == ~overrun => Queued(todo, Echo) /\ Trails(Len(todo), Echo)

LEMMA EchoType ==
  ASSUME typed \in Seq(Keys)
  PROVE  Echo \in Seq(Chars) /\ Len(Echo) \in Nat /\ Len(Prefix) \in Nat
         /\ Len(Echo) = Len(Prefix) + Len(typed)
  BY Operation, ConcatProperties, LenProperties DEF Echo

\* A text behind whatever else is to be written.
LEMMA QueuedAtEnd ==
  ASSUME NEW h \in Seq(Operations), NEW e \in Seq(Chars), NEW t, t = h \o Write(e)
  PROVE  Queued(t, e) /\ Len(t) \in Nat /\ Len(e) \in Nat /\ Len(t) >= Len(e)
<1> DEFINE w == Write(e)
<1>1. w \in Seq(Operations) /\ Len(w) = Len(e) /\ Len(e) \in Nat /\ Len(h) \in Nat
      /\ \A n \in 1 .. Len(e) : w[n] = Put(e[n])
  BY WriteType, LenProperties DEF Write
<1>4. t = h \o w
  OBVIOUS
<1> HIDE DEF w
<1>2. /\ Len(t) = Len(h) + Len(w)
      /\ \A n \in 1 .. Len(t) : t[n] = IF n <= Len(h) THEN h[n] ELSE w[n - Len(h)]
  <2>1. w \in Seq(Operations)
    BY <1>1
  <2> QED
    BY <2>1, <1>4, ConcatProperties
<1>3. ASSUME NEW k \in 1 .. Len(e)
      PROVE  t[Len(t) + 1 - k] = Put(e[Len(e) + 1 - k])
  <2>1. /\ Len(t) + 1 - k \in 1 .. Len(t) /\ ~(Len(t) + 1 - k <= Len(h))
        /\ (Len(t) + 1 - k) - Len(h) = Len(e) + 1 - k /\ Len(e) + 1 - k \in 1 .. Len(e)
    BY <1>1, <1>2
  <2> QED
    BY <1>1, <1>2, <2>1
<1> QED
  BY <1>1, <1>2, <1>3 DEF Queued

\* Nothing of the echo has been written yet.
LEMMA NothingTrails ==
  ASSUME NEW left \in Nat, NEW e, Len(e) \in Nat, left >= Len(e)
  PROVE  Trails(left, e)
  BY DEF Trails

LEMMA ShellInitEcho == ShellInit => EchoInv
<1> SUFFICES ASSUME ShellInit PROVE EchoInv
  OBVIOUS
<1>1. Echo = Prefix /\ Prefix \in Seq(Chars)
  BY Operation, ConcatEmptySeq DEF ShellInit, Echo
<1>2. <<>> \in Seq(Operations) /\ todo = <<>> \o Write(Prefix)
  BY <1>1, WriteType, ConcatEmptySeq DEF ShellInit
<1>3. Queued(todo, Prefix) /\ Len(todo) \in Nat /\ Len(Prefix) \in Nat /\ Len(todo) >= Len(Prefix)
  BY <1>1, <1>2, QueuedAtEnd
<1> QED
  BY <1>1, <1>3, NothingTrails DEF EchoInv

LEMMA Before ==
  ASSUME NEW n \in Cells, NEW d \in Nat, d <= n
  PROVE  n - d \in Cells
<1>1. PICK last \in Nat : Cells = 0 .. last
  <2>1. LastRow + Width - 1 \in Nat
    BY Sizes, SizeAssumption
  <2> QED
    BY <2>1, Sizes
<1> QED
  BY <1>1

LEMMA SameShownEcho ==
  ASSUME UNCHANGED <<todo, typed, term_row, term_column, overrun>>,
         \A n \in Cells : Shown(n)' = Shown(n), ShellTypeOK, EchoInv
  PROVE  EchoInv'
<1>1. Echo' = Echo /\ Cursor' = Cursor /\ Len(Echo) \in Nat /\ Len(todo) \in Nat
  BY EchoType, LenProperties DEF Echo, Cursor, ShellTypeOK
<1>2. Cursor \in Cells
  BY Place DEF ShellTypeOK, TypeOK, Rows, Columns, Cursor
<1>3. \A d \in Nat : d <= Cursor => Cursor - d \in Cells
  BY <1>2, Before
<1>4. ~overrun => Trails(Len(todo), Echo)'
  <2> SUFFICES ASSUME ~overrun, NEW k \in 1 .. Len(Echo),
                      k > Len(todo), k - Len(todo) <= Cursor
               PROVE  Shown(Cursor - (k - Len(todo)))'.ch = Echo[Len(Echo) + 1 - k]
    BY <1>1 DEF Trails
  <2>1. Cursor - (k - Len(todo)) \in Cells
    BY <1>1, <1>3
  <2> QED
    BY <1>1, <2>1 DEF EchoInv, Trails
<1> QED
  BY <1>1, <1>4 DEF EchoInv, Queued

\* A character that is written leaves what stood before the cursor there.
LEMMA PutTrails ==
  ASSUME ShellTypeOK, NEW c \in Chars, PutInside(c) \/ PutWraps(c)
  PROVE  /\ Cursor' \in Nat
         /\ \A n \in Cells : n + 1 = Cursor' => Shown(n)'.ch = c
         /\ \A n \in Cells : n + 1 < Cursor' =>
              \E m \in Cells : Shown(n)' = Shown(m) /\ Cursor - m = (Cursor' - 1) - n
<1> USE SizeAssumption
<1>1. /\ pc = "idle" /\ term_row \in Rows /\ term_column \in Columns
      /\ Cursor \in Cells /\ Cursor \in Nat /\ term_row \in Nat /\ term_column \in Nat
      /\ term_buffer \in [Cells -> Entries]
  <2>1. pc = "idle" /\ term_row \in Rows /\ term_column \in Columns /\ term_buffer \in [Cells -> Entries]
    BY DEF ShellTypeOK, TypeOK, Rows, Columns, PutInside, PutWraps
  <2>2. Cursor \in Cells
    BY <2>1, Place DEF Cursor
  <2>3. Cursor \in Nat
    BY <2>2, Sizes
  <2> QED
    BY <2>1, <2>2, <2>3 DEF Rows, Columns
<1>2. /\ term_buffer' = [term_buffer EXCEPT ![Cursor] = vga_entry(c)]
  BY DEF PutInside, PutWraps, PutAtCursor, Cursor
<1>3. /\ term_buffer'[Cursor].ch = c
      /\ \A n \in Cells : n # Cursor => term_buffer'[n] = term_buffer[n]
  BY <1>1, <1>2 DEF vga_entry
<1>4. \A n \in Cells : Shown(n) = term_buffer[n]
  BY <1>1, ShownIs
<1>5. \A n \in Cells : n \in Nat /\ n <= LastRow + Width - 1
  BY Sizes
<1>6. CASE pc' = "idle" /\ Cursor' = Cursor + 1
  <2>1. \A n \in Cells : Shown(n)' = term_buffer'[n]
    BY <1>6, ShownNext
  <2>2. \A n \in Cells : n + 1 < Cursor' => n # Cursor
    BY <1>1, <1>5, <1>6
  <2>3. \A n \in Cells : n + 1 = Cursor' => n = Cursor
    BY <1>1, <1>5, <1>6
  <2>4. \A n \in Cells : n + 1 < Cursor' => Shown(n)' = Shown(n) /\ Cursor - n = (Cursor' - 1) - n
    BY <1>1, <1>3, <1>4, <1>5, <1>6, <2>1, <2>2
  <2>5. \A n \in Cells : n + 1 = Cursor' => Shown(n)'.ch = c
    BY <1>3, <2>1, <2>3
  <2>6. Cursor' \in Nat
    BY <1>1, <1>6
  <2> QED
    BY <2>4, <2>5, <2>6
<1>7. CASE pc' = "copy" /\ i' = 0 /\ Cursor' = LastRow /\ Cursor = LastRow + Width - 1
  <2>1. LastRow \in Nat /\ Cells = 0 .. LastRow + Width - 1
    BY Sizes
  <2>2. ASSUME NEW n \in Cells, n < LastRow
        PROVE  n + Width \in Cells /\ Shown(n)' = term_buffer'[n + Width]
    <3>1. n + Width \in Cells /\ ~(n < 0)
      BY <2>1, <2>2
    <3> QED
      BY <1>7, <2>2, <3>1, ShownNext
  <2>3. ASSUME NEW n \in Cells, n + 1 = Cursor'
        PROVE  Shown(n)'.ch = c
    <3>1. n < LastRow /\ n + Width = Cursor
      BY <1>5, <1>7, <2>1, <2>3
    <3> QED
      BY <1>3, <2>2, <3>1
  <2>4. ASSUME NEW n \in Cells, n + 1 < Cursor'
        PROVE  \E m \in Cells : Shown(n)' = Shown(m) /\ Cursor - m = (Cursor' - 1) - n
    <3>1. n < LastRow /\ n + Width # Cursor /\ Cursor - (n + Width) = (Cursor' - 1) - n
      BY <1>5, <1>7, <2>1, <2>4
    <3> QED
      BY <1>3, <1>4, <2>2, <3>1
  <2> QED
    BY <1>7, <2>1, <2>3, <2>4
<1>8. \/ pc' = "idle" /\ Cursor' = Cursor + 1
      \/ pc' = "copy" /\ i' = 0 /\ Cursor' = LastRow /\ Cursor = LastRow + Width - 1
  <2>1. CASE PutInside(c)
    <3>1. /\ pc' = "idle" /\ Cursor = term_row * Width + term_column
          /\ Cursor' = term_row * Width + (term_column + 1)
      BY <1>1, <2>1 DEF PutInside, Cursor
    <3> QED
      BY <1>1, <3>1
  <2>2. CASE PutWraps(c)
    <3>1. Newline /\ term_column = Width - 1 /\ term_column' = 0
      BY <1>1, <2>2 DEF PutWraps, Newline, Columns
    <3>2. CASE term_row = Height - 1
      <4>1. /\ pc' = "copy" /\ i' = 0 /\ term_row' = Height - 1
            /\ Cursor' = (Height - 1) * Width + 0
            /\ Cursor = (Height - 1) * Width + (Width - 1)
        BY <3>1, <3>2 DEF Newline, RowFull, Cursor
      <4>2. (Height - 1) * Width = LastRow /\ LastRow \in Nat
        BY Sizes DEF LastRow
      <4> QED
        BY <4>1, <4>2
    <3>3. CASE term_row # Height - 1
      <4>1. ~(term_row + 1 >= Height)
        BY <1>1, <3>3 DEF Rows
      <4>2. pc' = "idle" /\ Cursor' = (term_row + 1) * Width + 0
            /\ Cursor = term_row * Width + (Width - 1)
        BY <1>1, <3>1, <4>1 DEF Newline, RowFull, Cursor
      <4>3. (term_row + 1) * Width = term_row * Width + Width /\ term_row * Width \in Nat
        BY <1>1
      <4> QED
        BY <4>2, <4>3
    <3> QED
      BY <3>2, <3>3
  <2> QED
    BY <2>1, <2>2
<1> QED
  BY <1>6, <1>7, <1>8

LEMMA OutputEcho ==
  ASSUME ShellTypeOK, EchoInv, Output
  PROVE  EchoInv'
<1> DEFINE left == Len(todo)
           size == Len(Echo)
<1>1. /\ left \in Nat /\ left >= 1 /\ todo[1] = Head(todo)
      /\ Len(todo') = left - 1 /\ \A m \in 1 .. left - 1 : todo'[m] = todo[m + 1]
  <2>1. todo \in Seq(Operations) /\ todo # <<>> /\ todo' = Tail(todo)
    BY DEF ShellTypeOK, Output
  <2> QED
    BY <2>1, HeadTailProperties, EmptySeq, LenProperties
<1>2. Echo' = Echo /\ overrun' = overrun /\ size \in Nat /\ Echo \in Seq(Chars)
  BY EchoType DEF Echo, Output, line, ShellTypeOK
<1>3. SUFFICES ASSUME ~overrun
               PROVE  Queued(todo, Echo)' /\ Trails(Len(todo), Echo)'
  BY <1>2 DEF EchoInv
<1>4. Queued(todo, Echo)'
  <2> SUFFICES ASSUME NEW k \in 1 .. size, k <= left - 1
               PROVE  todo'[(left - 1) + 1 - k] = Put(Echo[size + 1 - k])
    BY <1>1, <1>2 DEF Queued
  <2>1. (left - 1) + 1 - k \in 1 .. left - 1 /\ ((left - 1) + 1 - k) + 1 = left + 1 - k /\ k <= left
    BY <1>1
  <2>2. todo[left + 1 - k] = Put(Echo[size + 1 - k])
    BY <1>3, <2>1 DEF EchoInv, Queued
  <2> QED
    BY <1>1, <2>1, <2>2
<1>5. CASE left > size
  <2>1. \A k \in 1 .. size : ~(k > left - 1)
    BY <1>1, <1>2, <1>5
  <2> QED
    BY <1>1, <1>2, <1>4, <2>1 DEF Trails
<1>6. CASE left <= size
  <2> DEFINE c == Echo[size + 1 - left]
  <2>1. left \in 1 .. size /\ size + 1 - left \in 1 .. size /\ left + 1 - left = 1
    BY <1>1, <1>2, <1>6
  <2>2. Head(todo) = Put(c) /\ c \in Chars
    <3>1. c \in Chars
      BY <1>2, <2>1, ElementOfSeq
    <3> QED
      BY <1>1, <1>3, <2>1, <3>1 DEF EchoInv, Queued
  <2> HIDE DEF c, left, size
  <2>3. PutInside(c) \/ PutWraps(c)
    <3>1. Perform(<<"put", c>>)
      BY <2>2 DEF Output, Put
    <3> QED
      BY <3>1 DEF Perform
  <2>4. /\ Cursor' \in Nat
        /\ \A n \in Cells : n + 1 = Cursor' => Shown(n)'.ch = c
        /\ \A n \in Cells : n + 1 < Cursor' =>
             \E m \in Cells : Shown(n)' = Shown(m) /\ Cursor - m = (Cursor' - 1) - n
    BY <2>2, <2>3, PutTrails
  <2>5. Cursor' \in Cells /\ Cursor \in Nat /\ \A n \in Cells : n \in Nat
    <3>1. TypeOK'
      BY ShellStep, NextType DEF ShellNext, ShellTypeOK
    <3>2. term_row' \in Rows /\ term_column' \in Columns /\ term_row \in Rows /\ term_column \in Columns
      BY <3>1 DEF ShellTypeOK, TypeOK, Rows, Columns
    <3>3. Cursor' \in Cells /\ Cursor \in Cells
      BY <3>2, Place DEF Cursor
    <3> QED
      BY <3>3, Sizes
  <2>6. ASSUME NEW k \in 1 .. size, k > left - 1, k - (left - 1) <= Cursor',
               NEW n, n = Cursor' - (k - (left - 1))
        PROVE  Shown(n)'.ch = Echo[size + 1 - k]
    <3> DEFINE d == k - (left - 1)
               end == Cursor'
    <3>0. left \in Nat /\ size \in Nat /\ k \in 1 .. size /\ end \in Cells /\ end \in Nat
      BY <1>1, <1>2, <2>4, <2>5, <2>6
    <3>4. d \in Nat /\ d <= end /\ n = end - d
      BY <2>6, <3>0
    <3> HIDE DEF end
    <3>1. n \in Cells
      BY <3>0, <3>4, Before
    <3>2. CASE k = left
      <4>1. n + 1 = end
        BY <3>0, <3>2, <3>4
      <4> QED
        BY <2>4, <3>1, <3>2, <4>1 DEF c, end
    <3>3. CASE k # left
      <4>1. n + 1 < Cursor' /\ k > left /\ (Cursor' - 1) - n = k - left
        <5>1. n + 1 < end /\ k > left /\ (end - 1) - n = k - left
          BY <2>6, <3>0, <3>3, <3>4
        <5> QED
          BY <5>1 DEF end
      <4>2. PICK m \in Cells : Shown(n)' = Shown(m) /\ Cursor - m = k - left
        BY <2>4, <3>1, <4>1
      <4>3. m = Cursor - (k - left) /\ k - left <= Cursor
        BY <2>5, <3>0, <4>1, <4>2
      <4>4. Shown(Cursor - (k - left)).ch = Echo[size + 1 - k]
        BY <1>3, <2>6, <4>1, <4>3 DEF EchoInv, Trails, left, size
      <4> QED
        BY <4>2, <4>3, <4>4
    <3> QED
      BY <3>2, <3>3
  <2>7. Trails(Len(todo), Echo)'
    BY <1>1, <1>2, <2>6 DEF Trails, left, size
  <2> QED
    BY <1>4, <2>7
<1> QED
  BY <1>1, <1>2, <1>5, <1>6

LEMMA TypeEcho ==
  ASSUME ShellTypeOK, EchoInv, NEW ch \in Keys, Type(ch)
  PROVE  EchoInv'
<1>1. /\ todo = <<>> /\ typed \in Seq(Keys) /\ typed' = Append(typed, ch) /\ UNCHANGED vars
      /\ ~overrun' => ~overrun
  BY DEF Type, Waiting, ShellTypeOK
<1>2. todo' = <<Put(ch)>>
  BY DEF Type, Write
<1> DEFINE size == Len(Echo)
<1>3. /\ size \in Nat /\ Len(Echo') = size + 1
      /\ \A n \in 1 .. size : Echo'[n] = Echo[n]
      /\ Echo'[size + 1] = ch
  <2>1. Prefix \in Seq(Chars) /\ typed \in Seq(Chars) /\ ch \in Chars
    BY <1>1, Operation, NameAssumption
  <2>2. /\ Append(typed, ch) \in Seq(Chars) /\ Len(Append(typed, ch)) = Len(typed) + 1
        /\ \A n \in 1 .. Len(typed) : Append(typed, ch)[n] = typed[n]
        /\ Append(typed, ch)[Len(typed) + 1] = ch
        /\ Len(typed) \in Nat /\ Len(Prefix) \in Nat
    BY <2>1, AppendProperties, LenProperties
  <2> DEFINE new == Append(typed, ch)
  <2>3. /\ Len(Echo) = Len(Prefix) + Len(typed)
        /\ \A n \in 1 .. Len(Prefix) + Len(typed) :
             Echo[n] = IF n <= Len(Prefix) THEN Prefix[n] ELSE typed[n - Len(Prefix)]
    BY <2>1, ConcatProperties DEF Echo
  <2> HIDE DEF new
  <2>4. /\ Len(Prefix \o new) = Len(Prefix) + Len(new)
        /\ \A n \in 1 .. Len(Prefix) + Len(new) :
             (Prefix \o new)[n] = IF n <= Len(Prefix) THEN Prefix[n] ELSE new[n - Len(Prefix)]
    BY <2>1, <2>2, ConcatProperties DEF new
  <2>5. Echo' = Prefix \o new
    BY <1>1 DEF Echo, new
  <2>6. /\ Len(new) = Len(typed) + 1 /\ new[Len(typed) + 1] = ch
        /\ \A n \in 1 .. Len(typed) : new[n] = typed[n]
    BY <2>2 DEF new
  <2>7. \A n \in 1 .. size : Echo'[n] = Echo[n]
    <3> TAKE n \in 1 .. size
    <3>1. n \in Nat /\ n >= 1 /\ n <= Len(Prefix) + Len(typed)
          /\ Len(Prefix) \in Nat /\ Len(typed) \in Nat /\ Len(new) = Len(typed) + 1
      BY <2>2, <2>3, <2>6
    <3>2. n \in 1 .. Len(Prefix) + Len(typed) /\ n \in 1 .. Len(Prefix) + Len(new)
      BY <3>1
    <3>3. CASE n <= Len(Prefix)
      BY <2>3, <2>4, <2>5, <3>2, <3>3
    <3>4. CASE ~(n <= Len(Prefix))
      <4>1. n - Len(Prefix) \in 1 .. Len(typed)
        BY <3>1, <3>4
      <4> QED
        BY <2>3, <2>4, <2>5, <2>6, <3>2, <3>4, <4>1
    <3> QED
      BY <3>3, <3>4
  <2>8. Len(Echo') = size + 1 /\ Echo'[size + 1] = ch
    BY <2>2, <2>3, <2>4, <2>5, <2>6
  <2> QED
    BY <2>2, <2>3, <2>7, <2>8
<1>4. ~overrun' => Queued(todo, Echo)'
  BY <1>2, <1>3 DEF Queued
<1>5. ~overrun' => Trails(Len(todo), Echo)'
  <2> SUFFICES ASSUME ~overrun, NEW k \in 1 .. size + 1, k > 1, k - 1 <= Cursor
               PROVE  Shown(Cursor - (k - 1))'.ch = Echo'[(size + 1) + 1 - k]
    <3>1. Len(todo') = 1 /\ Cursor' = Cursor
      BY <1>1, <1>2 DEF vars, Cursor
    <3> QED
      BY <1>1, <1>3, <3>1 DEF Trails
  <2>1. Shown(Cursor - (k - 1))' = Shown(Cursor - (k - 1))
    BY <1>1 DEF vars, Shown, vga_entry, Cursor
  <2>2. k - 1 \in 1 .. size /\ (k - 1) - 0 = k - 1 /\ k - 1 > 0 /\ size + 1 - (k - 1) \in 1 .. size
        /\ (size + 1) + 1 - k = size + 1 - (k - 1)
    BY <1>3
  <2>3. Len(todo) = 0
    BY <1>1
  <2>4. Shown(Cursor - (k - 1)).ch = Echo[size + 1 - (k - 1)]
    BY <2>2, <2>3 DEF EchoInv, Trails
  <2>5. Echo'[(size + 1) + 1 - k] = Echo[size + 1 - (k - 1)]
    BY <1>3, <2>2
  <2> HIDE DEF size
  <2> QED
    BY <2>1, <2>4, <2>5
<1> QED
  BY <1>4, <1>5 DEF EchoInv

\* Whatever ends with the whole echo.
LEMMA WholeEcho ==
  ASSUME NEW h \in Seq(Operations), NEW e \in Seq(Chars), todo' = h \o Write(e), Echo' = e
  PROVE  EchoInv'
<1>1. Queued(todo', e) /\ Len(todo') \in Nat /\ Len(e) \in Nat /\ Len(todo') >= Len(e)
  BY QueuedAtEnd
<1>2. Queued(todo, Echo)'
  BY <1>1 DEF Queued
<1>3. Trails(Len(todo), Echo)'
  BY <1>1 DEF Trails
<1> QED
  BY <1>2, <1>3 DEF EchoInv

\* Two texts, one behind the other.
LEMMA WriteBoth ==
  ASSUME NEW s \in Seq(Chars), NEW t \in Seq(Chars)
  PROVE  Write(s) \o Write(t) = Write(s \o t)
<1>1. /\ s \o t \in Seq(Chars) /\ Len(s \o t) = Len(s) + Len(t)
      /\ \A n \in 1 .. Len(s) + Len(t) : (s \o t)[n] = IF n <= Len(s) THEN s[n] ELSE t[n - Len(s)]
      /\ Len(s) \in Nat /\ Len(t) \in Nat
  BY ConcatProperties, LenProperties
<1>2. \A u \in Seq(Chars) : /\ Write(u) \in Seq(Operations) /\ Len(Write(u)) = Len(u)
                             /\ \A n \in 1 .. Len(u) : Write(u)[n] = Put(u[n])
  <2> TAKE u \in Seq(Chars)
  <2> QED
    BY WriteType, LenProperties DEF Write
<1> HIDE DEF Write
<1> DEFINE a == Write(s)
           b == Write(t)
           c == Write(s \o t)
<1>3. /\ a \in Seq(Operations) /\ b \in Seq(Operations) /\ c \in Seq(Operations)
      /\ Len(a) = Len(s) /\ Len(b) = Len(t) /\ Len(c) = Len(s) + Len(t)
      /\ \A n \in 1 .. Len(s) : a[n] = Put(s[n])
      /\ \A n \in 1 .. Len(t) : b[n] = Put(t[n])
      /\ \A n \in 1 .. Len(s) + Len(t) : c[n] = Put((s \o t)[n])
  BY <1>1, <1>2
<1>7. a \in Seq(Operations) /\ b \in Seq(Operations)
  BY <1>3
<1> HIDE DEF a, b, c
<1>4. /\ a \o b \in Seq(Operations) /\ Len(a \o b) = Len(a) + Len(b)
      /\ \A n \in 1 .. Len(a) + Len(b) : (a \o b)[n] = IF n <= Len(a) THEN a[n] ELSE b[n - Len(a)]
  BY <1>7, ConcatProperties
<1>5. \A n \in 1 .. Len(s) + Len(t) : (a \o b)[n] = c[n]
  <2> TAKE n \in 1 .. Len(s) + Len(t)
  <2>1. n \in 1 .. Len(a) + Len(b) /\ n \in Nat /\ Len(s) \in Nat /\ Len(t) \in Nat
    BY <1>1, <1>3
  <2>2. CASE n <= Len(s)
    <3>1. n \in 1 .. Len(s)
      BY <2>1, <2>2
    <3>2. c[n] = Put(s[n]) /\ a[n] = Put(s[n])
      BY <1>1, <1>3, <2>2, <3>1
    <3>3. (a \o b)[n] = a[n]
      BY <1>3, <1>4, <2>1, <2>2
    <3> QED
      BY <3>2, <3>3
  <2>3. CASE ~(n <= Len(s))
    <3>1. n - Len(s) \in 1 .. Len(t)
      BY <2>1, <2>3
    <3>2. (s \o t)[n] = t[n - Len(s)] /\ b[n - Len(s)] = Put(t[n - Len(s)])
      BY <1>1, <1>3, <2>3, <3>1
    <3>3. c[n] = Put((s \o t)[n])
      BY <1>3
    <3>4. (a \o b)[n] = b[n - Len(s)]
      BY <1>3, <1>4, <2>1, <2>3
    <3> QED
      BY <3>2, <3>3, <3>4
  <2> QED
    BY <2>2, <2>3
<1>6. a \o b = c
  BY <1>3, <1>4, <1>5, SeqEqual
<1> QED
  BY <1>6 DEF a, b, c

LEMMA BackspaceEcho ==
  ASSUME ShellTypeOK, LineInStep, Backspace
  PROVE  EchoInv'
<1> SUFFICES ASSUME ~overrun'
             PROVE  EchoInv'
  BY DEF EchoInv
<1> DEFINE rest == Line(input_index - 1)
<1>1. todo' = <<NewLine>> \o Write(Prefix) \o Write(rest) /\ ~overrun
      /\ input_index' = input_index - 1 /\ UNCHANGED input_buffer
  BY DEF Backspace
<1>2. typed' = rest /\ typed' \in Seq(Keys)
  <2>1. Line(input_index)' = rest
    BY <1>1 DEF Line
  <2> QED
    BY <1>1, <2>1, BackspaceStep
<1>3. rest \in Seq(Chars) /\ Prefix \in Seq(Chars)
  BY <1>2, Operation
<1> HIDE DEF rest
<1>4. /\ <<NewLine>> \in Seq(Operations) /\ Write(Prefix) \in Seq(Operations)
      /\ Write(rest) \in Seq(Operations) /\ Prefix \o rest \in Seq(Chars)
  BY <1>3, Operation, WriteType, ConcatProperties
<1>5. todo' = <<NewLine>> \o (Write(Prefix) \o Write(rest))
  BY <1>1, <1>4, ConcatAssociative
<1>6. todo' = <<NewLine>> \o Write(Prefix \o rest)
  BY <1>3, <1>5, WriteBoth
<1>7. Echo' = Prefix \o rest
  BY <1>2 DEF Echo
<1> QED
  BY <1>4, <1>6, <1>7, WholeEcho

LEMMA ParseEcho ==
  ASSUME NEW j \in 0 .. Len(Names), Parse(j)
  PROVE  EchoInv'
<1>1. PICK h \in Seq(Operations) : todo' = h \o Write(Prefix)
  BY ParseTodo
<1>2. typed' = <<>> /\ Prefix \in Seq(Chars)
  BY Operation DEF Parse
<1>3. Echo' = Prefix
  BY <1>2, ConcatEmptySeq DEF Echo
<1> QED
  BY <1>1, <1>2, <1>3, WholeEcho

LEMMA EchoStep ==
  ASSUME ShellTypeOK, LineInStep, EchoInv, [ShellNext]_shellVars
  PROVE  EchoInv'
<1>1. CASE Scroll
  <2>1. UNCHANGED <<todo, typed, term_row, term_column, overrun>>
    BY <1>1 DEF Scroll, line, CopyCell, BlankCell
  <2>2. \A n \in Cells : Shown(n)' = Shown(n)
    BY <1>1, CopyHides, BlankHides DEF Scroll, ShellTypeOK
  <2> QED
    BY <2>1, <2>2, SameShownEcho
<1>2. ASSUME NEW ch \in Keys, Type(ch) PROVE EchoInv'
  BY <1>2, TypeEcho
<1>3. ASSUME NEW j \in 0 .. Len(Names), Parse(j) PROVE EchoInv'
  BY <1>3, ParseEcho
<1>4. CASE UNCHANGED shellVars
  <2>1. UNCHANGED <<todo, typed, term_row, term_column, overrun>>
        /\ \A n \in Cells : Shown(n)' = Shown(n)
    BY <1>4 DEF shellVars, vars, line, Shown, vga_entry
  <2> QED
    BY <2>1, SameShownEcho
<1> QED
  BY <1>1, <1>2, <1>3, <1>4, OutputEcho, BackspaceEcho DEF ShellNext

LEMMA EchoStands ==
  ASSUME ShellTypeOK, LineInStep, EchoInv
  PROVE  EchoIsLine
<1> DEFINE echo == Prefix \o typed
           cursor == term_row * Width + term_column
<1> SUFFICES ASSUME Waiting, ~overrun, NEW n \in 1 .. Len(echo), n <= cursor
             PROVE  term_buffer[cursor - n].ch = echo[Len(echo) + 1 - n]
  BY DEF EchoIsLine
<1>1. echo = Echo /\ cursor = Cursor
  BY DEF Echo, Cursor
<1>2. Len(Echo) \in Nat
  BY EchoType DEF ShellTypeOK
<1>3. Len(todo) = 0 /\ pc = "idle" /\ n \in 1 .. Len(Echo) /\ n > 0 /\ n - 0 = n /\ n \in Nat
  BY <1>1, <1>2 DEF Waiting
<1>4. Shown(Cursor - n).ch = Echo[Len(Echo) + 1 - n]
  BY <1>1, <1>3 DEF EchoInv, Trails
<1>5. Cursor - n \in Cells
  <2>1. Cursor \in Cells
    BY Place DEF ShellTypeOK, TypeOK, Rows, Columns, Cursor
  <2> QED
    BY <1>1, <1>3, <2>1, Before
<1>6. Shown(Cursor - n) = term_buffer[Cursor - n]
  BY <1>3, <1>5, ShownIs DEF ShellTypeOK
<1> QED
  BY <1>1, <1>4, <1>6

\* For every screen, prompt, line and output of programs: what stands before the
\* cursor when the shell waits is the prompt and the line that will be parsed.
THEOREM EchoStandsOnScreen == ShellSpec => []EchoIsLine
BY ShellInitType, ShellNextType, ShellInitEcho, EchoStep, EchoStands, PTL DEF ShellSpec

=============================================================================
