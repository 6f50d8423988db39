------------------------------- MODULE Shell -------------------------------
(***************************************************************************)
(* The shell, mini_shell in kernel/kernel.c: a line editor over            *)
(* kb_wait_get, the search of its table of programs with memcmp, and what  *)
(* both write on the screen, which is Terminal's.                          *)
(*                                                                         *)
(* What the shell and the programs it calls have still to write is a       *)
(* queue of the terminal's operations.  The shell waits for a key when it  *)
(* is empty.  A character written behind input_buffer goes to whatever the *)
(* compiler put there: input_index, or something that is not modelled.     *)
(***************************************************************************)
EXTENDS Terminal, Sequences, SequencesExt

CONSTANTS
  BufLen,     \* the length of input_buffer: 255
  IndexMod,   \* input_index is a uint8_t: 256
  Keys,       \* the characters that kb_wait_get returns, but for '\b' and '\n'
  Nul,        \* the character of a key that has none: 0
  Prefix,     \* mini_shell_prefix
  Grey, Red,  \* VGA_COLOR_LIGHT_GREY and VGA_COLOR_LIGHT_RED
  Names,      \* shell_prog_names
  Effects,    \* what each program writes
  Message,    \* "Input error!"
  MaxTyped    \* bound: the keys of one line

ASSUME LineAssumption == /\ BufLen \in Nat \ {0} /\ IndexMod = BufLen + 1
                         /\ MaxTyped \in Nat
ASSUME NameAssumption == /\ Nul \in Keys /\ Keys \subseteq Chars /\ {Grey, Red} \subseteq Colors
                         /\ {Prefix, Message} \subseteq Seq(Chars)
                         /\ Names \in Seq(Seq(Chars \ {Nul}))

VARIABLES
  input_buffer, input_index,
  todo,      \* what is still to be written
  typed,     \* the line as its typist sees it
  overrun,   \* whether this line went behind the buffer
  running    \* the program that the last line ran, until the next is begun

line == <<input_buffer, input_index, typed, overrun, running>>
Nothing == -1
shellVars == <<vars, line, todo>>

-----------------------------------------------------------------------------
(* What is written *)

Put(c) == <<"put", c>>
NewLine == <<"newline">>
Color(c) == <<"color", c>>
ResetRow == <<"home">>
Cls == <<"clean">>
Write(s) == [n \in DOMAIN s |-> Put(s[n])]

\* All that anyone writes.
Operations == {Put(c) : c \in Chars} \cup {Color(c) : c \in Colors} \cup {NewLine, ResetRow, Cls}

ASSUME EffectsAssumption == Effects \in [DOMAIN Names -> Seq(Operations)]

\* yell(msg).
Yell(msg) == <<ResetRow, Color(Red), NewLine>> \o Write(msg) \o <<NewLine, Color(Grey)>>

\* Programs of the table, by what they write: the names, one to a row; a clear
\* screen; a complaint about a file.
help_prog == FlattenSeq([j \in DOMAIN Names |-> Append(Write(Names[j]), NewLine)])
cls_prog  == <<Cls>>
fatreader_prog == Yell(Message)

\* The next operation, on the terminal's side.
Perform(op) ==
  CASE op[1] = "put"     -> PutInside(op[2]) \/ PutWraps(op[2])
    [] op[1] = "newline" -> Enter
    [] op[1] = "color"   -> SetColor(op[2])
    [] op[1] = "home"    -> ResetCursor
    [] op[1] = "clean"   -> Clean

Output ==
  /\ todo # <<>> /\ pc = "idle"
  /\ Perform(Head(todo)) /\ todo' = Tail(todo)
  /\ UNCHANGED line

Scroll == (CopyCell \/ BlankCell) /\ UNCHANGED <<line, todo>>

-----------------------------------------------------------------------------
(* The line editor *)

\* kb_wait_get returns only when all is written.
Waiting == todo = <<>> /\ pc = "idle"

ShellInit ==
  /\ Init /\ term_color = Grey
  /\ input_buffer = [n \in 0 .. BufLen - 1 |-> Nul] /\ input_index = 0
  /\ todo = Write(Prefix)
  /\ typed = <<>> /\ overrun = FALSE
  /\ running = Nothing

\* input_buffer[input_index++] = ch: behind the buffer the character may land
\* on input_index, as a number that the model does not tell apart.
Type(ch) ==
  /\ Waiting /\ Len(typed) < MaxTyped
  /\ typed' = Append(typed, ch)
  /\ todo' = Write(<<ch>>)
  /\ \/ /\ input_index < BufLen
        /\ input_buffer' = [input_buffer EXCEPT ![input_index] = ch]
        /\ input_index' = input_index + 1
        /\ UNCHANGED overrun
     \/ /\ input_index = BufLen
        /\ overrun' = TRUE
        /\ input_index' \in 0 .. IndexMod - 1
        /\ UNCHANGED input_buffer
  /\ running' = Nothing
  /\ UNCHANGED vars

\* The line as it stands, in its first n characters.
Line(n) == [k \in 1 .. n |-> input_buffer[k - 1]]

\* (mutant: the index stays)
BackspaceKeeps ==
  /\ Waiting /\ input_index # 0
  /\ todo' = <<NewLine>> \o Write(Prefix) \o Write(Line(input_index - 1))
  /\ typed' = IF typed = <<>> THEN typed ELSE Front(typed)
  /\ running' = Nothing
  /\ UNCHANGED <<vars, input_buffer, input_index, overrun>>

\* '\b': the line is written once more, without its last character.  At the
\* beginning of a line nothing happens.
Backspace ==
  /\ Waiting /\ input_index # 0
  /\ input_index' = input_index - 1
  /\ todo' = <<NewLine>> \o Write(Prefix) \o Write(Line(input_index'))
  /\ typed' = IF typed = <<>> THEN typed ELSE Front(typed)
  /\ running' = Nothing
  /\ UNCHANGED <<vars, input_buffer, overrun>>

-----------------------------------------------------------------------------
(* The table of programs *)

\* Name j as it lies in memory, with its end.
Stored(j) == Append(Names[j], Nul)

\* (mutant: a name is compared without its end, as strncmp with strlen would)
AgreesShort(j) == IsPrefix(Line(input_index), Names[j]) \/ IsPrefix(Names[j], Line(input_index))

\* memcmp(input_buffer, shell_prog_names[j], input_index) finds no difference in
\* the name; and it does not look behind the name, where anything may lie.
Agrees(j) == IsPrefix(Line(input_index), Stored(j)) \/ IsPrefix(Stored(j), Line(input_index))
Inside(j) == input_index <= Len(Stored(j))

\* The program that the search may end with, 0 for none.
Found(j) ==
  /\ j # 0 => Agrees(j)
  /\ \A k \in DOMAIN Names : k < j \/ j = 0 => ~(Agrees(k) /\ Inside(k))

\* '\n': parse_input and parse_quit.
Parse(j) ==
  /\ Waiting /\ Found(j)
  /\ running' = j
  /\ todo' = <<NewLine>>
             \o (IF j = 0 THEN <<Color(Red)>> \o Write(Message) \o <<Color(Grey)>> ELSE Effects[j])
             \o <<NewLine>> \o Write(Prefix)
  /\ input_index' = 0
  /\ typed' = <<>> /\ overrun' = FALSE
  /\ UNCHANGED <<vars, input_buffer>>

ShellNext ==
  \/ Output \/ Scroll
  \/ (\E ch \in Keys : Type(ch)) \/ Backspace
  \/ (\E j \in 0 .. Len(Names) : Parse(j))

ShellSpec == ShellInit /\ [][ShellNext]_shellVars

-----------------------------------------------------------------------------
(* Properties *)

\* The types of the variables, the terminal's with them: whatever is typed and
\* run, the cursor is on the screen and the index inside its eight bits.
ShellTypeOK ==
  /\ TypeOK
  /\ todo \in Seq(Operations)
  /\ input_buffer \in [0 .. BufLen - 1 -> Keys] /\ input_index \in 0 .. IndexMod - 1
  /\ typed \in Seq(Keys) /\ overrun \in BOOLEAN
  /\ running \in Nothing .. Len(Names)

\* Whatever was typed and taken back, the buffer holds the line and the index its
\* length.  A line that went behind the buffer is excepted.
LineInStep == ~overrun => typed = Line(input_index)

\* When the shell waits, what stands before the cursor is the prompt and the line
\* that will be parsed, as far as they have not left the screen: editing, rows
\* that wrap, scrolling, and what programs did to the screen leave them in step.
EchoIsLine ==
  LET echo == Prefix \o typed
      cursor == term_row * Width + term_column
  IN  /\ LineInStep
      /\ Waiting /\ ~overrun =>
           \A n \in 1 .. Len(echo) :
             n <= cursor => term_buffer[cursor - n].ch = echo[Len(echo) + 1 - n]

\* A line is a command by what was typed: the whole of a name runs its program,
\* unless it begins an earlier name too, and a line that begins no name and has
\* no key without a character runs none.  So it is with every line that was not
\* too long, also after one that was.
Runs(l, program) ==
  /\ \A j \in DOMAIN Names :
       /\ l = Names[j]
       /\ \A k \in 1 .. j - 1 : ~IsPrefix(Names[j], Names[k])
       => program = j
  /\ (\A j \in DOMAIN Names : ~IsPrefix(l, Names[j])) /\ Nul \notin ToSet(l)
       => program = 0
RunsTheNamed ==
  [][running' \notin {running, Nothing} /\ ~overrun => Runs(typed, running')]_shellVars

=============================================================================
