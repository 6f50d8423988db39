------------------------------ MODULE Keyboard ------------------------------
(***************************************************************************)
(* The keyboard driver, drivers/keyboard.c: an interrupt handler that      *)
(* pushes each key on a buffer and raises signal, and the main thread,     *)
(* which spins on signal in kb_wait_get and then pops a key in kb_get.     *)
(*                                                                         *)
(* The handler runs behind an interrupt gate, so it is one step.  The main *)
(* thread runs with interrupts on, and the build does not optimise: each   *)
(* of its loads and stores of a shared variable is a step of its own.      *)
(* buffer[--handled_index] is a load of the index, a store of the lower    *)
(* one, a load of the index again, and the read of the buffer.             *)
(* A program that reads the device does so in a system call, which runs    *)
(* with interrupts off: one step again.                                    *)
(*                                                                         *)
(* A key is known by its number: the first one pressed is 1.               *)
(***************************************************************************)
EXTENDS Integers, Sequences

CONSTANTS
  BufLen,      \* the length of buffer: 255
  MaxAhead,    \* bound: how many unread keys buffer is let to hold
  MaxKeys,     \* bound: how many keys are pressed in all
  MaxRead      \* the most characters a program asks the device for

ASSUME BufferAssumption == BufLen \in Nat /\ MaxAhead \in Nat /\ MaxAhead < BufLen
ASSUME BoundAssumption  == MaxKeys \in Nat /\ MaxRead \in Nat

NoKey == 0

VARIABLES
  current_ch, buffer, handled_index, signal,   \* the driver's variables
  pc,          \* the main thread's next step
  reg,         \* the register it holds the index in
  pressed,     \* the number of keys pressed so far
  popped,      \* the number of times handled_index was lowered by one
  fresh,       \* whether a key came since kb_get was last entered
  missed,      \* whether a read of 0 characters took such a key's signal away
  typist,      \* "ahead" once a key was pressed before the shell waited for it
  delivered    \* what kb_wait_get has returned to the shell so far

device == <<current_ch, buffer, handled_index, signal>>
vars == <<device, pc, reg, pressed, popped, fresh, missed, typist, delivered>>

Init ==
  /\ current_ch = NoKey
  /\ buffer = [i \in 0 .. BufLen - 1 |-> NoKey]
  /\ handled_index = 0
  /\ signal = 0
  /\ pc = "wait" /\ reg = 0
  /\ pressed = 0 /\ popped = 0 /\ fresh = FALSE /\ missed = FALSE
  /\ typist = "patient"
  /\ delivered = <<>>

\* (mutant: the handler leaves without raising signal)
PushQuietly(ch) ==
  /\ current_ch' = ch
  /\ buffer' = [buffer EXCEPT ![handled_index] = ch]
  /\ handled_index' = handled_index + 1
  /\ signal' = signal

\* What kb_interrupt_hander does with the character of a key.
Push(ch) ==
  /\ current_ch' = ch
  /\ buffer' = [buffer EXCEPT ![handled_index] = ch]
  /\ handled_index' = handled_index + 1
  /\ signal' = 1

\* kb_interrupt_hander for the press of a key; a release changes nothing.
Press ==
  /\ pressed < MaxKeys /\ handled_index < MaxAhead
  /\ pressed' = pressed + 1
  /\ Push(pressed')
  /\ fresh' = TRUE /\ missed' = FALSE
  /\ typist' = IF pc = "wait" /\ signal = 0 THEN typist ELSE "ahead"
  /\ UNCHANGED <<pc, reg, popped, delivered>>

-----------------------------------------------------------------------------
(* kb_wait_get, called by the shell's loop *)

\* while(!signal);
SeeSignal ==
  /\ pc = "wait" /\ signal = 1
  /\ pc' = "clear"
  /\ UNCHANGED <<device, reg, pressed, popped, fresh, missed, delivered, typist>>

ClearSignal ==
  /\ pc = "clear"
  /\ signal' = 0
  /\ pc' = "test"
  /\ UNCHANGED <<current_ch, buffer, handled_index, reg, pressed, popped, fresh, missed, delivered, typist>>

\* kb_get: if(!handled_index)
TestIndex ==
  /\ pc = "test"
  /\ pc' = IF handled_index = 0 THEN "curr" ELSE "load"
  /\ fresh' = FALSE
  /\ UNCHANGED <<device, reg, pressed, popped, missed, delivered, typist>>

\* kb_wait_get returns ch to the shell.
Return(ch) ==
  /\ delivered' = Append(delivered, ch)
  /\ pc' = "shell"

GetCurr ==
  /\ pc = "curr"
  /\ Return(current_ch)
  /\ UNCHANGED <<device, reg, pressed, popped, fresh, missed, typist>>

LoadIndex ==
  /\ pc = "load"
  /\ reg' = handled_index
  /\ pc' = "store"
  /\ UNCHANGED <<device, pressed, popped, fresh, missed, delivered, typist>>

\* (mutant: buffer[handled_index] is read and the index stays)
NotLowered == reg

\* --handled_index, in the register.
Lowered == reg - 1

StoreIndex ==
  /\ pc = "store"
  /\ handled_index' = Lowered
  /\ popped' = popped + 1
  /\ pc' = "reload"
  /\ UNCHANGED <<current_ch, buffer, signal, reg, pressed, fresh, missed, delivered, typist>>

ReloadIndex ==
  /\ pc = "reload"
  /\ reg' = handled_index
  /\ pc' = "read"
  /\ UNCHANGED <<device, pressed, popped, fresh, missed, delivered, typist>>

ReadBuffer ==
  /\ pc = "read"
  /\ Return(buffer[reg])
  /\ UNCHANGED <<device, reg, pressed, popped, fresh, missed, typist>>

\* (mutant: signal is cleared after the key instead of before it)
ShellDoneClears ==
  /\ pc = "shell"
  /\ pc' = "wait"
  /\ signal' = 0
  /\ UNCHANGED <<current_ch, buffer, handled_index, reg, pressed, popped, fresh, missed, delivered, typist>>

\* The shell has dealt with the character and calls kb_wait_get again.
ShellDone ==
  /\ pc = "shell"
  /\ pc' = "wait"
  /\ UNCHANGED <<device, reg, pressed, popped, fresh, missed, delivered, typist>>

\* keyboard_read_callback: a program started by the shell reads n characters.
\* Each kb_get pops one while there are any; the rest repeat current_ch.  With 0,
\* which sc_read passes on like any other number, signal is cleared all the same.
ReadCallback(n) ==
  /\ pc = "shell"
  /\ LET taken == IF n < handled_index THEN n ELSE handled_index
     IN  /\ handled_index' = handled_index - taken
         /\ popped' = popped + taken
  /\ signal' = 0
  /\ fresh' = (fresh /\ n = 0) /\ missed' = fresh'
  /\ UNCHANGED <<current_ch, buffer, pc, reg, pressed, delivered, typist>>

WaitGet ==
  \/ SeeSignal \/ ClearSignal \/ TestIndex \/ GetCurr
  \/ LoadIndex \/ StoreIndex \/ ReloadIndex \/ ReadBuffer

Main == WaitGet \/ ShellDone \/ (\E n \in 0 .. MaxRead : ReadCallback(n))

Next == Press \/ Main

Spec == Init /\ [][Next]_vars

\* The main thread runs on between interrupts, and a program it started ends.
FairSpec == Spec /\ WF_vars(WaitGet) /\ WF_vars(ShellDone)

-----------------------------------------------------------------------------
(* Properties *)

\* The types of the variables: no load or store of the index, whatever presses
\* come between them, makes it negative or moves a read outside buffer.
TypeOK ==
  /\ pressed \in 0 .. MaxKeys /\ popped \in Nat
  /\ current_ch \in Nat
  /\ buffer \in [0 .. BufLen - 1 -> Nat]
  /\ handled_index \in 0 .. BufLen - 1
  /\ signal \in {0, 1}
  /\ pc \in {"wait", "clear", "test", "curr", "load", "store", "reload", "read", "shell"}
  /\ reg \in 0 .. BufLen - 1
  /\ pc = "store" => reg > 0
  /\ fresh \in BOOLEAN /\ missed \in BOOLEAN
  /\ typist \in {"patient", "ahead"}
  /\ delivered \in Seq(Nat)

\* The buffer is never deeper than the presses that were not popped, although
\* kb_get lowers the index by a load and a store that a press may come between:
\* such a press can be lost, but can never make the index grow, so that only a
\* typist who is BufLen keys ahead of the reader overruns buffer.
StackBelowPresses == handled_index + popped <= pressed

\* kb_wait_get goes to sleep on a key that came after it last looked only if a
\* program's read of 0 characters has come between: kb_wait_get clears signal
\* before it looks, so that otherwise such a key has raised signal again.
NoLostWakeup == pc \in {"wait", "shell"} /\ fresh => (signal = 0 <=> missed)

\* A key that is pressed is followed by a kb_get that starts after it, unless
\* such a read comes first: then the shell sleeps until another key is pressed.
KeyWakesShell == fresh ~> ~fresh \/ missed

\* The shell is given the keys in the order in which they were typed, each of
\* them once: "type 'help' to see other commands" (kernel.c:179).
DeliveredInOrder ==
  \A i \in 1 .. Len(delivered) : delivered[i] = i

\* It is, as long as no key is pressed before the shell waits for it: then
\* neither the stack nor the test and clear of signal puts a key out of place.
PatientInOrder == typist = "patient" => DeliveredInOrder

\* Such a typist's keys are not left over either: whenever the shell goes back
\* to waiting with signal clear it has been given all of them.
NoneLeftOver ==
  typist = "patient" /\ pc = "wait" /\ signal = 0 => Len(delivered) = pressed

\* A typist who waits for the shell is served in order and in full.
PatientIsServed == PatientInOrder /\ NoneLeftOver

=============================================================================
