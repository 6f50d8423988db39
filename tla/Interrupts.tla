----------------------------- MODULE Interrupts -----------------------------
(***************************************************************************)
(* The order in which kernel_main (kernel/kernel.c:247-284) sets the gates *)
(* of arch/x86/idt.c, initialises the two interrupt controllers of         *)
(* arch/x86/pic.c, unmasks their lines and turns interrupts on, and what   *)
(* the handlers of trap.c, ata.c and keyboard.c do with them from then on. *)
(*                                                                         *)
(* Code is data here: a frame of the processor's stack holds the writes    *)
(* its function has still to make, and the topmost frame makes the next.   *)
(* Numbers are the real ones.  The controllers are modelled from their     *)
(* data sheet as far as the code uses them: a request that is withdrawn    *)
(* may stay latched, as in some emulators, or not, as in the chip.  Left   *)
(* out are a request that goes away while the processor acknowledges it,   *)
(* and the exceptions themselves, whose handlers only print or panic.      *)
(***************************************************************************)
EXTENDS Integers, Sequences, FiniteSetsExt, SequencesExt

\* Lines of devices that the kernel has no driver for.  The second disk bus is not
\* one of them: nothing in the code gives it a command.
CONSTANT OtherLines

Master == 0 .. 7
Slave  == 8 .. 15
Timer == 0   Key == 1   Cascade == 2   Disk == 14   SecondDisk == 15

ASSUME OtherAssumption ==
  OtherLines \subseteq (Master \cup Slave) \ {Timer, Key, Cascade, Disk, SecondDisk}

VARIABLES
  gate,       \* the_idt: the handler and the kind of each gate that is used
  base,       \* the vector of each controller's first line
  icw,        \* the initialisation word each expects next; 1 when it has all
  mask,       \* the lines that are masked
  latch,      \* the edges that were not delivered yet
  inservice,  \* the lines that were delivered and not yet acknowledged
  high,       \* the lines that the keyboard and the disk hold high
  busy,       \* whether the disk works on a command
  stack,      \* the frames: main's first
  enabled,    \* the processor's interrupt flag
  ran,        \* whether main ran since the timer's last tick
  early       \* whether a key waited while the master was reset

pic == <<base, icw, mask, latch, inservice>>
irqVars == <<gate, pic, high, busy, stack, enabled, ran, early>>

-----------------------------------------------------------------------------
(* The kernel's code, as the sequences of its writes *)

Gate(index, isr, flags) == <<"gate", index, isr, flags>>
Cmd(chip, byte)  == <<"cmd", chip, byte>>
Data(chip, byte) == <<"data", chip, byte>>
Unmask(line) == <<"unmask", line>>
PIC_EOI == 32

pic_disable == <<Data(Master, 255), Data(Slave, 255)>>

\* (mutant: ICW1 announces an ICW4 that is not sent)
pic_remap_short(new_master_loc, new_slave_loc) ==
  pic_disable \o
  <<Cmd(Master, 17), Cmd(Slave, 17),
    Data(Master, new_master_loc), Data(Slave, new_slave_loc),
    Data(Master, 4), Data(Slave, 2)>> \o pic_disable

pic_remap(new_master_loc, new_slave_loc) ==
  pic_disable \o
  <<Cmd(Master, 17), Cmd(Slave, 17),
    Data(Master, new_master_loc), Data(Slave, new_slave_loc),
    Data(Master, 4), Data(Slave, 2),
    Data(Master, 1), Data(Slave, 1)>> \o pic_disable

\* (mutant: only the master is told)
pic_send_eoi_master(irq_line) == <<Cmd(Master, PIC_EOI)>>

pic_send_eoi(irq_line) ==
  (IF irq_line >= 8 THEN <<Cmd(Slave, PIC_EOI)>> ELSE <<>>) \o <<Cmd(Master, PIC_EOI)>>

interrupt_pit_timer == pic_send_eoi(0)

\* (mutant: the handler leaves the key in the controller)
KeyboardLeaves == pic_send_eoi(1)

\* What is read from the port goes on in Keyboard.
kb_interrupt_hander == <<<<"read60">>>> \o pic_send_eoi(1)

ata_interrupt_primary_bus == pic_send_eoi(14)

\* A command to the disk, and the wait until it is done.
DiskJob == <<<<"command">>, <<"wait">>>>

\* (mutant: the flags of an exception's gate)
TimerTrap == Gate(32, interrupt_pit_timer, "trap")

TimerGate == Gate(32, interrupt_pit_timer, "int")

ata_init == <<Gate(32 + 14, ata_interrupt_primary_bus, "trap"),
              Gate(32 + 15, ata_interrupt_primary_bus, "trap"),
              Unmask(14), Unmask(15)>> \o DiskJob

kb_init == <<Gate(32 + 1, kb_interrupt_hander, "int"), Unmask(1)>>

\* The handlers of exceptions, and the system calls' way through their table.
exception == <<<<"exception">>>>
syscall_dispatch == <<>>

idt_init == [i \in 1 .. 32 |-> Gate(i - 1, exception, "trap")]

\* kernel_main, from the IDT's load to the shell.  Mounting the file system
\* reads the disk once more.
Boot == <<<<"cli">>>> \o idt_init
        \o <<Gate(128, syscall_dispatch, "int"), Gate(0, exception, "trap"),
              Gate(13, exception, "trap"), Gate(14, exception, "trap")>>
        \o pic_disable \o pic_remap(32, 32 + 8)
        \o <<TimerGate, Unmask(0), Unmask(2)>>
        \o ata_init \o DiskJob \o kb_init \o <<<<"sti">>>>

\* What main does from then on: it spins for a key, reads the disk, or runs a
\* program that makes a system call, which may read the disk too.
Jobs == {<<<<"spin">>>>, DiskJob, <<<<"int80", <<>>>>>>, <<<<"int80", DiskJob>>>>}

-----------------------------------------------------------------------------

NoGate == [isr |-> <<<<"no gate">>>>, flags |-> "int"]
Vectors == 0 .. 47 \cup {128}

NoLine == -1
Frame(todo, line) == [todo |-> todo, line |-> line, saved |-> enabled]

IrqInit ==
  /\ gate = [v \in Vectors |-> NoGate]
  /\ base = [chip \in {Master, Slave} |-> IF chip = Master THEN 8 ELSE 112]
  /\ icw = [chip \in {Master, Slave} |-> 1]
  /\ mask = {} /\ latch = {} /\ inservice = {}
  /\ high = {} /\ busy = FALSE
  /\ enabled = FALSE
  /\ stack = <<Frame(Boot, NoLine)>>
  /\ ran = TRUE /\ early = FALSE

-----------------------------------------------------------------------------
(* The controllers and the devices *)

\* The lines of a chip whose requests get past its mask and its priorities.
Unblocked(chip, requests) ==
  {l \in (requests \cap chip) \ mask : \A s \in inservice \cap chip : l < s}

SlaveRequests == Unblocked(Slave, latch)
MasterRequests ==
  Unblocked(Master, latch \cup (IF SlaveRequests = {} THEN {} ELSE {Cascade}))

\* The line that the processor is interrupted for.
Line == IF Min(MasterRequests) = Cascade THEN Min(SlaveRequests) ELSE Min(MasterRequests)
Vector(l) == IF l \in Master THEN base[Master] + l ELSE base[Slave] + l - 8

Deliverable == enabled /\ MasterRequests # {}

\* A line that goes high leaves an edge; one that is high already does not.
Raise(l) == /\ high' = high \cup {l}
            /\ latch' = IF l \in high THEN latch ELSE latch \cup {l}

Lower(l) == /\ high' = high \ {l}
            /\ latch' \in {latch, latch \ {l}}

\* The timer is slow: main gets on between two ticks.
Tick ==
  /\ ran /\ ran' = FALSE
  /\ latch' = latch \cup {Timer}
  /\ UNCHANGED <<gate, base, icw, mask, inservice, high, busy, stack, enabled, early>>

\* A key is pressed or released; its code waits to be read.
KeyPress ==
  /\ Key \notin high
  /\ Raise(Key)
  /\ UNCHANGED <<gate, base, icw, mask, inservice, busy, stack, enabled, ran, early>>

DiskDone ==
  /\ busy /\ busy' = FALSE
  /\ Raise(Disk)
  /\ UNCHANGED <<gate, base, icw, mask, inservice, stack, enabled, ran, early>>

OtherDevice(l) ==
  /\ l \notin latch /\ latch' = latch \cup {l}
  /\ UNCHANGED <<gate, base, icw, mask, inservice, high, busy, stack, enabled, ran, early>>

\* A byte for a chip's command port: the first word of an initialisation, which
\* forgets masks, edges and services, or the end of the service that is most
\* urgent.
TakeCommand(chip, byte) ==
  IF byte = PIC_EOI
  THEN /\ inservice' = LET s == inservice \cap chip
                       IN  IF s = {} THEN inservice ELSE inservice \ {Min(s)}
       /\ UNCHANGED <<base, icw, mask, latch>>
  ELSE /\ icw' = [icw EXCEPT ![chip] = 2]
       /\ mask' = mask \ chip /\ latch' = latch \ chip /\ inservice' = inservice \ chip
       /\ UNCHANGED base

\* A byte for its data port: the next word, or all the masks (the code writes
\* them all, or in Unmask one).
TakeData(chip, byte) ==
  /\ base' = IF icw[chip] = 2 THEN [base EXCEPT ![chip] = byte] ELSE base
  /\ mask' = IF icw[chip] = 1 THEN mask \cup chip ELSE mask
  /\ icw' = [icw EXCEPT ![chip] = CASE @ = 1 -> 1 [] @ = 4 -> 1 [] OTHER -> @ + 1]
  /\ UNCHANGED <<latch, inservice>>

-----------------------------------------------------------------------------
(* The processor *)

Top == Last(stack)
Op  == Head(Top.todo)

\* The topmost frame is done with its first write.
Advance == stack' = [stack EXCEPT ![Len(stack)].todo = Tail(@)]

\* A gate is entered: an interrupt gate turns interrupts off, a trap gate not.
Enter(frames, isr, flags, line) ==
  /\ stack' = Append(frames, Frame(isr, line))
  /\ enabled' = (enabled /\ flags = "trap")

\* An interrupt comes before the next instruction.
Accept ==
  /\ Deliverable
  /\ latch' = latch \ {Line}
  /\ inservice' = inservice \cup {Line} \cup (IF Line \in Slave THEN {Cascade} ELSE {})
  /\ LET v == Vector(Line)
         g == IF v \in DOMAIN gate THEN gate[v] ELSE NoGate
     IN  Enter(stack, g.isr, g.flags, Line)
  /\ UNCHANGED <<gate, base, icw, mask, high, busy, ran, early>>

\* The next write of the topmost frame.
Write ==
  /\ ~Deliverable /\ Top.todo # <<>>
  /\ CASE Op[1] = "gate"   -> /\ gate' = [gate EXCEPT ![Op[2]] = [isr |-> Op[3], flags |-> Op[4]]]
                              /\ UNCHANGED <<pic, high, busy, enabled>> /\ Advance
       [] Op[1] = "cmd"    -> /\ TakeCommand(Op[2], Op[3])
                              /\ UNCHANGED <<gate, high, busy, enabled>> /\ Advance
       [] Op[1] = "data"   -> /\ TakeData(Op[2], Op[3])
                              /\ UNCHANGED <<gate, high, busy, enabled>> /\ Advance
       [] Op[1] = "unmask" -> /\ mask' = mask \ {Op[2]}
                              /\ UNCHANGED <<gate, base, icw, latch, inservice, high, busy, enabled>>
                              /\ Advance
       [] Op[1] = "cli"    -> enabled' = FALSE /\ UNCHANGED <<gate, pic, high, busy>> /\ Advance
       [] Op[1] = "sti"    -> enabled' = TRUE /\ UNCHANGED <<gate, pic, high, busy>> /\ Advance
       [] Op[1] = "read60" -> /\ Lower(Key)
                              /\ UNCHANGED <<gate, base, icw, mask, inservice, busy, enabled>>
                              /\ Advance
       [] Op[1] = "command" -> busy' = TRUE /\ UNCHANGED <<gate, pic, high, enabled>> /\ Advance
       [] Op[1] = "wait"   -> /\ ~busy /\ Lower(Disk)
                              /\ UNCHANGED <<gate, base, icw, mask, inservice, busy, enabled>>
                              /\ Advance
       [] Op[1] = "int80"  -> /\ Enter([stack EXCEPT ![Len(stack)].todo = Tail(@)],
                                       gate[128].isr \o Op[2], gate[128].flags, NoLine)
                              /\ UNCHANGED <<gate, pic, high, busy>>
       [] Op[1] = "spin"   -> UNCHANGED <<gate, pic, high, busy, enabled>> /\ Advance
       [] OTHER            -> UNCHANGED <<gate, pic, high, busy, enabled, stack>>
  /\ ran' = (ran \/ Len(stack) = 1)
  /\ early' = (early \/ (Op = Cmd(Master, 17) /\ Key \in high))

\* popa; leave; iret
Iret ==
  /\ ~Deliverable /\ Top.todo = <<>> /\ Len(stack) > 1
  /\ enabled' = Top.saved
  /\ stack' = Front(stack)
  /\ UNCHANGED <<gate, pic, high, busy, ran, early>>

Work(job) ==
  /\ ~Deliverable /\ Top.todo = <<>> /\ Len(stack) = 1
  /\ stack' = <<Frame(job, NoLine)>>
  /\ UNCHANGED <<gate, pic, high, busy, enabled, ran, early>>

Cpu == Accept \/ Write \/ Iret \/ (\E job \in Jobs : Work(job))

IrqNext == Cpu \/ Tick \/ KeyPress \/ DiskDone \/ (\E l \in OtherLines : OtherDevice(l))

IrqSpec == IrqInit /\ [][IrqNext]_irqVars

\* The processor goes on, and a command comes to its end.
IrqFairSpec == IrqSpec /\ WF_irqVars(Cpu) /\ WF_irqVars(DiskDone)

-----------------------------------------------------------------------------
(* Properties *)

\* The types of the variables, and how deep interrupts nest: the disk's trap
\* gate lets one more in, and no other gate does.
IrqTypeOK ==
  /\ DOMAIN gate = Vectors
  /\ base \in [{Master, Slave} -> {8, 32, 40, 112}] /\ icw \in [{Master, Slave} -> 1 .. 4]
  /\ mask \cup latch \cup inservice \subseteq Master \cup Slave
  /\ high \subseteq {Key, Disk}
  /\ {busy, enabled, ran, early} \subseteq BOOLEAN
  /\ Len(stack) \in 1 .. 3

\* Whatever the processor can be interrupted for from the moment that interrupts
\* are on has the gate of its own handler: no line is let through at a vector of
\* the BIOS, before its gate is set, or without a driver.
NoStray ==
  Deliverable =>
    /\ Line \in {Timer, Key, Disk}
    /\ Vector(Line) = 32 + Line
    /\ gate[Vector(Line)].isr = CASE Line = Timer -> interrupt_pit_timer
                                  [] Line = Key   -> kb_interrupt_hander
                                  [] Line = Disk  -> ata_interrupt_primary_bus

\* The lines that a frame has still to acknowledge, on both chips.
Owes(f) ==
  (IF Cmd(Slave, PIC_EOI) \in ToSet(f.todo) THEN {f.line} ELSE {})
  \cup (IF Cmd(Master, PIC_EOI) \notin ToSet(f.todo) THEN {}
        ELSE IF f.line \in Slave THEN {Cascade} ELSE {f.line})

\* The lines in service are those that some frame has still to acknowledge, and
\* the topmost frame's are the most urgent.  An acknowledgement names no line, so
\* this is why it never ends another's service, and why no line stays blocked.
InServiceIsStacked ==
  /\ inservice = UNION {Owes(stack[n]) : n \in 1 .. Len(stack)}
  /\ \A chip \in {Master, Slave} :
       Owes(Top) \cap chip # {} => Min(inservice \cap chip) \in Owes(Top)

\* A key is read in the end, unless it waited when the master was reset: then its
\* edge is forgotten, the line stays high, and no other key can raise it.
KeyHandled == Key \in high ~> Key \notin high \/ early

=============================================================================
