--------------------------- MODULE Keyboard_proofs ---------------------------
(***************************************************************************)
(* Proofs about the keyboard driver of Keyboard.tla, for every length of   *)
(* its buffer and every number of keys, and about the interrupts of        *)
(* Interrupts.tla, for every set of lines without a driver.                *)
(***************************************************************************)
EXTENDS Keyboard, Interrupts, SequenceTheorems, TLAPS

USE BufferAssumption, BoundAssumption DEF NoKey

\* Between the load and the store of the index only presses move it, and they
\* move it up.  Between the clearing of signal and kb_get's first look, a press
\* raises signal again; before the clearing it may have been seen already.  A read
\* of 0 characters takes signal away until the next press.
IInv ==
  /\ TypeOK
  /\ handled_index <= MaxAhead
  /\ pc = "load" => handled_index > 0
  /\ pc = "store" => reg <= handled_index
  /\ StackBelowPresses
  /\ fresh => signal = 1 \/ pc = "test" \/ missed
  /\ missed => fresh /\ signal = 0 /\ pc \in {"wait", "shell"}

-----------------------------------------------------------------------------

LEMMA InitInv ==
  ASSUME Init
  PROVE  IInv
<1>1. fresh \in BOOLEAN /\ missed \in BOOLEAN /\ ~fresh /\ ~missed
  BY Zenon DEF Init
<1> QED
  BY <1>1 DEF Init, IInv, TypeOK, StackBelowPresses

LEMMA PressInv ==
  ASSUME IInv, Press
  PROVE  IInv'
<1> USE DEF Press, Push
<1>0. fresh' \in BOOLEAN /\ missed' \in BOOLEAN /\ ~missed'
  BY Zenon
<1>1. TypeOK'
  BY <1>0 DEF IInv, TypeOK
<1>2. /\ handled_index' <= MaxAhead
      /\ pc' = "load" => handled_index' > 0
      /\ pc' = "store" => reg' <= handled_index'
      /\ fresh' => signal' = 1
      /\ ~missed'
  BY <1>0 DEF IInv, TypeOK
<1>3. StackBelowPresses'
  BY DEF IInv, StackBelowPresses, TypeOK
<1> QED
  BY <1>1, <1>2, <1>3 DEF IInv

LEMMA WaitGetInv ==
  ASSUME IInv, WaitGet
  PROVE  IInv'
<1> USE DEF IInv, TypeOK, StackBelowPresses, device
<1>1. CASE SeeSignal
  <2>1. pc' = "clear" /\ signal = 1 /\ UNCHANGED <<current_ch, buffer, handled_index, signal>>
        /\ UNCHANGED <<reg, pressed, popped, fresh, missed, delivered, typist>>
    BY <1>1 DEF SeeSignal
  <2> QED
    BY <2>1
<1>7. CASE ClearSignal
  <2>1. pc = "clear" /\ pc' = "test" /\ signal' = 0 /\ UNCHANGED <<current_ch, buffer, handled_index>>
        /\ UNCHANGED <<reg, pressed, popped, fresh, missed, delivered, typist>>
    BY <1>7 DEF ClearSignal
  <2> QED
    BY <2>1
<1>6. CASE TestIndex
  <2>1. /\ pc' \in {"curr", "load"} /\ fresh' = FALSE
        /\ pc' = "load" => handled_index # 0
        /\ UNCHANGED <<current_ch, buffer, handled_index, signal>>
        /\ UNCHANGED <<reg, pressed, popped, missed, typist, delivered>> /\ pc = "test"
    BY <1>6 DEF TestIndex
  <2>2. handled_index # 0 => handled_index > 0
    OBVIOUS
  <2> QED
    BY <2>1, <2>2
<1>2. CASE GetCurr \/ ReadBuffer
  <2> DEFINE ch == IF pc = "curr" THEN current_ch ELSE buffer[reg]
  <2>1. ch \in Nat
    OBVIOUS
  <2>2. /\ delivered' = Append(delivered, ch) /\ pc' = "shell"
        /\ UNCHANGED <<current_ch, buffer, handled_index, signal>>
        /\ UNCHANGED <<reg, pressed, popped, fresh, missed, typist>> /\ pc \in {"curr", "read"}
    BY <1>2 DEF GetCurr, ReadBuffer, Return
  <2> HIDE DEF ch
  <2>3. delivered' \in Seq(Nat)
    BY <2>1, <2>2
  <2> QED
    BY <2>2, <2>3
<1>3. CASE LoadIndex
  BY <1>3 DEF LoadIndex
<1>4. CASE StoreIndex
  BY <1>4 DEF StoreIndex, Lowered
<1>5. CASE ReloadIndex
  BY <1>5 DEF ReloadIndex
<1> QED
  BY <1>1, <1>2, <1>3, <1>4, <1>5, <1>6, <1>7 DEF WaitGet

LEMMA ShellInv ==
  ASSUME IInv, ShellDone \/ (\E n \in 0 .. MaxRead : ReadCallback(n))
  PROVE  IInv'
<1> USE DEF IInv, TypeOK, StackBelowPresses, device
<1>1. CASE ShellDone
  BY <1>1 DEF ShellDone
<1>2. ASSUME NEW n \in 0 .. MaxRead, ReadCallback(n)
      PROVE  IInv'
  <2> DEFINE taken == IF n < handled_index THEN n ELSE handled_index
  <2>1. taken \in 0 .. handled_index
    OBVIOUS
  <2>2. handled_index' = handled_index - taken /\ popped' = popped + taken
    BY <1>2 DEF ReadCallback
  <2>3. /\ pc = "shell" /\ signal' = 0
        /\ UNCHANGED <<current_ch, buffer, pc, reg, pressed, typist, delivered>>
    BY <1>2 DEF ReadCallback
  <2> HIDE DEF taken
  <2>4. /\ handled_index' \in 0 .. BufLen - 1 /\ handled_index' <= MaxAhead
        /\ popped' \in Nat
        /\ handled_index' + popped' <= pressed'
    BY <2>1, <2>2, <2>3
  <2>5. /\ fresh' \in BOOLEAN /\ missed' \in BOOLEAN
        /\ fresh' => missed'
        /\ missed' => fresh'
    <3>1. fresh' = (fresh /\ n = 0) /\ missed' = fresh'
      BY <1>2 DEF ReadCallback
    <3>2. (fresh /\ n = 0) \in BOOLEAN
      BY Zenon
    <3> QED
      BY <3>1, <3>2, Zenon
  <2> QED
    BY <2>3, <2>4, <2>5
<1> QED
  BY <1>1, <1>2

LEMMA NextInv ==
  ASSUME IInv, [Next]_vars
  PROVE  IInv'
<1>1. CASE UNCHANGED vars
  BY <1>1 DEF vars, device, IInv, TypeOK, StackBelowPresses
<1> QED
  BY <1>1, PressInv, WaitGetInv, ShellInv DEF Next, Main

\* The invariant of the driver, at every load and store of the main thread.
THEOREM Invariance == Spec => []IInv
  BY InitInv, NextInv, PTL DEF Spec

\* No interleaving of presses with kb_get's loads and stores takes the index out
\* of buffer.
THEOREM TypeCorrect == Spec => []TypeOK
<1>1. IInv => TypeOK
  BY DEF IInv
<1> QED
  BY Invariance, <1>1, PTL

\* The index is never above the number of presses that were not popped.
THEOREM IndexIsBounded == Spec => []StackBelowPresses
<1>1. IInv => StackBelowPresses
  BY DEF IInv
<1> QED
  BY Invariance, <1>1, PTL

\* kb_wait_get sleeps on a key that came after it last looked if, and only if, a
\* program's read of 0 characters has taken that key's signal away.
THEOREM WakeupsAreKept == Spec => []NoLostWakeup
<1>1. IInv => NoLostWakeup
  BY DEF IInv, NoLostWakeup
<1> QED
  BY Invariance, <1>1, PTL

-----------------------------------------------------------------------------
(* A typist who waits for the shell *)

\* The key is on its way: it lies at the bottom of buffer, and all the keys
\* before it have been delivered.
OneKey(idx) ==
  /\ handled_index = idx
  /\ pressed = Len(delivered) + 1
  /\ buffer[0] = pressed

InHand ==
  /\ DeliveredInOrder
  /\ pc \in {"wait", "shell"} /\ signal = 0 =>
       handled_index = 0 /\ pressed = Len(delivered)
  /\ pc = "wait" /\ signal = 1 => OneKey(1)
  /\ pc \in {"clear", "test", "load", "store"} => OneKey(1)
  /\ pc \in {"test", "load", "store", "reload", "read", "shell"} => signal = 0
  /\ pc \in {"reload", "read"} => OneKey(0)
  /\ pc = "store" => reg = 1
  /\ pc = "read" => reg = 0
  /\ pc # "curr"

SlowInv == typist = "patient" => InHand

LEMMA SlowNext ==
  ASSUME IInv, SlowInv, [Next]_vars
  PROVE  SlowInv'
<1> SUFFICES ASSUME typist' = "patient"
             PROVE  InHand'
  BY DEF SlowInv
<1>a. typist = "patient"
  BY DEF IInv, TypeOK, Next, Main, WaitGet, vars, Press, SeeSignal, ClearSignal,
         TestIndex, GetCurr, LoadIndex, StoreIndex, ReloadIndex, ReadBuffer,
         ShellDone, ReadCallback
<1>b. InHand
  BY <1>a DEF SlowInv
<1> USE <1>b DEF IInv, InHand, OneKey, DeliveredInOrder
<1>0. /\ delivered \in Seq(Nat) /\ Len(delivered) \in Nat
      /\ signal \in {0, 1} /\ pressed \in Nat
      /\ buffer \in [0 .. BufLen - 1 -> Nat] /\ handled_index \in 0 .. BufLen - 1
      /\ MaxRead \in Nat
  BY DEF TypeOK
<1>1. CASE Press
  <2>1. /\ pc = "wait" /\ signal = 0 /\ handled_index = 0
        /\ pressed = Len(delivered)
    BY <1>1 DEF Press, Push
  <2>2. /\ pc' = "wait" /\ signal' = 1 /\ handled_index' = 1
        /\ pressed' = pressed + 1 /\ delivered' = delivered
        /\ buffer' = [buffer EXCEPT ![0] = pressed']
    BY <1>1, <2>1 DEF Press, Push
  <2>3. buffer'[0] = pressed'
    BY <1>0, <2>1, <2>2
  <2> QED
    BY <2>1, <2>2, <2>3
<1>2. CASE SeeSignal \/ ClearSignal \/ TestIndex
  BY <1>0, <1>2 DEF SeeSignal, ClearSignal, TestIndex, device
<1>3. CASE LoadIndex \/ StoreIndex \/ ReloadIndex
  BY <1>0, <1>3 DEF LoadIndex, StoreIndex, Lowered, ReloadIndex, device
<1>4. CASE GetCurr
  BY <1>4 DEF GetCurr
<1>5. CASE ReadBuffer
  <2>1. /\ delivered' = Append(delivered, pressed) /\ pc' = "shell"
        /\ pressed' = pressed /\ signal' = signal /\ signal = 0
        /\ handled_index' = 0 /\ pressed = Len(delivered) + 1
    BY <1>5 DEF ReadBuffer, Return, device
  <2>2. Len(delivered') = pressed
    BY <1>0, <2>1
  <2>3. \A i \in 1 .. Len(delivered') : delivered'[i] = i
    BY <1>0, <2>1, <2>2
  <2> QED
    BY <2>1, <2>2, <2>3
<1>6. CASE ShellDone
  BY <1>6 DEF ShellDone, device
<1>7. ASSUME NEW n \in 0 .. MaxRead, ReadCallback(n)
      PROVE  InHand'
  <2>1. /\ pc = "shell" /\ pc' = "shell" /\ signal' = 0
        /\ handled_index = 0 /\ pressed' = pressed /\ delivered' = delivered
        /\ pressed = Len(delivered)
    BY <1>7 DEF ReadCallback
  <2>2. handled_index' = 0
    <3>1. ~(n < handled_index)
      BY <2>1
    <3>2. handled_index' = handled_index - handled_index
      BY <1>7, <3>1 DEF ReadCallback
    <3> QED
      BY <2>1, <3>2
  <2> QED
    BY <2>1, <2>2
<1>8. CASE UNCHANGED vars
  BY <1>8 DEF vars, device
<1> QED
  BY <1>1, <1>2, <1>3, <1>4, <1>5, <1>6, <1>7, <1>8 DEF Next, Main, WaitGet

\* As long as no key is pressed while another is being handled, the shell is
\* given the keys in the order in which they were typed, and none is left over.
THEOREM PatientTypistIsServed == Spec => []PatientIsServed
<1>1. Init => SlowInv
  BY DEF Init, SlowInv, InHand, DeliveredInOrder, OneKey
<1>2. IInv /\ SlowInv /\ [Next]_vars => SlowInv'
  BY SlowNext
<1>3. SlowInv => PatientIsServed
  BY DEF PatientIsServed, SlowInv, InHand, PatientInOrder, NoneLeftOver
<1> QED
  BY Invariance, <1>1, <1>2, <1>3, PTL DEF Spec

-----------------------------------------------------------------------------
(* The interrupts: the inductive invariant *)

FrameOf(todo, line, saved) == [todo |-> todo, line |-> line, saved |-> saved]

EoiMaster == Cmd(Master, PIC_EOI)
EoiSlave  == Cmd(Slave, PIC_EOI)
Read60    == <<"read60">>
Wait      == <<"wait">>
Command   == <<"command">>
Lines     == Master \cup Slave

\* What is left of main's jobs, and of the handlers of a system call, of the
\* disk, and of the two devices whose gates turn interrupts off.
MainTodos  == {<<>>, <<<<"spin">>>>, DiskJob, <<Wait>>, <<<<"int80", <<>>>>>>, <<<<"int80", DiskJob>>>>}
SysTodos   == {<<>>, DiskJob, <<Wait>>}
DiskTodos  == {<<EoiSlave, EoiMaster>>, <<EoiMaster>>, <<>>}
TimerTodos == {<<EoiMaster>>, <<>>}
KeyTodos   == {<<Read60, EoiMaster>>, <<EoiMaster>>, <<>>}

QuickFrames == {FrameOf(t, Timer, TRUE) : t \in TimerTodos} \cup {FrameOf(t, Key, TRUE) : t \in KeyTodos}
DiskFrames  == {FrameOf(t, Disk, TRUE) : t \in DiskTodos}
SysFrames   == {FrameOf(t, NoLine, TRUE) : t \in SysTodos}
MainFrames  == {FrameOf(t, NoLine, s) : t \in MainTodos, s \in BOOLEAN}

\* Main, alone or interrupted or in a system call, and the disk's handler, alone
\* or interrupted.  The disk works only for whoever waits for it.
InMain(m) == stack = <<m>> /\ enabled /\ inservice = {} /\ (busy => m.todo = <<Wait>>)
InSys(m, f) ==
  /\ stack = <<m, f>> /\ ~enabled /\ inservice = {}
  /\ busy => f.todo = <<Wait>>
  /\ f.todo = DiskJob => Disk \notin latch
InQuick(m, h) ==
  stack = <<m, h>> /\ ~enabled /\ inservice = Owes(h) /\ (busy => m.todo = <<Wait>>)
InDisk(m, d) ==
  stack = <<m, d>> /\ enabled /\ inservice = Owes(d) /\ ~busy /\ Disk \notin latch
InBoth(m, d, h) ==
  stack = <<m, d, h>> /\ ~enabled /\ inservice = Owes(d) \cup Owes(h) /\ ~busy /\ Disk \notin latch

Nested ==
  \E m \in MainFrames :
    \/ InMain(m)
    \/ \E f \in SysFrames : InSys(m, f)
    \/ \E h \in QuickFrames : InQuick(m, h)
    \/ \E d \in DiskFrames : InDisk(m, d)
    \/ \E d \in DiskFrames : \E h \in QuickFrames : InBoth(m, d, h)

\* What the boot code leaves behind.
Ready ==
  /\ base[Master] = 32 /\ base[Slave] = 40
  /\ mask = Lines \ {Timer, Cascade, Disk, SecondDisk, Key}
  /\ gate[32] = [isr |-> interrupt_pit_timer, flags |-> "int"]
  /\ gate[33] = [isr |-> kb_interrupt_hander, flags |-> "int"]
  /\ gate[46] = [isr |-> ata_interrupt_primary_bus, flags |-> "trap"]
  /\ gate[128] = [isr |-> syscall_dispatch, flags |-> "int"]

\* An answer of the disk is not undelivered while it works on the next command.
Running == Ready /\ Nested /\ (Disk \in latch => ~busy)

\* The next word of each controller, before the boot code's k-th write.
IcwMaster(k) == IF k \in {43, 44} THEN 2 ELSE IF k \in {45, 46} THEN 3 ELSE IF k \in {47, 48} THEN 4 ELSE 1
IcwSlave(k)  == IF k \in {44, 45} THEN 2 ELSE IF k \in {46, 47} THEN 3 ELSE IF k \in {48, 49} THEN 4 ELSE 1

Open(k) == {l \in {Timer, Cascade, Disk, SecondDisk, Key} :
              \/ l = Timer /\ k > 53
              \/ l = Cascade /\ k > 54
              \/ l = Disk /\ k > 57
              \/ l = SecondDisk /\ k > 58
              \/ l = Key /\ k > 64}

BootLen == 65
Left(k) == SubSeq(Boot, k, BootLen)

WordsAt(k) ==
  /\ icw[Master] = IcwMaster(k) /\ icw[Slave] = IcwSlave(k)
  /\ k > 44 => base[Master] = 32
  /\ k > 45 => base[Slave] = 40

MasksAt(k) ==
  /\ k = 51 => Master \subseteq mask
  /\ k > 51 => mask = Lines \ Open(k)

GatesAt(k) ==
  /\ k > 34 => gate[128] = [isr |-> syscall_dispatch, flags |-> "int"]
  /\ k > 52 => gate[32] = [isr |-> interrupt_pit_timer, flags |-> "int"]
  /\ k > 55 => gate[46] = [isr |-> ata_interrupt_primary_bus, flags |-> "trap"]
  /\ k > 63 => gate[33] = [isr |-> kb_interrupt_hander, flags |-> "int"]

Before(k) ==
  /\ stack = <<FrameOf(Left(k), NoLine, FALSE)>>
  /\ ~enabled /\ inservice = {}
  /\ busy => k \in {60, 62}
  /\ WordsAt(k) /\ MasksAt(k) /\ GatesAt(k)

Booting == \E k \in 1 .. BootLen : Before(k)

\* The types, and the lines that can ask.
Wired ==
  /\ DOMAIN gate = Vectors
  /\ base \in [{Master, Slave} -> {8, 32, 40, 112}] /\ icw \in [{Master, Slave} -> 1 .. 4]
  /\ mask \subseteq Lines /\ latch \subseteq {Timer, Key, Disk} \cup OtherLines
  /\ high \subseteq {Key, Disk}
  /\ busy \in BOOLEAN /\ enabled \in BOOLEAN /\ ran \in BOOLEAN /\ early \in BOOLEAN

IrqInv == Wired /\ (Booting \/ Running)

-----------------------------------------------------------------------------
(* The interrupts: their code *)

LEMMA Chips ==
  /\ Master = {0, 1, 2, 3, 4, 5, 6, 7} /\ Slave = {8, 9, 10, 11, 12, 13, 14, 15}
  /\ Master # Slave /\ Master \cap Slave = {}
<1>1. /\ Master = {0, 1, 2, 3, 4, 5, 6, 7} /\ Slave = {8, 9, 10, 11, 12, 13, 14, 15}
  BY DEF Master, Slave
<1> QED
  BY <1>1

LEMMA Pair == ASSUME NEW a, NEW b PROVE <<a>> \o <<b>> = <<a, b>>
<1> DEFINE S == {a, b}
<1>1. <<a>> \in Seq(S) /\ <<b>> \in Seq(S) /\ <<a, b>> \in Seq(S)
  OBVIOUS
<1>2. /\ <<a>> \o <<b>> \in Seq(S) /\ Len(<<a>> \o <<b>>) = 2
      /\ \A n \in 1 .. 2 : (<<a>> \o <<b>>)[n] = IF n <= 1 THEN <<a>>[n] ELSE <<b>>[n - 1]
  BY <1>1, ConcatProperties
<1>3. (<<a>> \o <<b>>)[1] = a /\ (<<a>> \o <<b>>)[2] = b
  BY <1>2
<1>4. \A n \in 1 .. 2 : (<<a>> \o <<b>>)[n] = <<a, b>>[n]
  BY <1>3
<1>5. Len(<<a, b>>) = 2
  OBVIOUS
<1> HIDE DEF S
<1> QED
  BY <1>1, <1>2, <1>4, <1>5, SeqEqual

LEMMA Codes ==
  /\ interrupt_pit_timer = <<EoiMaster>>
  /\ kb_interrupt_hander = <<Read60, EoiMaster>>
  /\ ata_interrupt_primary_bus = <<EoiSlave, EoiMaster>>
  /\ DiskJob = <<Command, Wait>>
<1>1. pic_send_eoi(0) = <<EoiMaster>> /\ pic_send_eoi(1) = <<EoiMaster>>
  BY DEF pic_send_eoi, EoiMaster
<1>2. pic_send_eoi(14) = <<EoiSlave, EoiMaster>>
  BY Pair DEF pic_send_eoi, EoiMaster, EoiSlave
<1>3. kb_interrupt_hander = <<Read60, EoiMaster>>
  BY <1>1, Pair DEF kb_interrupt_hander, Read60
<1> QED
  BY <1>1, <1>2, <1>3 DEF interrupt_pit_timer, ata_interrupt_primary_bus, DiskJob, Command, Wait

LEMMA Kinds ==
  /\ EoiMaster # EoiSlave
  /\ Read60 \notin {EoiMaster, EoiSlave} /\ Wait \notin {EoiMaster, EoiSlave}
  /\ Command \notin {EoiMaster, EoiSlave, Wait}
  /\ EoiMaster[1] = "cmd" /\ EoiMaster[2] = Master /\ EoiMaster[3] = PIC_EOI
  /\ EoiSlave[1] = "cmd" /\ EoiSlave[2] = Slave /\ EoiSlave[3] = PIC_EOI
  /\ Read60[1] = "read60" /\ Wait[1] = "wait" /\ Command[1] = "command"
<1>1. Master # Slave
  BY Chips
<1> QED
  BY <1>1 DEF EoiMaster, EoiSlave, Read60, Wait, Command, Cmd

\* What a frame has still to acknowledge.
LEMMA Owed ==
  ASSUME NEW s, NEW l \in {Timer, Key, Disk}
  PROVE  /\ Owes(FrameOf(<<>>, l, s)) = {}
         /\ Owes(FrameOf(<<EoiMaster>>, l, s)) = IF l = Disk THEN {Cascade} ELSE {l}
         /\ Owes(FrameOf(<<Read60, EoiMaster>>, l, s)) = IF l = Disk THEN {Cascade} ELSE {l}
         /\ Owes(FrameOf(<<EoiSlave, EoiMaster>>, l, s)) = {l} \cup (IF l = Disk THEN {Cascade} ELSE {l})
<1>1. /\ ToSet(<<>>) = {} /\ ToSet(<<EoiMaster>>) = {EoiMaster}
      /\ ToSet(<<Read60, EoiMaster>>) = {Read60, EoiMaster}
      /\ ToSet(<<EoiSlave, EoiMaster>>) = {EoiSlave, EoiMaster}
  BY DEF ToSet
<1>2. l \in Slave <=> l = Disk
  BY Chips DEF Timer, Key, Disk
<1> QED
  BY <1>1, <1>2, Kinds DEF Owes, FrameOf, EoiMaster, EoiSlave

LEMMA OwedByMain ==
  ASSUME NEW s, NEW l, NEW t \in MainTodos \cup SysTodos
  PROVE  Owes(FrameOf(t, l, s)) = {}
<1>1. EoiMaster \notin ToSet(t) /\ EoiSlave \notin ToSet(t)
  BY Kinds, Codes DEF MainTodos, SysTodos, ToSet, EoiMaster, EoiSlave, Cmd, Wait
<1> QED
  BY <1>1 DEF Owes, FrameOf, EoiMaster, EoiSlave

-----------------------------------------------------------------------------
(* The interrupts: the boot code, write by write *)

Writes ==
  {<<"cli">>, <<"sti">>, Command, Wait}
  \cup {Gate(v, r, f) : v \in 0 .. 128, f \in {"int", "trap"},
          r \in {exception, syscall_dispatch, interrupt_pit_timer, kb_interrupt_hander, ata_interrupt_primary_bus}}
  \cup {Cmd(c, 17) : c \in {Master, Slave}} \cup {Data(c, b) : c \in {Master, Slave}, b \in 0 .. 255}
  \cup {Unmask(l) : l \in 0 .. 15}

IsCode(s, n) == s \in Seq(Writes) /\ Len(s) = n

\* b is s, m writes long, and then t, n writes long.
Joined(b, s, m, t, n) == 
  /\ IsCode(b, m + n)
  /\ \A k \in 1 .. m : b[k] = s[k]
  /\ \A k \in 1 .. n : b[m + k] = t[k]

LEMMA Glue ==
  ASSUME NEW s, NEW t, NEW m \in Nat, NEW n \in Nat, IsCode(s, m), IsCode(t, n)
  PROVE  Joined(s \o t, s, m, t, n)
<1>1. /\ s \o t \in Seq(Writes) /\ Len(s \o t) = m + n
      /\ \A k \in 1 .. m + n : (s \o t)[k] = IF k <= m THEN s[k] ELSE t[k - m]
  BY ConcatProperties DEF IsCode
<1>2. ASSUME NEW k \in 1 .. n PROVE (s \o t)[m + k] = t[k]
  <2>1. m + k \in 1 .. m + n /\ ~(m + k <= m) /\ (m + k) - m = k
    OBVIOUS
  <2> QED
    BY <1>1, <2>1
<1>3. ASSUME NEW k \in 1 .. m PROVE (s \o t)[k] = s[k]
  <2>1. k \in 1 .. m + n /\ k <= m
    OBVIOUS
  <2> QED
    BY <1>1, <2>1
<1> QED
  BY <1>1, <1>2, <1>3 DEF IsCode, Joined

LEMMA MaskCode == IsCode(pic_disable, 2) /\ pic_disable[1] = Data(Master, 255) /\ pic_disable[2] = Data(Slave, 255)
<1>1. Data(Master, 255) \in Writes /\ Data(Slave, 255) \in Writes
  BY DEF Writes
<1> QED
  BY <1>1 DEF pic_disable, IsCode

LEMMA DiskCode == IsCode(DiskJob, 2) /\ DiskJob[1] = Command /\ DiskJob[2] = Wait
<1>1. Command \in Writes /\ Wait \in Writes
  BY DEF Writes
<1> QED
  BY <1>1, Codes DEF IsCode

LEMMA IdtCode == IsCode(idt_init, 32) /\ \A k \in 1 .. 32 : idt_init[k] = Gate(k - 1, exception, "trap")
<1>1. \A k \in 1 .. 32 : Gate(k - 1, exception, "trap") \in Writes
  <2> TAKE k \in 1 .. 32
  <2>1. k - 1 \in 0 .. 128
    OBVIOUS
  <2> QED
    BY <2>1 DEF Writes
<1> HIDE DEF Writes
<1>2. idt_init \in [1 .. 32 -> Writes]
  BY <1>1 DEF idt_init
<1> QED
  BY <1>2 DEF idt_init, IsCode

RemapCode == pic_remap(32, 32 + 8)

LEMMA PicCode ==
  /\ IsCode(RemapCode, 12)
  /\ RemapCode[1] = Data(Master, 255) /\ RemapCode[2] = Data(Slave, 255)
  /\ RemapCode[3] = Cmd(Master, 17) /\ RemapCode[4] = Cmd(Slave, 17)
  /\ RemapCode[5] = Data(Master, 32) /\ RemapCode[6] = Data(Slave, 40)
  /\ RemapCode[7] = Data(Master, 4) /\ RemapCode[8] = Data(Slave, 2)
  /\ RemapCode[9] = Data(Master, 1) /\ RemapCode[10] = Data(Slave, 1)
  /\ RemapCode[11] = Data(Master, 255) /\ RemapCode[12] = Data(Slave, 255)
<1> DEFINE words == <<Cmd(Master, 17), Cmd(Slave, 17), Data(Master, 32), Data(Slave, 32 + 8),
                      Data(Master, 4), Data(Slave, 2), Data(Master, 1), Data(Slave, 1)>>
<1> DEFINE front == pic_disable \o words
<1>1. Cmd(Master, 17) \in Writes /\ Cmd(Slave, 17) \in Writes
  BY DEF Writes
<1>2. \A c \in {Master, Slave} : \A b \in {1, 2, 4, 32, 40} : Data(c, b) \in Writes
  BY DEF Writes
<1> HIDE DEF Writes
<1>3. /\ IsCode(words, 8) /\ 32 + 8 = 40
      /\ words[1] = Cmd(Master, 17) /\ words[2] = Cmd(Slave, 17)
      /\ words[3] = Data(Master, 32) /\ words[4] = Data(Slave, 40)
      /\ words[5] = Data(Master, 4) /\ words[6] = Data(Slave, 2)
      /\ words[7] = Data(Master, 1) /\ words[8] = Data(Slave, 1)
  BY <1>1, <1>2 DEF IsCode
<1> HIDE DEF words
<1>4. /\ IsCode(front, 10)
      /\ \A k \in 1 .. 2 : front[k] = pic_disable[k]
      /\ \A k \in 1 .. 8 : front[2 + k] = words[k]
  <2>1. IsCode(pic_disable, 2) /\ IsCode(words, 8)
    BY <1>3, MaskCode
  <2>2. Joined(pic_disable \o words, pic_disable, 2, words, 8)
    BY <2>1, Glue, 2 \in Nat, 8 \in Nat
  <2> QED
    BY <2>2, 2 + 8 = 10 DEF Joined, IsCode, front
<1>5. RemapCode = front \o pic_disable
  BY DEF RemapCode, pic_remap, front, words
<1> HIDE DEF front
<1>6. /\ IsCode(RemapCode, 12)
      /\ \A k \in 1 .. 10 : RemapCode[k] = front[k]
      /\ \A k \in 1 .. 2 : RemapCode[10 + k] = pic_disable[k]
  <2>1. IsCode(front, 10) /\ IsCode(pic_disable, 2)
    BY <1>4, MaskCode
  <2>2. Joined(front \o pic_disable, front, 10, pic_disable, 2)
    BY <2>1, Glue, 10 \in Nat, 2 \in Nat
  <2> QED
    BY <2>2, 10 + 2 = 12, <1>5 DEF Joined, IsCode
<1> QED
  BY <1>3, <1>4, <1>6, MaskCode

LEMMA BootIs ==
  /\ Boot \in Seq(Writes) /\ Len(Boot) = BootLen
  /\ Boot[1] = <<"cli">>
  /\ \A k \in 2 .. 33 : Boot[k] = Gate(k - 2, exception, "trap")
  /\ Boot[34] = Gate(128, syscall_dispatch, "int") /\ Boot[35] = Gate(0, exception, "trap")
  /\ Boot[36] = Gate(13, exception, "trap") /\ Boot[37] = Gate(14, exception, "trap")
  /\ Boot[38] = Data(Master, 255) /\ Boot[39] = Data(Slave, 255)
  /\ Boot[40] = Data(Master, 255) /\ Boot[41] = Data(Slave, 255)
  /\ Boot[42] = Cmd(Master, 17) /\ Boot[43] = Cmd(Slave, 17)
  /\ Boot[44] = Data(Master, 32) /\ Boot[45] = Data(Slave, 40)
  /\ Boot[46] = Data(Master, 4) /\ Boot[47] = Data(Slave, 2)
  /\ Boot[48] = Data(Master, 1) /\ Boot[49] = Data(Slave, 1)
  /\ Boot[50] = Data(Master, 255) /\ Boot[51] = Data(Slave, 255)
  /\ Boot[52] = TimerGate /\ Boot[53] = Unmask(0) /\ Boot[54] = Unmask(2)
  /\ Boot[55] = Gate(46, ata_interrupt_primary_bus, "trap")
  /\ Boot[56] = Gate(47, ata_interrupt_primary_bus, "trap")
  /\ Boot[57] = Unmask(14) /\ Boot[58] = Unmask(15)
  /\ Boot[59] = Command /\ Boot[60] = Wait /\ Boot[61] = Command /\ Boot[62] = Wait
  /\ Boot[63] = Gate(33, kb_interrupt_hander, "int") /\ Boot[64] = Unmask(1)
  /\ Boot[65] = <<"sti">>
<1> DEFINE s1 == <<<<"cli">>>>
<1> DEFINE s3 == <<Gate(128, syscall_dispatch, "int"), Gate(0, exception, "trap"),
                   Gate(13, exception, "trap"), Gate(14, exception, "trap")>>
<1> DEFINE s6 == <<TimerGate, Unmask(0), Unmask(2)>>
<1> DEFINE s7 == <<Gate(32 + 14, ata_interrupt_primary_bus, "trap"),
                   Gate(32 + 15, ata_interrupt_primary_bus, "trap"), Unmask(14), Unmask(15)>>
<1> DEFINE s10 == <<<<"sti">>>>
<1>1. \A k \in {0, 13, 14} : Gate(k, exception, "trap") \in Writes
  BY DEF Writes
<1>2. Gate(128, syscall_dispatch, "int") \in Writes /\ TimerGate \in Writes
  BY DEF Writes, TimerGate
<1>3. \A k \in {46, 47} : Gate(k, ata_interrupt_primary_bus, "trap") \in Writes
  BY DEF Writes
<1>4. Gate(33, kb_interrupt_hander, "int") \in Writes
  BY DEF Writes
<1>5. \A k \in {0, 1, 2, 14, 15} : Unmask(k) \in Writes
  BY DEF Writes
<1>6. <<"cli">> \in Writes /\ <<"sti">> \in Writes
  BY DEF Writes
<1> HIDE DEF Writes
<1>7. IsCode(s1, 1) /\ s1[1] = <<"cli">>
  BY <1>6 DEF IsCode
<1>8. /\ IsCode(s3, 4)
      /\ s3[1] = Gate(128, syscall_dispatch, "int") /\ s3[2] = Gate(0, exception, "trap")
      /\ s3[3] = Gate(13, exception, "trap") /\ s3[4] = Gate(14, exception, "trap")
  BY <1>1, <1>2 DEF IsCode
<1>9. /\ IsCode(s6, 3)
      /\ s6[1] = TimerGate /\ s6[2] = Unmask(0) /\ s6[3] = Unmask(2)
  BY <1>2, <1>5 DEF IsCode
<1>10. /\ IsCode(s7, 4)
       /\ s7[1] = Gate(46, ata_interrupt_primary_bus, "trap")
       /\ s7[2] = Gate(47, ata_interrupt_primary_bus, "trap")
       /\ s7[3] = Unmask(14) /\ s7[4] = Unmask(15)
  <2>1. 32 + 14 = 46 /\ 32 + 15 = 47
    OBVIOUS
  <2> QED
    BY <2>1, <1>3, <1>5 DEF IsCode
<1>11. /\ IsCode(kb_init, 2)
       /\ kb_init[1] = Gate(33, kb_interrupt_hander, "int") /\ kb_init[2] = Unmask(1)
  <2>1. 32 + 1 = 33
    OBVIOUS
  <2> QED
    BY <2>1, <1>4, <1>5 DEF kb_init, IsCode
<1>12. IsCode(s10, 1) /\ s10[1] = <<"sti">>
  BY <1>6 DEF IsCode
<1>13. ata_init = s7 \o DiskJob
  BY DEF ata_init, s7
<1> DEFINE b2 == s1 \o idt_init
<1> DEFINE b3 == b2 \o s3
<1> DEFINE b4 == b3 \o pic_disable
<1> DEFINE b5 == b4 \o RemapCode
<1> DEFINE b6 == b5 \o s6
<1> DEFINE b7 == b6 \o ata_init
<1> DEFINE b8 == b7 \o DiskJob
<1> DEFINE b9 == b8 \o kb_init
<1>14. Boot = b9 \o s10
  BY DEF Boot, RemapCode
<1> HIDE DEF s1, s3, s6, s7, s10
<1>15. /\ IsCode(ata_init, 6)
       /\ \A k \in 1 .. 4 : ata_init[k] = s7[k]
       /\ \A k \in 1 .. 2 : ata_init[4 + k] = DiskJob[k]
  <2>1. IsCode(s7, 4) /\ IsCode(DiskJob, 2)
    BY <1>10, DiskCode
  <2>2. Joined(s7 \o DiskJob, s7, 4, DiskJob, 2)
    BY <2>1, Glue, 4 \in Nat, 2 \in Nat
  <2> QED
    BY <2>2, 4 + 2 = 6, <1>13 DEF Joined, IsCode
<1>22. /\ IsCode(b2, 33) /\ b2[1] = s1[1]
       /\ \A k \in 1 .. 32 : b2[1 + k] = idt_init[k]
  <2>1. IsCode(s1, 1) /\ IsCode(idt_init, 32)
    BY <1>7, IdtCode
  <2>2. Joined(s1 \o idt_init, s1, 1, idt_init, 32)
    BY <2>1, Glue, 1 \in Nat, 32 \in Nat
  <2> QED
    BY <2>2, 1 + 32 = 33, 1 \in 1 .. 1 DEF Joined, IsCode, b2
<1> HIDE DEF b2
<1>23. /\ IsCode(b3, 37) /\ \A k \in 1 .. 33 : b3[k] = b2[k]
       /\ \A k \in 1 .. 4 : b3[33 + k] = s3[k]
  <2>1. IsCode(b2, 33) /\ IsCode(s3, 4)
    BY <1>8, <1>22
  <2>2. Joined(b2 \o s3, b2, 33, s3, 4)
    BY <2>1, Glue, 33 \in Nat, 4 \in Nat
  <2> QED
    BY <2>2, 33 + 4 = 37 DEF Joined, IsCode, b3
<1> HIDE DEF b3
<1>24. /\ IsCode(b4, 39) /\ \A k \in 1 .. 37 : b4[k] = b3[k]
       /\ \A k \in 1 .. 2 : b4[37 + k] = pic_disable[k]
  <2>1. IsCode(b3, 37) /\ IsCode(pic_disable, 2)
    BY <1>23, MaskCode
  <2>2. Joined(b3 \o pic_disable, b3, 37, pic_disable, 2)
    BY <2>1, Glue, 37 \in Nat, 2 \in Nat
  <2> QED
    BY <2>2, 37 + 2 = 39 DEF Joined, IsCode, b4
<1> HIDE DEF b4
<1>25. /\ IsCode(b5, 51) /\ \A k \in 1 .. 39 : b5[k] = b4[k]
       /\ \A k \in 1 .. 12 : b5[39 + k] = RemapCode[k]
  <2>1. IsCode(b4, 39) /\ IsCode(RemapCode, 12)
    BY <1>24, PicCode
  <2>2. Joined(b4 \o RemapCode, b4, 39, RemapCode, 12)
    BY <2>1, Glue, 39 \in Nat, 12 \in Nat
  <2> QED
    BY <2>2, 39 + 12 = 51 DEF Joined, IsCode, b5
<1> HIDE DEF b5
<1>26. /\ IsCode(b6, 54) /\ \A k \in 1 .. 51 : b6[k] = b5[k]
       /\ \A k \in 1 .. 3 : b6[51 + k] = s6[k]
  <2>1. IsCode(b5, 51) /\ IsCode(s6, 3)
    BY <1>9, <1>25
  <2>2. Joined(b5 \o s6, b5, 51, s6, 3)
    BY <2>1, Glue, 51 \in Nat, 3 \in Nat
  <2> QED
    BY <2>2, 51 + 3 = 54 DEF Joined, IsCode, b6
<1> HIDE DEF b6
<1>27. /\ IsCode(b7, 60) /\ \A k \in 1 .. 54 : b7[k] = b6[k]
       /\ \A k \in 1 .. 6 : b7[54 + k] = ata_init[k]
  <2>1. IsCode(b6, 54) /\ IsCode(ata_init, 6)
    BY <1>15, <1>26
  <2>2. Joined(b6 \o ata_init, b6, 54, ata_init, 6)
    BY <2>1, Glue, 54 \in Nat, 6 \in Nat
  <2> QED
    BY <2>2, 54 + 6 = 60 DEF Joined, IsCode, b7
<1> HIDE DEF b7
<1>28. /\ IsCode(b8, 62) /\ \A k \in 1 .. 60 : b8[k] = b7[k]
       /\ \A k \in 1 .. 2 : b8[60 + k] = DiskJob[k]
  <2>1. IsCode(b7, 60) /\ IsCode(DiskJob, 2)
    BY <1>27, DiskCode
  <2>2. Joined(b7 \o DiskJob, b7, 60, DiskJob, 2)
    BY <2>1, Glue, 60 \in Nat, 2 \in Nat
  <2> QED
    BY <2>2, 60 + 2 = 62 DEF Joined, IsCode, b8
<1> HIDE DEF b8
<1>29. /\ IsCode(b9, 64) /\ \A k \in 1 .. 62 : b9[k] = b8[k]
       /\ \A k \in 1 .. 2 : b9[62 + k] = kb_init[k]
  <2>1. IsCode(b8, 62) /\ IsCode(kb_init, 2)
    BY <1>11, <1>28
  <2>2. Joined(b8 \o kb_init, b8, 62, kb_init, 2)
    BY <2>1, Glue, 62 \in Nat, 2 \in Nat
  <2> QED
    BY <2>2, 62 + 2 = 64 DEF Joined, IsCode, b9
<1> HIDE DEF b9
<1>30. /\ IsCode(Boot, 65) /\ \A k \in 1 .. 64 : Boot[k] = b9[k]
       /\ Boot[65] = s10[1]
  <2>1. IsCode(b9, 64) /\ IsCode(s10, 1)
    BY <1>12, <1>29
  <2>2. Joined(b9 \o s10, b9, 64, s10, 1)
    BY <2>1, Glue, 64 \in Nat, 1 \in Nat
  <2>3. Boot[64 + 1] = s10[1]
    BY <2>2, <1>14, 1 \in 1 .. 1 DEF Joined
  <2> QED
    BY <2>2, <2>3, 64 + 1 = 65, <1>14 DEF Joined, IsCode
<1>31. /\ \A k \in 1 .. 33 : Boot[k] = b2[k]
       /\ \A k \in 34 .. 37 : Boot[k] = b3[k]
       /\ \A k \in 38 .. 39 : Boot[k] = b4[k]
       /\ \A k \in 40 .. 51 : Boot[k] = b5[k]
       /\ \A k \in 52 .. 54 : Boot[k] = b6[k]
       /\ \A k \in 55 .. 60 : Boot[k] = b7[k]
       /\ \A k \in 61 .. 62 : Boot[k] = b8[k]
       /\ \A k \in 63 .. 64 : Boot[k] = b9[k]
  BY <1>23, <1>24, <1>25, <1>26, <1>27, <1>28, <1>29, <1>30
<1>32. Boot[1] = <<"cli">> /\ \A k \in 2 .. 33 : Boot[k] = Gate(k - 2, exception, "trap")
  <2>1. Boot[1] = <<"cli">>
    BY <1>7, <1>22, <1>31
  <2>2. ASSUME NEW k \in 2 .. 33 PROVE Boot[k] = Gate(k - 2, exception, "trap")
    <3>1. k - 1 \in 1 .. 32 /\ 1 + (k - 1) = k /\ (k - 1) - 1 = k - 2 /\ k \in 1 .. 33
      OBVIOUS
    <3> QED
      BY <3>1, <1>22, <1>31, IdtCode
  <2> QED
    BY <2>1, <2>2
<1>33. /\ Boot[34] = Gate(128, syscall_dispatch, "int") /\ Boot[35] = Gate(0, exception, "trap")
       /\ Boot[36] = Gate(13, exception, "trap") /\ Boot[37] = Gate(14, exception, "trap")
       /\ Boot[38] = Data(Master, 255) /\ Boot[39] = Data(Slave, 255)
  BY <1>8, <1>23, <1>24, <1>31, MaskCode
<1>34. /\ Boot[40] = Data(Master, 255) /\ Boot[41] = Data(Slave, 255)
       /\ Boot[42] = Cmd(Master, 17) /\ Boot[43] = Cmd(Slave, 17)
       /\ Boot[44] = Data(Master, 32) /\ Boot[45] = Data(Slave, 40)
       /\ Boot[46] = Data(Master, 4) /\ Boot[47] = Data(Slave, 2)
       /\ Boot[48] = Data(Master, 1) /\ Boot[49] = Data(Slave, 1)
       /\ Boot[50] = Data(Master, 255) /\ Boot[51] = Data(Slave, 255)
  <2>1. \A k \in 1 .. 12 : Boot[39 + k] = RemapCode[k]
    BY <1>25, <1>31
  <2> QED
    BY <2>1, PicCode
<1>35. /\ Boot[52] = TimerGate /\ Boot[53] = Unmask(0) /\ Boot[54] = Unmask(2)
       /\ Boot[55] = Gate(46, ata_interrupt_primary_bus, "trap")
       /\ Boot[56] = Gate(47, ata_interrupt_primary_bus, "trap")
       /\ Boot[57] = Unmask(14) /\ Boot[58] = Unmask(15)
  BY <1>9, <1>10, <1>15, <1>26, <1>27, <1>31
<1>36. /\ Boot[59] = Command /\ Boot[60] = Wait /\ Boot[61] = Command /\ Boot[62] = Wait
       /\ Boot[63] = Gate(33, kb_interrupt_hander, "int") /\ Boot[64] = Unmask(1)
       /\ Boot[65] = <<"sti">>
  BY <1>11, <1>12, <1>15, <1>27, <1>28, <1>29, <1>30, <1>31, DiskCode
<1> QED
  BY <1>30, <1>32, <1>33, <1>34, <1>35, <1>36 DEF BootLen, IsCode

\* What is left of the boot code, and that it acknowledges nothing.
LEMMA LeftIs ==
  ASSUME NEW k \in 1 .. BootLen
  PROVE  /\ Left(k) # <<>> /\ Head(Left(k)) = Boot[k] /\ Tail(Left(k)) = Left(k + 1)
         /\ Left(BootLen + 1) = <<>>
         /\ Owes(FrameOf(Left(k), NoLine, FALSE)) = {}
<1>1. Boot \in Seq(Writes) /\ Len(Boot) = BootLen /\ BootLen = 65
  BY BootIs DEF BootLen
<1>2. EoiMaster \notin Writes /\ EoiSlave \notin Writes
  BY DEF EoiMaster, EoiSlave, PIC_EOI, Writes, Cmd, Gate, Data, Unmask, Command, Wait
<1> HIDE DEF Writes
<1>3. Head(Left(k)) = Boot[k] /\ Tail(Left(k)) = Left(k + 1)
  BY <1>1, HeadTailOfSubSeq DEF Left
<1>4. Left(BootLen + 1) = <<>>
  <2>1. 65 + 1 \in Int /\ 65 \in Int /\ 65 < 65 + 1
    OBVIOUS
  <2> QED
    BY <1>1, <2>1, SubSeqEmpty DEF Left
<1>5. \A n \in k .. BootLen : Boot[n] \in Writes
  <2> TAKE n \in k .. BootLen
  <2>1. n \in 1 .. Len(Boot)
    BY <1>1
  <2> QED
    BY <1>1, <2>1, ElementOfSeq
<1>6. /\ Left(k) \in Seq(Writes) /\ Len(Left(k)) = BootLen - k + 1
      /\ \A n \in 1 .. BootLen - k + 1 : Left(k)[n] \in Writes
  <2>1. Left(k) \in Seq(Writes) /\ Len(Left(k)) = BootLen - k + 1
    BY <1>1, <1>5, SubSeqProperties DEF Left
  <2> QED
    BY <2>1, ElementOfSeq
<1>7. EoiMaster \notin ToSet(Left(k)) /\ EoiSlave \notin ToSet(Left(k))
  BY <1>2, <1>6 DEF ToSet
<1>8. Owes(FrameOf(Left(k), NoLine, FALSE)) = {}
  BY <1>7 DEF Owes, FrameOf, EoiMaster, EoiSlave
<1>9. Left(k) # <<>>
  BY <1>1, <1>6
<1> QED
  BY <1>3, <1>4, <1>8, <1>9

-----------------------------------------------------------------------------
(* The interrupts: which one is delivered *)

LEMMA Requests ==
  ASSUME Wired, Ready
  PROVE  /\ SlaveRequests \in {{}, {Disk}}
         /\ SlaveRequests = {Disk} <=> Disk \in latch /\ \A s \in inservice \cap Slave : Disk < s
         /\ \A l \in MasterRequests : \/ l \in {Timer, Key} /\ l \in latch
                                      \/ l = Cascade /\ SlaveRequests = {Disk}
         /\ SlaveRequests = {Disk} /\ (\A s \in inservice \cap Master : Cascade < s)
              => Cascade \in MasterRequests
         /\ \A l \in MasterRequests : \A s \in inservice \cap Master : l < s
<1>1. /\ \A l \in latch : l \in Slave /\ l \notin mask => l = Disk
      /\ Disk \in Slave /\ Disk \notin mask
  BY Chips, OtherAssumption DEF Wired, Ready, Lines, Timer, Key, Disk, Cascade, SecondDisk
<1>2. /\ \A l \in latch : l \in Master /\ l \notin mask => l \in {Timer, Key}
      /\ Cascade \in Master /\ Cascade \notin mask
  BY Chips, OtherAssumption DEF Wired, Ready, Lines, Timer, Key, Disk, Cascade, SecondDisk
<1>3. \A l \in SlaveRequests : l = Disk
  BY <1>1 DEF SlaveRequests, Unblocked
<1>4. SlaveRequests \in {{}, {Disk}}
  BY <1>3
<1>5. Disk \in SlaveRequests <=> Disk \in latch /\ \A s \in inservice \cap Slave : Disk < s
  BY <1>1 DEF SlaveRequests, Unblocked
<1>6. \A l \in MasterRequests : \/ l \in {Timer, Key} /\ l \in latch
                                \/ l = Cascade /\ SlaveRequests = {Disk}
  BY <1>2, <1>4 DEF MasterRequests, Unblocked
<1>7. SlaveRequests = {Disk} /\ (\A s \in inservice \cap Master : Cascade < s)
        => Cascade \in MasterRequests
  BY <1>2 DEF MasterRequests, Unblocked
<1>8. \A l \in MasterRequests : \A s \in inservice \cap Master : l < s
  BY DEF MasterRequests, Unblocked
<1> QED
  BY <1>4, <1>5, <1>6, <1>7, <1>8

LEMMA LineIs ==
  ASSUME Wired, Ready, MasterRequests # {}
  PROVE  /\ Line \in latch
         /\ \/ Line \in {Timer, Key} /\ Line \in MasterRequests
            \/ Line = Disk /\ Cascade \in MasterRequests
<1>1. /\ SlaveRequests \in {{}, {Disk}} /\ (SlaveRequests = {Disk} => Disk \in latch)
      /\ \A l \in MasterRequests : \/ l \in {Timer, Key} /\ l \in latch
                                   \/ l = Cascade /\ SlaveRequests = {Disk}
  BY Requests
<1>2. MasterRequests \subseteq {0, 1, 2}
  BY <1>1 DEF Timer, Key, Cascade
<1>3. \E x \in MasterRequests : \A y \in MasterRequests : x <= y
  <2>1. CASE 0 \in MasterRequests
    BY <1>2, <2>1
  <2>2. CASE 0 \notin MasterRequests /\ 1 \in MasterRequests
    BY <1>2, <2>2
  <2>3. CASE 0 \notin MasterRequests /\ 1 \notin MasterRequests
    <3>1. MasterRequests = {2}
      BY <1>2, <2>3
    <3> QED
      BY <3>1, 2 <= 2
  <2> QED
    BY <2>1, <2>2, <2>3
<1>4. Min(MasterRequests) \in MasterRequests
  BY <1>3 DEF Min
<1>5. Min({Disk}) = Disk
  BY DEF Min, Disk
<1>6. Cascade \notin {Timer, Key}
  BY DEF Cascade, Timer, Key
<1>7. CASE Min(MasterRequests) = Cascade
  <2>1. SlaveRequests = {Disk} /\ Cascade \in MasterRequests
    BY <1>1, <1>4, <1>6, <1>7
  <2>2. Line = Disk
    BY <1>5, <1>7, <2>1 DEF Line
  <2> QED
    BY <1>1, <2>1, <2>2
<1>8. CASE Min(MasterRequests) # Cascade
  <2>1. Line = Min(MasterRequests)
    BY <1>8 DEF Line
  <2> QED
    BY <1>1, <1>4, <1>8, <2>1
<1> QED
  BY <1>7, <1>8

-----------------------------------------------------------------------------
(* The interrupts: the stack, and what a write does *)

LEMMA NextWrite ==
  ASSUME NEW t, NEW l, NEW s
  PROVE  [FrameOf(t, l, s) EXCEPT !.todo = Tail(@)] = FrameOf(Tail(t), l, s)
<1>1. [FrameOf(t, l, s) EXCEPT !.todo = Tail(@)] = [FrameOf(t, l, s) EXCEPT !.todo = Tail(t)]
  BY DEF FrameOf
<1>2. \A x : [FrameOf(t, l, s) EXCEPT !.todo = x] = FrameOf(x, l, s)
  BY DEF FrameOf
<1> QED
  BY <1>1, <1>2

LEMMA FrontIs ==
  ASSUME NEW m, NEW n, NEW t
  PROVE  Front(<<m, t>>) = <<m>> /\ Front(<<m, n, t>>) = <<m, n>>
<1> DEFINE S == {m, n, t}
<1> DEFINE two == SubSeq(<<m, t>>, 1, 1)
<1> DEFINE three == SubSeq(<<m, n, t>>, 1, 2)
<1>1. /\ <<m, t>>[1] = m /\ <<m, n, t>>[1] = m /\ <<m, n, t>>[2] = n
      /\ <<m>> \in Seq(S) /\ Len(<<m>>) = 1 /\ <<m, n>> \in Seq(S) /\ Len(<<m, n>>) = 2
  OBVIOUS
<1>2. /\ \A k \in 1 .. 1 : <<m, t>>[k] \in S /\ <<m, t>>[k] = <<m>>[k]
      /\ \A k \in 1 .. 2 : <<m, n, t>>[k] \in S /\ <<m, n, t>>[k] = <<m, n>>[k]
  BY <1>1
<1> HIDE DEF S
<1>3. /\ two \in Seq(S) /\ Len(two) = 1
      /\ \A k \in 1 .. 1 - 1 + 1 : two[k] = <<m, t>>[1 + k - 1]
  BY <1>2, SubSeqProperties
<1>4. /\ three \in Seq(S) /\ Len(three) = 2
      /\ \A k \in 1 .. 2 - 1 + 1 : three[k] = <<m, n, t>>[1 + k - 1]
  BY <1>2, SubSeqProperties
<1>5. Front(<<m, t>>) = two /\ Front(<<m, n, t>>) = three
  BY DEF Front
<1> HIDE DEF two, three
<1>6. /\ 1 - 1 + 1 = 1 /\ 2 - 1 + 1 = 2
      /\ \A k \in 1 .. 2 : 1 + k - 1 = k
      /\ \A k \in 1 .. 1 : 1 + k - 1 = k
  OBVIOUS
<1>7. \A k \in 1 .. 1 : two[k] = <<m>>[k]
  BY <1>2, <1>3, <1>6
<1>8. \A k \in 1 .. 2 : three[k] = <<m, n>>[k]
  BY <1>2, <1>4, <1>6
<1>9. two = <<m>>
  BY <1>1, <1>3, <1>7, SeqEqual
<1>10. three = <<m, n>>
  BY <1>1, <1>4, <1>8, SeqEqual
<1> QED
  BY <1>5, <1>9, <1>10

\* The stack's topmost frame, after none, one or two others.
Alone(t, l, s) == stack = <<FrameOf(t, l, s)>>
Upper(m, t, l, s) == stack = <<m, FrameOf(t, l, s)>>
Deep(m, d, t, l, s) == stack = <<m, d, FrameOf(t, l, s)>>

LEMMA OneFrame ==
  ASSUME NEW t, NEW l, NEW s, Alone(t, l, s)
  PROVE  /\ Top = FrameOf(t, l, s) /\ Top.todo = t /\ Len(stack) = 1
         /\ Advance => stack' = <<FrameOf(Tail(t), l, s)>>
         /\ [stack EXCEPT ![Len(stack)].todo = Tail(@)] = <<FrameOf(Tail(t), l, s)>>
<1> USE DEF Alone
<1>1. Top = FrameOf(t, l, s) /\ Top.todo = t /\ Len(stack) = 1
  BY DEF Top, Last, FrameOf
<1>2. [stack EXCEPT ![Len(stack)].todo = Tail(@)] = <<FrameOf(Tail(t), l, s)>>
  <2>1. [stack EXCEPT ![Len(stack)].todo = Tail(@)]
          = [stack EXCEPT ![1] = [FrameOf(t, l, s) EXCEPT !.todo = Tail(@)]]
    BY <1>1
  <2>2. [stack EXCEPT ![1] = FrameOf(Tail(t), l, s)] = <<FrameOf(Tail(t), l, s)>>
    OBVIOUS
  <2>3. [FrameOf(t, l, s) EXCEPT !.todo = Tail(@)] = FrameOf(Tail(t), l, s)
    BY NextWrite
  <2> QED
    BY <2>1, <2>2, <2>3, Zenon
<1> QED
  BY <1>1, <1>2 DEF Advance

LEMMA TwoFrames ==
  ASSUME NEW m, NEW t, NEW l, NEW s, Upper(m, t, l, s)
  PROVE  /\ Top = FrameOf(t, l, s) /\ Top.todo = t /\ Len(stack) = 2 /\ Front(stack) = <<m>>
         /\ Advance => stack' = <<m, FrameOf(Tail(t), l, s)>>
<1> USE DEF Upper
<1>1. Top = FrameOf(t, l, s) /\ Top.todo = t /\ Len(stack) = 2
  BY DEF Top, Last, FrameOf
<1>2. [stack EXCEPT ![Len(stack)].todo = Tail(@)] = <<m, FrameOf(Tail(t), l, s)>>
  <2>1. [stack EXCEPT ![Len(stack)].todo = Tail(@)]
          = [stack EXCEPT ![2] = [FrameOf(t, l, s) EXCEPT !.todo = Tail(@)]]
    BY <1>1
  <2>2. [stack EXCEPT ![2] = FrameOf(Tail(t), l, s)] = <<m, FrameOf(Tail(t), l, s)>>
    OBVIOUS
  <2>3. [FrameOf(t, l, s) EXCEPT !.todo = Tail(@)] = FrameOf(Tail(t), l, s)
    BY NextWrite
  <2> QED
    BY <2>1, <2>2, <2>3, Zenon
<1>3. Front(stack) = <<m>>
  BY FrontIs
<1> QED
  BY <1>1, <1>2, <1>3 DEF Advance

LEMMA ThreeFrames ==
  ASSUME NEW m, NEW d, NEW t, NEW l, NEW s, Deep(m, d, t, l, s)
  PROVE  /\ Top = FrameOf(t, l, s) /\ Top.todo = t /\ Len(stack) = 3 /\ Front(stack) = <<m, d>>
         /\ Advance => stack' = <<m, d, FrameOf(Tail(t), l, s)>>
<1> USE DEF Deep
<1>1. Top = FrameOf(t, l, s) /\ Top.todo = t /\ Len(stack) = 3
  BY DEF Top, Last, FrameOf
<1>2. [stack EXCEPT ![Len(stack)].todo = Tail(@)] = <<m, d, FrameOf(Tail(t), l, s)>>
  <2>1. [stack EXCEPT ![Len(stack)].todo = Tail(@)]
          = [stack EXCEPT ![3] = [FrameOf(t, l, s) EXCEPT !.todo = Tail(@)]]
    BY <1>1
  <2>2. [stack EXCEPT ![3] = FrameOf(Tail(t), l, s)] = <<m, d, FrameOf(Tail(t), l, s)>>
    OBVIOUS
  <2>3. [FrameOf(t, l, s) EXCEPT !.todo = Tail(@)] = FrameOf(Tail(t), l, s)
    BY NextWrite
  <2> QED
    BY <2>1, <2>2, <2>3, Zenon
<1>3. Front(stack) = <<m, d>>
  BY FrontIs
<1> QED
  BY <1>1, <1>2, <1>3 DEF Advance

LEMMA Effects ==
  ASSUME Write
  PROVE  /\ ~Deliverable /\ Top.todo # <<>>
         /\ Op[1] = "gate" => /\ gate' = [gate EXCEPT ![Op[2]] = [isr |-> Op[3], flags |-> Op[4]]]
                              /\ UNCHANGED <<pic, high, busy, enabled>> /\ Advance
         /\ Op[1] = "cmd" => /\ TakeCommand(Op[2], Op[3])
                             /\ UNCHANGED <<gate, high, busy, enabled>> /\ Advance
         /\ Op[1] = "data" => /\ TakeData(Op[2], Op[3])
                              /\ UNCHANGED <<gate, high, busy, enabled>> /\ Advance
         /\ Op[1] = "unmask" => /\ mask' = mask \ {Op[2]}
                                /\ UNCHANGED <<gate, base, icw, latch, inservice, high, busy, enabled>>
                                /\ Advance
         /\ Op[1] = "cli" => enabled' = FALSE /\ UNCHANGED <<gate, pic, high, busy>> /\ Advance
         /\ Op[1] = "sti" => enabled' = TRUE /\ UNCHANGED <<gate, pic, high, busy>> /\ Advance
         /\ Op[1] = "read60" => /\ Lower(Key)
                                /\ UNCHANGED <<gate, base, icw, mask, inservice, busy, enabled>>
                                /\ Advance
         /\ Op[1] = "command" => busy' = TRUE /\ UNCHANGED <<gate, pic, high, enabled>> /\ Advance
         /\ Op[1] = "wait" => /\ ~busy /\ Lower(Disk)
                              /\ UNCHANGED <<gate, base, icw, mask, inservice, busy, enabled>>
                              /\ Advance
         /\ Op[1] = "int80" => /\ Enter([stack EXCEPT ![Len(stack)].todo = Tail(@)],
                                        gate[128].isr \o Op[2], gate[128].flags, NoLine)
                               /\ UNCHANGED <<gate, pic, high, busy>>
         /\ Op[1] = "spin" => UNCHANGED <<gate, pic, high, busy, enabled>> /\ Advance
  BY DEF Write

LEMMA Acknowledge ==
  ASSUME NEW chip, TakeCommand(chip, PIC_EOI)
  PROVE  /\ UNCHANGED <<base, icw, mask, latch>>
         /\ inservice \cap chip = {} => inservice' = inservice
         /\ inservice \cap chip # {} => inservice' = inservice \ {Min(inservice \cap chip)}
  BY DEF TakeCommand

LEMMA Least ==
  ASSUME NEW l \in {Timer, Key}
  PROVE  Min({l}) = l /\ Min({l, Cascade}) = l /\ Min({Disk}) = Disk /\ Min({Cascade}) = Cascade
  BY DEF Min, Timer, Key, Cascade, Disk

LEMMA DiskFrameIs ==
  ASSUME NEW d \in DiskFrames
  PROVE  \/ d = FrameOf(<<EoiSlave, EoiMaster>>, Disk, TRUE) /\ Owes(d) = {Disk, Cascade}
         \/ d = FrameOf(<<EoiMaster>>, Disk, TRUE) /\ Owes(d) = {Cascade}
         \/ d = FrameOf(<<>>, Disk, TRUE) /\ Owes(d) = {}
<1>1. PICK t \in DiskTodos : d = FrameOf(t, Disk, TRUE)
  BY DEF DiskFrames
<1> QED
  BY <1>1, Owed DEF DiskTodos

LEMMA QuickFrameIs ==
  ASSUME NEW h \in QuickFrames
  PROVE  \/ h = FrameOf(<<Read60, EoiMaster>>, Key, TRUE) /\ Owes(h) = {Key}
         \/ \E l \in {Timer, Key} : h = FrameOf(<<EoiMaster>>, l, TRUE) /\ Owes(h) = {l}
         \/ \E l \in {Timer, Key} : h = FrameOf(<<>>, l, TRUE) /\ Owes(h) = {}
<1>1. \E t \in TimerTodos \cup KeyTodos :
        \E l \in {Timer, Key} : h = FrameOf(t, l, TRUE) /\ (t = <<Read60, EoiMaster>> => l = Key)
  <2>1. CASE \E t \in TimerTodos : h = FrameOf(t, Timer, TRUE)
    <3>1. <<Read60, EoiMaster>> \notin TimerTodos
      BY DEF TimerTodos
    <3> QED
      BY <2>1, <3>1
  <2>2. CASE \E t \in KeyTodos : h = FrameOf(t, Key, TRUE)
    BY <2>2
  <2> QED
    BY <2>1, <2>2 DEF QuickFrames
<1>2. PICK t \in TimerTodos \cup KeyTodos, l \in {Timer, Key} :
        h = FrameOf(t, l, TRUE) /\ (t = <<Read60, EoiMaster>> => l = Key)
  BY <1>1
<1>3. t \in {<<Read60, EoiMaster>>, <<EoiMaster>>, <<>>} /\ Disk \notin {Timer, Key}
  BY <1>2 DEF TimerTodos, KeyTodos, Disk, Timer, Key
<1> QED
  BY <1>2, <1>3, Owed

LEMMA HandlerFrameIs ==
  ASSUME NEW f \in QuickFrames \cup DiskFrames
  PROVE  \E t, l : f = FrameOf(t, l, TRUE) /\ (t = <<>> => Owes(f) = {})
<1>1. <<EoiMaster>> # <<>> /\ <<EoiSlave, EoiMaster>> # <<>> /\ <<Read60, EoiMaster>> # <<>>
  OBVIOUS
<1>2. CASE f \in QuickFrames
  <2>1. CASE f = FrameOf(<<Read60, EoiMaster>>, Key, TRUE)
    BY <1>1, <2>1
  <2>2. CASE \E l \in {Timer, Key} : f = FrameOf(<<EoiMaster>>, l, TRUE)
    BY <1>1, <2>2
  <2>3. CASE \E l \in {Timer, Key} : f = FrameOf(<<>>, l, TRUE) /\ Owes(f) = {}
    BY <2>3
  <2> QED
    BY <1>2, <2>1, <2>2, <2>3, QuickFrameIs
<1>3. CASE f \in DiskFrames
  <2>1. CASE f = FrameOf(<<EoiSlave, EoiMaster>>, Disk, TRUE)
    BY <1>1, <2>1
  <2>2. CASE f = FrameOf(<<EoiMaster>>, Disk, TRUE)
    BY <1>1, <2>2
  <2>3. CASE f = FrameOf(<<>>, Disk, TRUE) /\ Owes(f) = {}
    BY <2>3
  <2> QED
    BY <1>3, <2>1, <2>2, <2>3, DiskFrameIs
<1> QED
  BY <1>2, <1>3

LEMMA Pushed ==
  ASSUME NEW m, NEW d, NEW f
  PROVE  Append(<<m>>, f) = <<m, f>> /\ Append(<<m, d>>, f) = <<m, d, f>>
<1> DEFINE S == {m, d, f}
<1>1. /\ <<m>> \in Seq(S) /\ <<m, d>> \in Seq(S) /\ <<m, f>> \in Seq(S) /\ <<m, d, f>> \in Seq(S)
      /\ f \in S /\ Len(<<m>>) = 1 /\ Len(<<m, d>>) = 2 /\ Len(<<m, f>>) = 2 /\ Len(<<m, d, f>>) = 3
  OBVIOUS
<1> HIDE DEF S
<1>2. /\ Append(<<m>>, f) \in Seq(S) /\ Len(Append(<<m>>, f)) = 2
      /\ Append(<<m>>, f)[1] = m /\ Append(<<m>>, f)[2] = f
  BY <1>1, AppendProperties
<1>3. /\ Append(<<m, d>>, f) \in Seq(S) /\ Len(Append(<<m, d>>, f)) = 3
      /\ Append(<<m, d>>, f)[1] = m /\ Append(<<m, d>>, f)[2] = d /\ Append(<<m, d>>, f)[3] = f
  BY <1>1, AppendProperties
<1>4. \A k \in 1 .. 2 : Append(<<m>>, f)[k] = <<m, f>>[k]
  BY <1>2
<1>5. \A k \in 1 .. 3 : Append(<<m, d>>, f)[k] = <<m, d, f>>[k]
  BY <1>3
<1>6. Append(<<m>>, f) = <<m, f>>
  BY <1>1, <1>2, <1>4, SeqEqual
<1> QED
  BY <1>1, <1>3, <1>5, <1>6, SeqEqual

LEMMA NewFrames ==
  /\ FrameOf(interrupt_pit_timer, Timer, TRUE) \in QuickFrames
  /\ Owes(FrameOf(interrupt_pit_timer, Timer, TRUE)) = {Timer}
  /\ FrameOf(kb_interrupt_hander, Key, TRUE) \in QuickFrames
  /\ Owes(FrameOf(kb_interrupt_hander, Key, TRUE)) = {Key}
  /\ FrameOf(ata_interrupt_primary_bus, Disk, TRUE) \in DiskFrames
  /\ Owes(FrameOf(ata_interrupt_primary_bus, Disk, TRUE)) = {Disk, Cascade}
<1>1. Disk \notin {Timer, Key}
  BY DEF Disk, Timer, Key
<1> QED
  BY <1>1, Codes, Owed DEF QuickFrames, DiskFrames, TimerTodos, KeyTodos, DiskTodos

-----------------------------------------------------------------------------
(* The interrupts: what each step preserves *)

\* Steps of a device that leave the processor alone.
LEMMA DeviceStep ==
  ASSUME Booting \/ Running, UNCHANGED <<gate, base, icw, mask, inservice, stack, enabled>>,
         \/ busy' = busy /\ (Disk \in latch' => Disk \in latch)
         \/ busy = TRUE /\ busy' = FALSE
  PROVE  (Booting \/ Running)'
<1>1. CASE Booting
  <2>1. PICK k \in 1 .. BootLen : Before(k)
    BY <1>1 DEF Booting
  <2>2. Before(k)'
    BY <2>1 DEF Before, WordsAt, MasksAt, GatesAt
  <2> QED
    BY <2>1, <2>2 DEF Booting
<1>2. CASE Running
  <2>1. Ready'
    BY <1>2 DEF Running, Ready
  <2>2. Disk \in latch' => ~busy'
    BY <1>2 DEF Running
  <2>3. PICK m \in MainFrames :
          \/ InMain(m)
          \/ \E f \in SysFrames : InSys(m, f)
          \/ \E h \in QuickFrames : InQuick(m, h)
          \/ \E d \in DiskFrames : InDisk(m, d)
          \/ \E d \in DiskFrames : \E h \in QuickFrames : InBoth(m, d, h)
    BY <1>2 DEF Running, Nested
  <2>4. InMain(m) => InMain(m)'
    BY DEF InMain
  <2>5. \A f : InSys(m, f) => InSys(m, f)'
    <3>1. DiskJob # <<Wait>>
      BY Codes
    <3> QED
      BY <3>1 DEF InSys
  <2>6. \A h : InQuick(m, h) => InQuick(m, h)'
    BY DEF InQuick
  <2>7. \A d : InDisk(m, d) => InDisk(m, d)'
    BY DEF InDisk
  <2>8. \A d, h : InBoth(m, d, h) => InBoth(m, d, h)'
    BY DEF InBoth
  <2>9. Nested'
    BY <2>3, <2>4, <2>5, <2>6, <2>7, <2>8 DEF Nested
  <2> QED
    BY <2>1, <2>2, <2>9 DEF Running
<1> QED
  BY <1>1, <1>2

\* What the processor is interrupted for has the gate of its own handler.
LEMMA Gates ==
  ASSUME Wired, Ready, MasterRequests # {}
  PROVE  /\ Vector(Line) = 32 + Line /\ Vector(Line) \in DOMAIN gate
         /\ Line = Timer => gate[Vector(Line)] = [isr |-> interrupt_pit_timer, flags |-> "int"]
         /\ Line = Key => gate[Vector(Line)] = [isr |-> kb_interrupt_hander, flags |-> "int"]
         /\ Line = Disk => gate[Vector(Line)] = [isr |-> ata_interrupt_primary_bus, flags |-> "trap"]
<1>1. Line \in {Timer, Key, Disk}
  BY LineIs
<1>2. Timer = 0 /\ Key = 1 /\ Disk = 14 /\ 0 \in Master /\ 1 \in Master /\ 14 \notin Master
  BY Chips DEF Timer, Key, Disk
<1>3. Vector(0) = 32 + 0 /\ Vector(1) = 32 + 1 /\ Vector(14) = 32 + 14
  BY <1>2 DEF Vector, Ready
<1>4. 32 + 0 = 32 /\ 32 + 1 = 33 /\ 32 + 14 = 46 /\ {32, 33, 46} \subseteq Vectors
  BY DEF Vectors
<1> QED
  BY <1>1, <1>2, <1>3, <1>4 DEF Ready, Wired

LEMMA AcceptStep ==
  ASSUME Wired, Running, Accept
  PROVE  Running'
<1>1. /\ Deliverable /\ latch' = latch \ {Line}
      /\ inservice' = inservice \cup {Line} \cup (IF Line \in Slave THEN {Cascade} ELSE {})
      /\ UNCHANGED <<gate, base, icw, mask, high, busy>>
  BY DEF Accept
<1>2. enabled /\ MasterRequests # {} /\ Ready /\ (Disk \in latch => ~busy) /\ Nested
  BY <1>1 DEF Deliverable, Running
<1>3. /\ Line \in latch
      /\ \/ Line \in {Timer, Key} /\ Line \in MasterRequests
         \/ Line = Disk /\ Cascade \in MasterRequests
  BY <1>2, LineIs
<1>4. Ready' /\ (Disk \in latch' => ~busy')
  BY <1>1, <1>2 DEF Ready
<1>5. /\ stack' = Append(stack, FrameOf(gate[Vector(Line)].isr, Line, TRUE))
      /\ gate[Vector(Line)].flags = "trap" => enabled' = TRUE
      /\ gate[Vector(Line)].flags = "int" => enabled' = FALSE
  <2>1. Vector(Line) \in DOMAIN gate /\ enabled = TRUE
    BY <1>2, Gates DEF Wired
  <2>2. Enter(stack, gate[Vector(Line)].isr, gate[Vector(Line)].flags, Line)
    BY <2>1 DEF Accept
  <2>3. stack' = Append(stack, FrameOf(gate[Vector(Line)].isr, Line, TRUE))
    BY <2>1, <2>2 DEF Enter, Frame, FrameOf
  <2>4. enabled' = (enabled /\ gate[Vector(Line)].flags = "trap")
    BY <2>2 DEF Enter
  <2>5. gate[Vector(Line)].flags = "trap" => enabled' = TRUE
    BY <2>1, <2>4
  <2>6. gate[Vector(Line)].flags = "int" => enabled' = FALSE
    BY <2>4
  <2> QED
    BY <2>3, <2>5, <2>6
<1>6. /\ Timer \notin Slave /\ Key \notin Slave /\ Disk \in Slave
      /\ Cascade \notin {Timer, Key} /\ Disk \notin {Timer, Key}
  BY Chips DEF Timer, Key, Disk, Cascade
<1>7. ASSUME Line \in {Timer, Key}
      PROVE  \E h \in QuickFrames : /\ stack' = Append(stack, h) /\ enabled' = FALSE
                                    /\ inservice' = inservice \cup Owes(h)
  <2>1. inservice' = inservice \cup {Line}
    BY <1>1, <1>6, <1>7
  <2>2. /\ gate[Vector(Line)].flags = "int"
        /\ Line = Timer => gate[Vector(Line)].isr = interrupt_pit_timer
        /\ Line = Key => gate[Vector(Line)].isr = kb_interrupt_hander
    BY <1>2, <1>7, Gates
  <2>3. CASE Line = Timer
    <3>1. stack' = Append(stack, FrameOf(interrupt_pit_timer, Timer, TRUE))
      BY <1>5, <2>2, <2>3
    <3>2. enabled' = FALSE
      BY <1>5, <2>2
    <3> QED
      BY <2>1, <2>3, <3>1, <3>2, NewFrames
  <2>4. CASE Line = Key
    <3>1. stack' = Append(stack, FrameOf(kb_interrupt_hander, Key, TRUE))
      BY <1>5, <2>2, <2>4
    <3>2. enabled' = FALSE
      BY <1>5, <2>2
    <3> QED
      BY <2>1, <2>4, <3>1, <3>2, NewFrames
  <2> QED
    BY <1>7, <2>3, <2>4
<1>8. ASSUME Line = Disk
      PROVE  \E d \in DiskFrames : /\ stack' = Append(stack, d) /\ enabled' = TRUE
                                   /\ inservice' = inservice \cup Owes(d)
  <2>1. inservice' = inservice \cup {Disk, Cascade}
    BY <1>1, <1>6, <1>8
  <2>2. gate[Vector(Line)].isr = ata_interrupt_primary_bus /\ gate[Vector(Line)].flags = "trap"
    BY <1>2, <1>8, Gates
  <2>3. stack' = Append(stack, FrameOf(ata_interrupt_primary_bus, Disk, TRUE))
    BY <1>5, <1>8, <2>2
  <2>4. enabled' = TRUE
    BY <1>5, <2>2
  <2> QED
    BY <2>1, <2>3, <2>4, NewFrames
<1>9. PICK m \in MainFrames : \/ InMain(m)
                              \/ \E d \in DiskFrames : InDisk(m, d)
  BY <1>2 DEF Nested, InSys, InQuick, InBoth
<1>10. CASE InMain(m)
  <2>1. stack = <<m>> /\ inservice = {} /\ (busy => m.todo = <<Wait>>)
    BY <1>10 DEF InMain
  <2>2. CASE Line = Disk
    <3>1. PICK d \in DiskFrames : stack' = Append(stack, d) /\ enabled' = TRUE /\ inservice' = inservice \cup Owes(d)
      BY <1>8, <2>2
    <3>2. stack' = <<m, d>>
      BY <2>1, <3>1, Pushed
    <3>3. ~busy' /\ Disk \notin latch'
      BY <1>1, <1>2, <1>3, <2>2
    <3>4. InDisk(m, d)'
      BY <2>1, <3>1, <3>2, <3>3 DEF InDisk
    <3> QED
      BY <1>4, <3>4 DEF Running, Nested
  <2>3. CASE Line \in {Timer, Key}
    <3>1. PICK h \in QuickFrames : stack' = Append(stack, h) /\ enabled' = FALSE /\ inservice' = inservice \cup Owes(h)
      BY <1>7, <2>3
    <3>2. stack' = <<m, h>>
      BY <2>1, <3>1, Pushed
    <3>3. InQuick(m, h)'
      BY <1>1, <2>1, <3>1, <3>2 DEF InQuick
    <3> QED
      BY <1>4, <3>3 DEF Running, Nested
  <2> QED
    BY <1>3, <2>2, <2>3
<1>11. CASE \E d \in DiskFrames : InDisk(m, d)
  <2>1. PICK d \in DiskFrames : InDisk(m, d)
    BY <1>11
  <2>2. stack = <<m, d>> /\ inservice = Owes(d) /\ ~busy /\ Disk \notin latch
    BY <2>1 DEF InDisk
  <2>3. Line \in {Timer, Key}
    BY <1>3, <2>2
  <2>4. PICK h \in QuickFrames : stack' = Append(stack, h) /\ enabled' = FALSE /\ inservice' = inservice \cup Owes(h)
    BY <1>7, <2>3
  <2>5. stack' = <<m, d, h>>
    BY <2>2, <2>4, Pushed
  <2>6. InBoth(m, d, h)'
    BY <1>1, <2>2, <2>4, <2>5 DEF InBoth
  <2> QED
    BY <1>4, <2>6 DEF Running, Nested
<1> QED
  BY <1>9, <1>10, <1>11

LEMMA IretStep ==
  ASSUME Wired, Running, Iret
  PROVE  Running'
<1>1. /\ Top.todo = <<>> /\ Len(stack) > 1 /\ enabled' = Top.saved /\ stack' = Front(stack)
      /\ UNCHANGED <<gate, base, mask, latch, inservice, busy>>
  BY DEF Iret, pic
<1>2. Ready' /\ (Disk \in latch' => ~busy') /\ Nested
  BY <1>1 DEF Running, Ready
<1>3. PICK m \in MainFrames : \/ InMain(m)
                              \/ \E f \in SysFrames : InSys(m, f)
                              \/ \E h \in QuickFrames : InQuick(m, h)
                              \/ \E d \in DiskFrames : InDisk(m, d)
                              \/ \E d \in DiskFrames : \E h \in QuickFrames : InBoth(m, d, h)
  BY <1>2 DEF Nested
<1>4. ~InMain(m)
  <2>1. Len(<<m>>) = 1
    OBVIOUS
  <2> QED
    BY <1>1, <2>1, ~(1 > 1) DEF InMain
<1>5. <<Wait>> # <<>>
  OBVIOUS
<1>6. ASSUME NEW f \in SysFrames, InSys(m, f) PROVE InMain(m)'
  <2>1. PICK t \in SysTodos : f = FrameOf(t, NoLine, TRUE)
    BY DEF SysFrames
  <2>2. Upper(m, t, NoLine, TRUE)
    BY <1>6, <2>1 DEF InSys, Upper
  <2>3. Top = f /\ Top.todo = t /\ Front(stack) = <<m>> /\ f.todo = t /\ f.saved = TRUE
    BY <2>1, <2>2, TwoFrames DEF FrameOf
  <2> QED
    BY <1>1, <1>5, <1>6, <2>3 DEF InSys, InMain
<1>7. ASSUME NEW h \in QuickFrames, InQuick(m, h) PROVE InMain(m)'
  <2>1. \E t, l : h = FrameOf(t, l, TRUE) /\ (t = <<>> => Owes(h) = {})
    BY HandlerFrameIs
  <2>2. PICK t, l : h = FrameOf(t, l, TRUE) /\ (t = <<>> => Owes(h) = {})
    BY <2>1
  <2>3. Upper(m, t, l, TRUE)
    BY <1>7, <2>2 DEF InQuick, Upper
  <2>4. Top = h /\ Top.todo = t /\ Front(stack) = <<m>> /\ h.saved = TRUE
    BY <2>2, <2>3, TwoFrames DEF FrameOf
  <2> QED
    BY <1>1, <1>7, <2>2, <2>4 DEF InQuick, InMain
<1>8. ASSUME NEW d \in DiskFrames, InDisk(m, d) PROVE InMain(m)'
  <2>1. \E t, l : d = FrameOf(t, l, TRUE) /\ (t = <<>> => Owes(d) = {})
    BY HandlerFrameIs
  <2>2. PICK t, l : d = FrameOf(t, l, TRUE) /\ (t = <<>> => Owes(d) = {})
    BY <2>1
  <2>3. Upper(m, t, l, TRUE)
    BY <1>8, <2>2 DEF InDisk, Upper
  <2>4. Top = d /\ Top.todo = t /\ Front(stack) = <<m>> /\ d.saved = TRUE
    BY <2>2, <2>3, TwoFrames DEF FrameOf
  <2> QED
    BY <1>1, <1>8, <2>2, <2>4 DEF InDisk, InMain
<1>9. ASSUME NEW d \in DiskFrames, NEW h \in QuickFrames, InBoth(m, d, h) PROVE InDisk(m, d)'
  <2>1. \E t, l : h = FrameOf(t, l, TRUE) /\ (t = <<>> => Owes(h) = {})
    BY HandlerFrameIs
  <2>2. PICK t, l : h = FrameOf(t, l, TRUE) /\ (t = <<>> => Owes(h) = {})
    BY <2>1
  <2>3. Deep(m, d, t, l, TRUE)
    BY <1>9, <2>2 DEF InBoth, Deep
  <2>4. Top = h /\ Top.todo = t /\ Front(stack) = <<m, d>> /\ h.saved = TRUE
    BY <2>2, <2>3, ThreeFrames DEF FrameOf
  <2> QED
    BY <1>1, <1>9, <2>2, <2>4 DEF InBoth, InDisk
<1>10. Nested'
  BY <1>3, <1>4, <1>6, <1>7, <1>8, <1>9 DEF Nested
<1> QED
  BY <1>2, <1>10 DEF Running

LEMMA MainStep ==
  ASSUME Wired, Running, NEW work \in Jobs, Work(work)
  PROVE  Running'
<1>1. /\ Top.todo = <<>> /\ Len(stack) = 1 /\ stack' = <<FrameOf(work, NoLine, enabled)>>
      /\ UNCHANGED <<gate, base, mask, latch, inservice, busy, enabled>>
  BY DEF Work, pic, Frame, FrameOf
<1>2. Ready' /\ (Disk \in latch' => ~busy') /\ Nested
  BY <1>1 DEF Running, Ready
<1>3. PICK m \in MainFrames : InMain(m)
  <2>1. \A m, f : Len(<<m, f>>) # 1
    OBVIOUS
  <2>2. \A m, d, h : Len(<<m, d, h>>) # 1
    OBVIOUS
  <2> QED
    BY <1>1, <1>2, <2>1, <2>2 DEF Nested, InSys, InQuick, InDisk, InBoth
<1>4. m.todo = <<>>
  <2>1. Last(<<m>>) = m
    BY DEF Last
  <2> QED
    BY <1>1, <1>3, <2>1 DEF InMain, Top
<1>5. ~busy /\ enabled \in BOOLEAN
  BY <1>3, <1>4 DEF InMain, Wired
<1>6. work \in MainTodos
  BY Codes DEF Jobs, MainTodos, DiskJob
<1>7. FrameOf(work, NoLine, enabled) \in MainFrames
  BY <1>5, <1>6 DEF MainFrames
<1>8. InMain(FrameOf(work, NoLine, enabled))'
  BY <1>1, <1>3, <1>5 DEF InMain
<1>9. Nested'
  BY <1>1, <1>5, <1>7, <1>8 DEF Nested
<1> QED
  BY <1>2, <1>9 DEF Running

LEMMA WriteInMain ==
  ASSUME Wired, Running, NEW m \in MainFrames, InMain(m), Write
  PROVE  Running'
<1>1. PICK t \in MainTodos, s \in BOOLEAN : m = FrameOf(t, NoLine, s)
  BY DEF MainFrames
<1>2. /\ stack = <<FrameOf(t, NoLine, s)>> /\ enabled = TRUE /\ inservice = {} /\ (busy => t = <<Wait>>)
      /\ Ready /\ busy \in BOOLEAN
  BY <1>1 DEF InMain, FrameOf, Running, Wired
<1>3. /\ Top.todo = t /\ ~Deliverable /\ t # <<>> /\ Op = Head(t)
      /\ Advance => stack' = <<FrameOf(Tail(t), NoLine, s)>>
      /\ [stack EXCEPT ![Len(stack)].todo = Tail(@)] = <<FrameOf(Tail(t), NoLine, s)>>
  <2>1. /\ Top.todo = t
        /\ Advance => stack' = <<FrameOf(Tail(t), NoLine, s)>>
        /\ [stack EXCEPT ![Len(stack)].todo = Tail(@)] = <<FrameOf(Tail(t), NoLine, s)>>
    <3>1. Alone(t, NoLine, s)
      BY <1>2 DEF Alone
    <3> QED
      BY <3>1, OneFrame
  <2>2. ~Deliverable /\ Top.todo # <<>>
    BY Effects
  <2> QED
    BY <2>1, <2>2 DEF Op
<1>4. Disk \notin latch
  <2>1. MasterRequests = {}
    BY <1>2, <1>3 DEF Deliverable
  <2> QED
    BY <1>2, <2>1, Requests
<1>5. CASE t = <<<<"spin">>>>
  <2>1. Op[1] = "spin" /\ Tail(t) = <<>>
    BY <1>3, <1>5
  <2>2. UNCHANGED <<gate, base, mask, latch, inservice, busy, enabled>> /\ stack' = <<FrameOf(<<>>, NoLine, s)>>
    BY <1>3, <2>1, Effects DEF pic
  <2>3. ~busy
    <3>1. <<"spin">> # Wait
      BY DEF Wait
    <3> QED
      BY <1>2, <1>5, <3>1
  <2>4. FrameOf(<<>>, NoLine, s) \in MainFrames /\ InMain(FrameOf(<<>>, NoLine, s))'
    BY <1>2, <2>2, <2>3 DEF MainFrames, MainTodos, InMain
  <2> QED
    BY <1>2, <2>2, <2>3, <2>4 DEF Running, Ready, Nested
<1>6. CASE t = DiskJob
  <2>1. Op[1] = "command" /\ Tail(t) = <<Wait>>
    BY <1>3, <1>6, Codes, Kinds
  <2>2. UNCHANGED <<gate, base, mask, latch, inservice, enabled>> /\ stack' = <<FrameOf(<<Wait>>, NoLine, s)>>
    BY <1>3, <2>1, Effects DEF pic
  <2>3. FrameOf(<<Wait>>, NoLine, s) \in MainFrames /\ InMain(FrameOf(<<Wait>>, NoLine, s))'
    BY <1>2, <2>2 DEF MainFrames, MainTodos, InMain, FrameOf
  <2> QED
    BY <1>2, <1>4, <2>2, <2>3 DEF Running, Ready, Nested
<1>7. CASE t = <<Wait>>
  <2>1. Op[1] = "wait" /\ Tail(t) = <<>>
    BY <1>3, <1>7, Kinds
  <2>2. /\ UNCHANGED <<gate, base, mask, inservice, busy, enabled>> /\ ~busy
        /\ stack' = <<FrameOf(<<>>, NoLine, s)>>
    BY <1>3, <2>1, Effects
  <2>3. FrameOf(<<>>, NoLine, s) \in MainFrames /\ InMain(FrameOf(<<>>, NoLine, s))'
    BY <1>2, <2>2 DEF MainFrames, MainTodos, InMain
  <2> QED
    BY <1>2, <2>2, <2>3 DEF Running, Ready, Nested
<1>8. ASSUME NEW w \in {<<>>, DiskJob}, t = <<<<"int80", w>>>> PROVE Running'
  <2>1. Op[1] = "int80" /\ Op[2] = w /\ Tail(t) = <<>>
    BY <1>3, <1>8
  <2>2. /\ Enter(<<FrameOf(<<>>, NoLine, s)>>, gate[128].isr \o w, gate[128].flags, NoLine)
        /\ UNCHANGED <<gate, base, mask, latch, inservice, busy>>
    BY <1>3, <2>1, Effects DEF pic
  <2>3. gate[128].isr = <<>> /\ gate[128].flags = "int" /\ <<>> \o w = w
    <3>1. <<>> \in Seq({Command, Wait}) /\ DiskJob \in Seq({Command, Wait})
      BY Codes
    <3> QED
      BY <1>2, <3>1, ConcatEmptySeq DEF Ready, syscall_dispatch
  <2>4. stack' = <<FrameOf(<<>>, NoLine, s), FrameOf(w, NoLine, TRUE)>>
    BY <1>2, <2>2, <2>3, Pushed DEF Enter, Frame, FrameOf
  <2>5. ~enabled'
    BY <2>2, <2>3 DEF Enter
  <2>6. ~busy
    <3>1. <<"int80", w>> # Wait
      BY DEF Wait
    <3> QED
      BY <1>2, <1>8, <3>1
  <2>7. FrameOf(<<>>, NoLine, s) \in MainFrames /\ FrameOf(w, NoLine, TRUE) \in SysFrames
    <3>1. <<>> \in MainTodos /\ w \in SysTodos
      BY DEF MainTodos, SysTodos
    <3>2. FrameOf(<<>>, NoLine, s) \in MainFrames
      BY <3>1 DEF MainFrames
    <3> QED
      BY <3>1, <3>2 DEF SysFrames
  <2>8. InSys(FrameOf(<<>>, NoLine, s), FrameOf(w, NoLine, TRUE))'
    BY <1>2, <1>4, <2>2, <2>4, <2>5, <2>6 DEF InSys
  <2> QED
    BY <1>2, <1>4, <2>2, <2>7, <2>8 DEF Running, Ready, Nested
<1> QED
  BY <1>3, <1>5, <1>6, <1>7, <1>8 DEF MainTodos

LEMMA WriteInSys ==
  ASSUME Wired, Running, NEW m \in MainFrames, NEW f \in SysFrames, InSys(m, f), Write
  PROVE  Running'
<1>1. PICK t \in SysTodos : f = FrameOf(t, NoLine, TRUE)
  BY DEF SysFrames
<1>2. /\ stack = <<m, FrameOf(t, NoLine, TRUE)>> /\ ~enabled /\ inservice = {} /\ (busy => t = <<Wait>>)
      /\ Ready /\ (t = DiskJob => Disk \notin latch)
  BY <1>1 DEF InSys, FrameOf, Running
<1>3. /\ Top.todo = t /\ t # <<>> /\ Op = Head(t)
      /\ Advance => stack' = <<m, FrameOf(Tail(t), NoLine, TRUE)>>
  <2>1. /\ Top.todo = t
        /\ Advance => stack' = <<m, FrameOf(Tail(t), NoLine, TRUE)>>
    <3>1. Upper(m, t, NoLine, TRUE)
      BY <1>2 DEF Upper
    <3> QED
      BY <3>1, TwoFrames
  <2>2. Top.todo # <<>>
    BY Effects
  <2> QED
    BY <2>1, <2>2 DEF Op
<1>4. CASE t = DiskJob
  <2>1. Op[1] = "command" /\ Tail(t) = <<Wait>>
    BY <1>3, <1>4, Codes, Kinds
  <2>2. UNCHANGED <<gate, base, mask, latch, inservice, enabled>> /\ stack' = <<m, FrameOf(<<Wait>>, NoLine, TRUE)>>
    BY <1>3, <2>1, Effects DEF pic
  <2>3. FrameOf(<<Wait>>, NoLine, TRUE) \in SysFrames /\ InSys(m, FrameOf(<<Wait>>, NoLine, TRUE))'
    BY <1>2, <1>4, <2>2 DEF SysFrames, SysTodos, InSys, FrameOf
  <2> QED
    BY <1>2, <1>4, <2>2, <2>3 DEF Running, Ready, Nested
<1>5. CASE t = <<Wait>>
  <2>1. Op[1] = "wait" /\ Tail(t) = <<>>
    BY <1>3, <1>5, Kinds
  <2>2. /\ UNCHANGED <<gate, base, mask, inservice, busy, enabled>> /\ ~busy
        /\ stack' = <<m, FrameOf(<<>>, NoLine, TRUE)>>
    BY <1>3, <2>1, Effects
  <2>3. FrameOf(<<>>, NoLine, TRUE) \in SysFrames /\ InSys(m, FrameOf(<<>>, NoLine, TRUE))'
    BY <1>2, <2>2, Codes DEF SysFrames, SysTodos, InSys, FrameOf
  <2> QED
    BY <1>2, <2>2, <2>3 DEF Running, Ready, Nested
<1> QED
  BY <1>3, <1>4, <1>5 DEF SysTodos

\* A write of one of the handlers that interrupts stay off for: the top frame goes
\* on, and an acknowledgement ends its own service, whatever else is in service.
LEMMA QuickWrite ==
  ASSUME Wired, Running, NEW h \in QuickFrames, Write, Top = h, Top.todo # <<>>,
         inservice \ Owes(h) \in {{}, {Cascade}, {Disk, Cascade}}, Owes(h) \subseteq inservice
  PROVE  \E g \in QuickFrames :
           /\ [h EXCEPT !.todo = Tail(@)] = g
           /\ inservice' = (inservice \ Owes(h)) \cup Owes(g)
           /\ Advance /\ (Disk \in latch' => Disk \in latch)
           /\ UNCHANGED <<gate, base, mask, busy, enabled>>
<1>1. \/ h = FrameOf(<<Read60, EoiMaster>>, Key, TRUE) /\ Owes(h) = {Key}
      \/ \E l \in {Timer, Key} : h = FrameOf(<<EoiMaster>>, l, TRUE) /\ Owes(h) = {l}
  <2>1. \A l : FrameOf(<<>>, l, TRUE).todo = <<>>
    BY DEF FrameOf
  <2> QED
    BY <2>1, QuickFrameIs
<1>2. CASE h = FrameOf(<<Read60, EoiMaster>>, Key, TRUE) /\ Owes(h) = {Key}
  <2>1. Op = Read60 /\ Op[1] = "read60"
    BY <1>2, Kinds DEF Op, FrameOf
  <2>2. /\ Lower(Key) /\ UNCHANGED <<gate, base, icw, mask, inservice, busy, enabled>> /\ Advance
    BY <2>1, Effects
  <2>3. [h EXCEPT !.todo = Tail(@)] = FrameOf(<<EoiMaster>>, Key, TRUE)
    <3>1. Tail(<<Read60, EoiMaster>>) = <<EoiMaster>>
      OBVIOUS
    <3> QED
      BY <1>2, <3>1, NextWrite
  <2>4. FrameOf(<<EoiMaster>>, Key, TRUE) \in QuickFrames /\ Owes(FrameOf(<<EoiMaster>>, Key, TRUE)) = {Key}
    <3>1. Key # Disk /\ <<EoiMaster>> \in KeyTodos
      BY DEF Key, Disk, KeyTodos
    <3> QED
      BY <3>1, Owed DEF QuickFrames
  <2>5. Disk \in latch' => Disk \in latch
    BY <2>2 DEF Lower
  <2>6. inservice' = (inservice \ Owes(h)) \cup {Key}
    BY <1>2, <2>2
  <2> QED
    BY <2>2, <2>3, <2>4, <2>5, <2>6
<1>3. ASSUME NEW l \in {Timer, Key}, h = FrameOf(<<EoiMaster>>, l, TRUE), Owes(h) = {l}
      PROVE  \E g \in QuickFrames :
               /\ [h EXCEPT !.todo = Tail(@)] = g
               /\ inservice' = (inservice \ Owes(h)) \cup Owes(g)
               /\ Advance /\ (Disk \in latch' => Disk \in latch)
               /\ UNCHANGED <<gate, base, mask, busy, enabled>>
  <2>1. Op = EoiMaster /\ Op[1] = "cmd" /\ Op[2] = Master /\ Op[3] = PIC_EOI
    BY <1>3, Kinds DEF Op, FrameOf
  <2>2. /\ TakeCommand(Master, PIC_EOI) /\ UNCHANGED <<gate, high, busy, enabled>> /\ Advance
    BY <2>1, Effects
  <2>3. inservice \cap Master \in {{l}, {l, Cascade}}
    <3>1. l \in Master /\ Cascade \in Master /\ Disk \notin Master
      BY Chips DEF Timer, Key, Cascade, Disk
    <3>2. inservice = {l} \cup (inservice \ {l}) /\ inservice \ {l} \in {{}, {Cascade}, {Disk, Cascade}}
      BY <1>3
    <3> QED
      BY <3>1, <3>2
  <2>4. Min(inservice \cap Master) = l
    BY <2>3, Least
  <2>5. UNCHANGED <<base, icw, mask, latch>> /\ inservice' = inservice \ {l}
    <3>1. inservice \cap Master # {}
      BY <2>3
    <3> QED
      BY <2>2, <2>4, <3>1, Acknowledge
  <2>6. [h EXCEPT !.todo = Tail(@)] = FrameOf(<<>>, l, TRUE)
    <3>1. Tail(<<EoiMaster>>) = <<>>
      OBVIOUS
    <3> QED
      BY <1>3, <3>1, NextWrite
  <2>7. FrameOf(<<>>, l, TRUE) \in QuickFrames /\ Owes(FrameOf(<<>>, l, TRUE)) = {}
    BY Owed DEF QuickFrames, KeyTodos, TimerTodos
  <2> QED
    BY <1>3, <2>2, <2>5, <2>6, <2>7
<1> QED
  BY <1>1, <1>2, <1>3

LEMMA WriteInQuick ==
  ASSUME Wired, Running, NEW m \in MainFrames, NEW h \in QuickFrames, InQuick(m, h), Write
  PROVE  Running'
<1>1. \E t, l : h = FrameOf(t, l, TRUE) /\ (t = <<>> => Owes(h) = {})
  BY HandlerFrameIs
<1>2. PICK t, l : h = FrameOf(t, l, TRUE) /\ (t = <<>> => Owes(h) = {})
  BY <1>1
<1>3. /\ stack = <<m, FrameOf(t, l, TRUE)>> /\ ~enabled /\ inservice = Owes(h)
      /\ (busy => m.todo = <<Wait>>) /\ Ready /\ (Disk \in latch => ~busy)
  BY <1>2 DEF InQuick, Running
<1>4. /\ Top = h
      /\ Advance => stack' = <<m, FrameOf(Tail(t), l, TRUE)>>
  <2>1. Upper(m, t, l, TRUE)
    BY <1>3 DEF Upper
  <2>2. /\ Top = FrameOf(t, l, TRUE)
        /\ Advance => stack' = <<m, FrameOf(Tail(t), l, TRUE)>>
    BY <2>1, TwoFrames
  <2> QED
    BY <1>2, <2>2
<1>5. Top.todo # <<>>
  BY Effects
<1>6. PICK g \in QuickFrames :
           /\ [h EXCEPT !.todo = Tail(@)] = g
           /\ inservice' = (inservice \ Owes(h)) \cup Owes(g)
           /\ Advance /\ (Disk \in latch' => Disk \in latch)
           /\ UNCHANGED <<gate, base, mask, busy, enabled>>
  <2>1. inservice \ Owes(h) = {} /\ Owes(h) \subseteq inservice
    BY <1>3
  <2> QED
    BY <1>4, <1>5, <2>1, QuickWrite
<1>7. g = FrameOf(Tail(t), l, TRUE)
  BY <1>2, <1>6, NextWrite
<1>8. InQuick(m, g)'
  BY <1>3, <1>4, <1>6, <1>7 DEF InQuick
<1> QED
  BY <1>3, <1>6, <1>8 DEF Running, Ready, Nested

LEMMA WriteInBoth ==
  ASSUME Wired, Running, NEW m \in MainFrames, NEW d \in DiskFrames, NEW h \in QuickFrames,
         InBoth(m, d, h), Write
  PROVE  Running'
<1>1. \E t, l : h = FrameOf(t, l, TRUE) /\ (t = <<>> => Owes(h) = {})
  BY HandlerFrameIs
<1>2. PICK t, l : h = FrameOf(t, l, TRUE) /\ (t = <<>> => Owes(h) = {})
  BY <1>1
<1>3. /\ stack = <<m, d, FrameOf(t, l, TRUE)>> /\ ~enabled /\ inservice = Owes(d) \cup Owes(h)
      /\ ~busy /\ Disk \notin latch /\ Ready
  BY <1>2 DEF InBoth, Running
<1>4. /\ Top = h
      /\ Advance => stack' = <<m, d, FrameOf(Tail(t), l, TRUE)>>
  <2>1. Deep(m, d, t, l, TRUE)
    BY <1>3 DEF Deep
  <2>2. Top = FrameOf(t, l, TRUE)
    BY <2>1, ThreeFrames
  <2>3. Advance => stack' = <<m, d, FrameOf(Tail(t), l, TRUE)>>
    BY <2>1, ThreeFrames
  <2> QED
    BY <1>2, <2>2, <2>3
<1>5. Top.todo # <<>>
  BY Effects
<1>6. Owes(d) \in {{}, {Cascade}, {Disk, Cascade}}
  BY DiskFrameIs
<1>7. inservice \ Owes(h) = Owes(d)
  <2>1. Owes(h) = {} \/ \E k \in {Timer, Key} : Owes(h) = {k}
    BY QuickFrameIs
  <2>2. Disk \notin {Timer, Key} /\ Cascade \notin {Timer, Key}
    BY DEF Disk, Cascade, Timer, Key
  <2> QED
    BY <1>3, <1>6, <2>1, <2>2
<1>8. PICK g \in QuickFrames :
           /\ [h EXCEPT !.todo = Tail(@)] = g
           /\ inservice' = (inservice \ Owes(h)) \cup Owes(g)
           /\ Advance /\ (Disk \in latch' => Disk \in latch)
           /\ UNCHANGED <<gate, base, mask, busy, enabled>>
  <2>1. inservice \ Owes(h) \in {{}, {Cascade}, {Disk, Cascade}} /\ Owes(h) \subseteq inservice
    BY <1>3, <1>6, <1>7
  <2> QED
    BY <1>4, <1>5, <2>1, QuickWrite
<1>9. g = FrameOf(Tail(t), l, TRUE)
  BY <1>2, <1>8, NextWrite
<1>10. InBoth(m, d, g)'
  BY <1>3, <1>4, <1>7, <1>8, <1>9 DEF InBoth
<1> QED
  BY <1>3, <1>8, <1>10 DEF Running, Ready, Nested

LEMMA WriteInDisk ==
  ASSUME Wired, Running, NEW m \in MainFrames, NEW d \in DiskFrames, InDisk(m, d), Write
  PROVE  Running'
<1>1. stack = <<m, d>> /\ enabled /\ inservice = Owes(d) /\ ~busy /\ Disk \notin latch /\ Ready
  BY DEF InDisk, Running
<1>2. /\ Disk \in Slave /\ Disk \notin Master /\ Cascade \in Master /\ Cascade \notin Slave
      /\ Disk # Cascade
  BY Chips DEF Disk, Cascade
<1>3. Top.todo # <<>>
  BY Effects
<1>4. ASSUME NEW t, NEW e, NEW g, NEW chip, NEW l, d = FrameOf(t, Disk, TRUE), Head(t) = e,
             e[1] = "cmd", e[2] = chip, e[3] = PIC_EOI,
             g = FrameOf(Tail(t), Disk, TRUE), g \in DiskFrames,
             inservice \cap chip = {l}, l \in {Disk, Cascade}, inservice \ {l} = Owes(g)
      PROVE  Running'
  <2>2. Op = e
    <3>1. Upper(m, t, Disk, TRUE)
      BY <1>1, <1>4 DEF Upper
    <3>2. Top.todo = t
      BY <3>1, TwoFrames
    <3> QED
      BY <1>4, <3>2 DEF Op
  <2>3. TakeCommand(chip, PIC_EOI) /\ UNCHANGED <<gate, high, busy, enabled>> /\ Advance
    BY <1>4, <2>2, Effects
  <2>4. stack' = <<m, g>>
    <3>1. Upper(m, t, Disk, TRUE)
      BY <1>1, <1>4 DEF Upper
    <3>2. Advance => stack' = <<m, FrameOf(Tail(t), Disk, TRUE)>>
      BY <3>1, TwoFrames
    <3> QED
      BY <1>4, <2>3, <3>2
  <2>5. Min({l}) = l
    BY <1>4, Least
  <2>6. UNCHANGED <<base, icw, mask, latch>> /\ inservice' = Owes(g)
    <3>1. inservice \cap chip # {}
      BY <1>4
    <3> QED
      BY <1>4, <2>3, <2>5, <3>1, Acknowledge
  <2>7. InDisk(m, g)'
    BY <1>1, <2>3, <2>4, <2>6 DEF InDisk
  <2> QED
    BY <1>1, <1>4, <2>3, <2>6, <2>7 DEF Running, Ready, Nested
<1>5. CASE d = FrameOf(<<EoiSlave, EoiMaster>>, Disk, TRUE) /\ Owes(d) = {Disk, Cascade}
  <2>1. Head(<<EoiSlave, EoiMaster>>) = EoiSlave /\ Tail(<<EoiSlave, EoiMaster>>) = <<EoiMaster>>
    OBVIOUS
  <2>2. inservice \cap Slave = {Disk} /\ inservice \ {Disk} = {Cascade}
    BY <1>1, <1>2, <1>5
  <2>3. FrameOf(<<EoiMaster>>, Disk, TRUE) \in DiskFrames /\ Owes(FrameOf(<<EoiMaster>>, Disk, TRUE)) = {Cascade}
    BY Owed DEF DiskFrames, DiskTodos
  <2> QED
    BY <1>4, <1>5, <2>1, <2>2, <2>3, Kinds
<1>6. CASE d = FrameOf(<<EoiMaster>>, Disk, TRUE) /\ Owes(d) = {Cascade}
  <2>1. Head(<<EoiMaster>>) = EoiMaster /\ Tail(<<EoiMaster>>) = <<>>
    OBVIOUS
  <2>2. inservice \cap Master = {Cascade} /\ inservice \ {Cascade} = {}
    BY <1>1, <1>2, <1>6
  <2>3. FrameOf(<<>>, Disk, TRUE) \in DiskFrames /\ Owes(FrameOf(<<>>, Disk, TRUE)) = {}
    BY Owed DEF DiskFrames, DiskTodos
  <2> QED
    BY <1>4, <1>6, <2>1, <2>2, <2>3, Kinds
<1>7. d # FrameOf(<<>>, Disk, TRUE)
  <2>1. ASSUME d = FrameOf(<<>>, Disk, TRUE) PROVE FALSE
    <3>1. Upper(m, <<>>, Disk, TRUE)
      BY <1>1, <2>1 DEF Upper
    <3> QED
      BY <1>3, <3>1, TwoFrames
  <2> QED
    BY <2>1
<1> QED
  BY <1>5, <1>6, <1>7, DiskFrameIs

LEMMA RunStep ==
  ASSUME Wired, Running, Cpu
  PROVE  Running'
<1>1. CASE Write
  <2>1. PICK m \in MainFrames :
          \/ InMain(m)
          \/ \E f \in SysFrames : InSys(m, f)
          \/ \E h \in QuickFrames : InQuick(m, h)
          \/ \E d \in DiskFrames : InDisk(m, d)
          \/ \E d \in DiskFrames : \E h \in QuickFrames : InBoth(m, d, h)
    BY DEF Running, Nested
  <2> QED
    BY <1>1, <2>1, WriteInMain, WriteInSys, WriteInQuick, WriteInDisk, WriteInBoth
<1> QED
  BY <1>1, AcceptStep, IretStep, MainStep DEF Cpu

-----------------------------------------------------------------------------
(* The interrupts: the boot code's writes *)

LEMMA WordsStay ==
  ASSUME NEW k \in 1 .. BootLen, k \notin 42 .. 49, WordsAt(k), UNCHANGED <<base, icw>>
  PROVE  WordsAt(k + 1)'
<1>1. IcwMaster(k) = 1 /\ IcwSlave(k) = 1 /\ IcwMaster(k + 1) = 1 /\ IcwSlave(k + 1) = 1
  BY DEF BootLen, IcwMaster, IcwSlave
<1>2. (k + 1 > 44 => k > 44) /\ (k + 1 > 45 => k > 45)
  BY DEF BootLen
<1> QED
  BY <1>1, <1>2 DEF WordsAt

LEMMA MasksFree ==
  ASSUME NEW k \in 1 .. 49
  PROVE  MasksAt(k + 1)'
<1>1. k + 1 # 51 /\ ~(k + 1 > 51)
  OBVIOUS
<1> QED
  BY <1>1 DEF MasksAt

LEMMA MasksStay ==
  ASSUME NEW k \in {52, 55, 56, 59, 60, 61, 62, 63}, MasksAt(k), UNCHANGED mask
  PROVE  MasksAt(k + 1)'
<1>1. Open(k + 1) = Open(k)
  BY DEF Open
<1>2. k + 1 # 51 /\ k > 51
  OBVIOUS
<1> QED
  BY <1>1, <1>2 DEF MasksAt

LEMMA MasksOpen ==
  ASSUME NEW k \in {53, 54, 57, 58, 64}, NEW l, MasksAt(k), mask' = mask \ {l},
         k = 53 => l = Timer, k = 54 => l = Cascade, k = 57 => l = Disk, k = 58 => l = SecondDisk,
         k = 64 => l = Key
  PROVE  MasksAt(k + 1)'
<1>1. Open(k + 1) = Open(k) \cup {l}
  BY DEF Open
<1>2. k + 1 # 51 /\ k > 51
  OBVIOUS
<1> QED
  BY <1>1, <1>2 DEF MasksAt

LEMMA GatesStay ==
  ASSUME NEW k \in 1 .. BootLen, k \notin {34, 52, 55, 63}, GatesAt(k),
         UNCHANGED <<gate[128], gate[32], gate[46], gate[33]>>
  PROVE  GatesAt(k + 1)'
<1>1. /\ (k + 1 > 34 => k > 34) /\ (k + 1 > 52 => k > 52)
      /\ (k + 1 > 55 => k > 55) /\ (k + 1 > 63 => k > 63)
  BY DEF BootLen
<1> QED
  BY <1>1 DEF GatesAt

\* The gates that the boot code sets for good, and when.
Sets(k, v, r, f) ==
  /\ v \in Vectors
  /\ v \in {128, 32, 46, 33} <=> k \in {34, 52, 55, 63}
  /\ k = 34 => v = 128 /\ r = syscall_dispatch /\ f = "int"
  /\ k = 52 => v = 32 /\ r = interrupt_pit_timer /\ f = "int"
  /\ k = 55 => v = 46 /\ r = ata_interrupt_primary_bus /\ f = "trap"
  /\ k = 63 => v = 33 /\ r = kb_interrupt_hander /\ f = "int"

LEMMA GateSet ==
  ASSUME Wired, NEW k \in 1 .. BootLen, NEW v, NEW r, NEW f, GatesAt(k), Sets(k, v, r, f),
         gate' = [gate EXCEPT ![v] = [isr |-> r, flags |-> f]]
  PROVE  GatesAt(k + 1)'
<1> USE DEF Sets
<1>1. DOMAIN gate = Vectors /\ DOMAIN gate' = Vectors
  BY DEF Wired
<1>2. \A w \in Vectors : gate'[w] = IF w = v THEN [isr |-> r, flags |-> f] ELSE gate[w]
  BY <1>1
<1>3. {128, 32, 46, 33} \subseteq Vectors
  BY DEF Vectors
<1>4. /\ (k + 1 > 34 => k > 34 \/ k = 34) /\ (k + 1 > 52 => k > 52 \/ k = 52)
      /\ (k + 1 > 55 => k > 55 \/ k = 55) /\ (k + 1 > 63 => k > 63 \/ k = 63)
  BY DEF BootLen
<1>5. k + 1 > 34 => gate'[128] = [isr |-> syscall_dispatch, flags |-> "int"]
  BY <1>2, <1>3, <1>4 DEF GatesAt
<1>6. k + 1 > 52 => gate'[32] = [isr |-> interrupt_pit_timer, flags |-> "int"]
  BY <1>2, <1>3, <1>4 DEF GatesAt
<1>7. k + 1 > 55 => gate'[46] = [isr |-> ata_interrupt_primary_bus, flags |-> "trap"]
  BY <1>2, <1>3, <1>4 DEF GatesAt
<1>8. k + 1 > 63 => gate'[33] = [isr |-> kb_interrupt_hander, flags |-> "int"]
  BY <1>2, <1>3, <1>4 DEF GatesAt
<1> QED
  BY <1>1, <1>5, <1>6, <1>7, <1>8 DEF GatesAt

\* The boot code is alone: whatever the processor does is its next write.
LEMMA BootWrite ==
  ASSUME NEW k \in 1 .. BootLen, Before(k), Cpu
  PROVE  /\ Write /\ Op = Boot[k]
         /\ Advance => stack' = <<FrameOf(Left(k + 1), NoLine, FALSE)>>
<1>1. Alone(Left(k), NoLine, FALSE) /\ ~enabled
  BY DEF Before, Alone
<1>2. Left(k) # <<>> /\ Head(Left(k)) = Boot[k] /\ Tail(Left(k)) = Left(k + 1)
  BY LeftIs
<1>3. /\ Top.todo = Left(k) /\ Len(stack) = 1
      /\ Advance => stack' = <<FrameOf(Tail(Left(k)), NoLine, FALSE)>>
  BY <1>1, OneFrame
<1>4. Write
  <2>1. ~Accept
    BY <1>1 DEF Accept, Deliverable
  <2>2. ~Iret /\ \A job : ~Work(job)
    BY <1>2, <1>3 DEF Iret, Work
  <2> QED
    BY <2>1, <2>2 DEF Cpu
<1> QED
  BY <1>2, <1>3, <1>4 DEF Op

LEMMA BootGate ==
  ASSUME Wired, NEW k \in 1 .. BootLen, Before(k), Cpu,
         k \in (2 .. 37) \cup {52, 55, 56, 63}
  PROVE  Before(k + 1)'
<1>1. /\ Write /\ Op = Boot[k]
      /\ Advance => stack' = <<FrameOf(Left(k + 1), NoLine, FALSE)>>
  BY BootWrite
<1> DEFINE set(v, r, f) == Op = Gate(v, r, f) /\ Sets(k, v, r, f)
<1>2. \E v, r, f : set(v, r, f)
  <2>1. CASE k \in 2 .. 33
    <3>1. Boot[k] = Gate(k - 2, exception, "trap")
      BY <2>1, BootIs
    <3>2. k - 2 \in Vectors /\ k - 2 \notin {128, 32, 46, 33} /\ k \notin {34, 52, 55, 63}
      BY <2>1 DEF Vectors
    <3>3. set(k - 2, exception, "trap")
      BY <1>1, <3>1, <3>2 DEF Sets
    <3> QED
      BY <3>3
  <2>2. ASSUME NEW v \in {0, 13, 14}, k \in {35, 36, 37}, Boot[k] = Gate(v, exception, "trap")
        PROVE  set(v, exception, "trap")
    <3>1. v \in Vectors /\ v \notin {128, 32, 46, 33} /\ k \notin {34, 52, 55, 63}
      BY <2>2 DEF Vectors
    <3> QED
      BY <1>1, <2>2, <3>1 DEF Sets
  <2>3. ASSUME k = 34 PROVE set(128, syscall_dispatch, "int")
    BY <1>1, <2>3, BootIs DEF Sets, Vectors
  <2>4. ASSUME k = 52 PROVE set(32, interrupt_pit_timer, "int")
    BY <1>1, <2>4, BootIs DEF Sets, Vectors, TimerGate
  <2>5. ASSUME k = 55 PROVE set(46, ata_interrupt_primary_bus, "trap")
    BY <1>1, <2>5, BootIs DEF Sets, Vectors
  <2>6. ASSUME k = 56 PROVE set(47, ata_interrupt_primary_bus, "trap")
    BY <1>1, <2>6, BootIs DEF Sets, Vectors
  <2>7. ASSUME k = 63 PROVE set(33, kb_interrupt_hander, "int")
    BY <1>1, <2>7, BootIs DEF Sets, Vectors
  <2>8. k = 35 => Boot[k] = Gate(0, exception, "trap")
    BY BootIs
  <2>9. k = 36 => Boot[k] = Gate(13, exception, "trap")
    BY BootIs
  <2>10. k = 37 => Boot[k] = Gate(14, exception, "trap")
    BY BootIs
  <2>11. k \in 2 .. 33 \/ k \in {34, 35, 36, 37, 52, 55, 56, 63}
    OBVIOUS
  <2> HIDE DEF set
  <2> QED
    BY <2>1, <2>2, <2>3, <2>4, <2>5, <2>6, <2>7, <2>8, <2>9, <2>10, <2>11
<1>3. PICK v, r, f : set(v, r, f)
  BY <1>2
<1>4. Op[1] = "gate" /\ Op[2] = v /\ Op[3] = r /\ Op[4] = f
  BY <1>3 DEF Gate
<1>5. /\ gate' = [gate EXCEPT ![v] = [isr |-> r, flags |-> f]]
      /\ UNCHANGED <<pic, high, busy, enabled>> /\ Advance
  BY <1>1, <1>4, Effects
<1>6. UNCHANGED <<base, icw, mask, latch, inservice, busy, enabled>>
  BY <1>5 DEF pic
<1>7. WordsAt(k + 1)'
  BY <1>6, WordsStay DEF Before
<1>8. MasksAt(k + 1)'
  <2>1. k \in 1 .. 49 \/ k \in {52, 55, 56, 63}
    OBVIOUS
  <2> QED
    BY <1>6, <2>1, MasksFree, MasksStay DEF Before
<1>9. GatesAt(k + 1)'
  <2>1. Sets(k, v, r, f)
    BY <1>3
  <2>2. GatesAt(k)
    BY DEF Before
  <2> QED
    BY <1>5, <2>1, <2>2, GateSet
<1>10. ~busy
  BY DEF Before
<1>11. stack' = <<FrameOf(Left(k + 1), NoLine, FALSE)>>
  BY <1>1, <1>5
<1>12. ~enabled' /\ inservice' = {} /\ ~busy'
  BY <1>6, <1>10 DEF Before
<1> QED
  BY <1>7, <1>8, <1>9, <1>11, <1>12 DEF Before

LEMMA DataWord ==
  ASSUME Wired, NEW c \in {Master, Slave}, NEW d \in {Master, Slave}, c # d, NEW b, TakeData(c, b)
  PROVE  /\ icw'[c] = (IF icw[c] \in {1, 4} THEN 1 ELSE icw[c] + 1) /\ icw'[d] = icw[d]
         /\ base'[c] = (IF icw[c] = 2 THEN b ELSE base[c]) /\ base'[d] = base[d]
         /\ mask' = IF icw[c] = 1 THEN mask \cup c ELSE mask
         /\ inservice' = inservice
<1>1. base \in [{Master, Slave} -> {8, 32, 40, 112}] /\ icw \in [{Master, Slave} -> 1 .. 4]
  BY DEF Wired
<1>2. /\ base' = (IF icw[c] = 2 THEN [base EXCEPT ![c] = b] ELSE base)
      /\ icw' = [icw EXCEPT ![c] = CASE @ = 1 -> 1 [] @ = 4 -> 1 [] OTHER -> @ + 1]
      /\ mask' = (IF icw[c] = 1 THEN mask \cup c ELSE mask)
      /\ inservice' = inservice
  BY DEF TakeData
<1>3. icw'[c] = (IF icw[c] \in {1, 4} THEN 1 ELSE icw[c] + 1) /\ icw'[d] = icw[d]
  BY <1>1, <1>2
<1>4. base'[c] = (IF icw[c] = 2 THEN b ELSE base[c]) /\ base'[d] = base[d]
  BY <1>1, <1>2
<1> QED
  BY <1>2, <1>3, <1>4

LEMMA FirstWord ==
  ASSUME Wired, NEW c \in {Master, Slave}, NEW d \in {Master, Slave}, c # d, TakeCommand(c, 17)
  PROVE  icw'[c] = 2 /\ icw'[d] = icw[d] /\ base' = base /\ inservice' = inservice \ c
<1>1. icw \in [{Master, Slave} -> 1 .. 4]
  BY DEF Wired
<1>2. icw' = [icw EXCEPT ![c] = 2] /\ base' = base /\ inservice' = inservice \ c
  BY DEF TakeCommand, PIC_EOI
<1> QED
  BY <1>1, <1>2

\* The even writes initialise the master, the odd ones the slave.
LEMMA MasterWord ==
  ASSUME Wired, NEW k \in {38, 40, 44, 46, 48, 50}, NEW b, WordsAt(k), TakeData(Master, b), k = 44 => b = 32
  PROVE  WordsAt(k + 1)'
<1>1. /\ icw'[Master] = (IF icw[Master] \in {1, 4} THEN 1 ELSE icw[Master] + 1) /\ icw'[Slave] = icw[Slave]
      /\ base'[Master] = (IF icw[Master] = 2 THEN b ELSE base[Master]) /\ base'[Slave] = base[Slave]
  BY Chips, DataWord
<1>2. icw[Master] = IcwMaster(k) /\ icw[Slave] = IcwSlave(k)
  BY DEF WordsAt
<1>3. IcwMaster(k + 1) = (IF IcwMaster(k) \in {1, 4} THEN 1 ELSE IcwMaster(k) + 1) /\ IcwSlave(k + 1) = IcwSlave(k)
  BY DEF IcwMaster, IcwSlave
<1>4. k + 1 > 44 => base'[Master] = 32
  <2>1. CASE k = 44
    BY <1>1, <1>2, <2>1 DEF IcwMaster
  <2>2. CASE k # 44 /\ k + 1 > 44
    <3>1. k > 44 /\ IcwMaster(k) # 2
      BY <2>2 DEF IcwMaster
    <3> QED
      BY <1>1, <1>2, <3>1 DEF WordsAt
  <2> QED
    BY <2>1, <2>2
<1>5. k + 1 > 45 => base'[Slave] = 40
  BY <1>1 DEF WordsAt
<1> QED
  BY <1>1, <1>2, <1>3, <1>4, <1>5 DEF WordsAt

LEMMA SlaveWord ==
  ASSUME Wired, NEW k \in {39, 41, 45, 47, 49, 51}, NEW b, WordsAt(k), TakeData(Slave, b), k = 45 => b = 40
  PROVE  WordsAt(k + 1)'
<1>1. /\ icw'[Slave] = (IF icw[Slave] \in {1, 4} THEN 1 ELSE icw[Slave] + 1) /\ icw'[Master] = icw[Master]
      /\ base'[Slave] = (IF icw[Slave] = 2 THEN b ELSE base[Slave]) /\ base'[Master] = base[Master]
  BY Chips, DataWord
<1>2. icw[Master] = IcwMaster(k) /\ icw[Slave] = IcwSlave(k)
  BY DEF WordsAt
<1>3. IcwSlave(k + 1) = (IF IcwSlave(k) \in {1, 4} THEN 1 ELSE IcwSlave(k) + 1) /\ IcwMaster(k + 1) = IcwMaster(k)
  BY DEF IcwMaster, IcwSlave
<1>4. k + 1 > 45 => base'[Slave] = 40
  <2>1. CASE k = 45
    BY <1>1, <1>2, <2>1 DEF IcwSlave
  <2>2. CASE k # 45 /\ k + 1 > 45
    <3>1. k > 45 /\ IcwSlave(k) # 2
      BY <2>2 DEF IcwSlave
    <3> QED
      BY <1>1, <1>2, <3>1 DEF WordsAt
  <2> QED
    BY <2>1, <2>2
<1>5. k + 1 > 44 => base'[Master] = 32
  BY <1>1 DEF WordsAt
<1> QED
  BY <1>1, <1>2, <1>3, <1>4, <1>5 DEF WordsAt

LEMMA CommandWord ==
  ASSUME Wired, NEW k \in {42, 43}, WordsAt(k), TakeCommand(IF k = 42 THEN Master ELSE Slave, 17)
  PROVE  WordsAt(k + 1)'
<1>1. icw[Master] = IcwMaster(k) /\ icw[Slave] = IcwSlave(k)
  BY DEF WordsAt
<1>2. CASE k = 42
  <2>1. icw'[Master] = 2 /\ icw'[Slave] = icw[Slave]
    BY <1>2, Chips, FirstWord
  <2> QED
    BY <1>1, <1>2, <2>1 DEF WordsAt, IcwMaster, IcwSlave
<1>3. CASE k = 43
  <2>1. icw'[Slave] = 2 /\ icw'[Master] = icw[Master]
    BY <1>3, Chips, FirstWord
  <2> QED
    BY <1>1, <1>3, <2>1 DEF WordsAt, IcwMaster, IcwSlave
<1> QED
  BY <1>2, <1>3

LEMMA BootData ==
  ASSUME NEW k \in 38 .. 51
  PROVE  \/ k \in {38, 40, 44, 46, 48, 50} /\ \E b : Boot[k] = Data(Master, b) /\ (k = 44 => b = 32)
         \/ k \in {39, 41, 45, 47, 49, 51} /\ \E b : Boot[k] = Data(Slave, b) /\ (k = 45 => b = 40)
         \/ k \in {42, 43} /\ Boot[k] = Cmd(IF k = 42 THEN Master ELSE Slave, 17)
<1>1. ASSUME k \in {38, 40, 50} PROVE Boot[k] = Data(Master, 255) /\ k # 44
  <2>1. Boot[38] = Data(Master, 255) /\ Boot[40] = Data(Master, 255) /\ Boot[50] = Data(Master, 255)
    BY BootIs
  <2>2. k = 38 \/ k = 40 \/ k = 50
    BY <1>1
  <2>3. k # 44
    BY <2>2
  <2> QED
    BY <2>1, <2>2, <2>3, Zenon
<1>2. ASSUME k \in {39, 41, 51} PROVE Boot[k] = Data(Slave, 255) /\ k # 45
  <2>1. Boot[39] = Data(Slave, 255) /\ Boot[41] = Data(Slave, 255) /\ Boot[51] = Data(Slave, 255)
    BY BootIs
  <2>2. k = 39 \/ k = 41 \/ k = 51
    BY <1>2
  <2>3. k # 45
    BY <2>2
  <2> QED
    BY <2>1, <2>2, <2>3, Zenon
<1>3. ASSUME k = 44 PROVE Boot[k] = Data(Master, 32)
  BY <1>3, BootIs
<1>4. ASSUME k = 45 PROVE Boot[k] = Data(Slave, 40)
  BY <1>4, BootIs
<1>5. ASSUME k = 46 PROVE Boot[k] = Data(Master, 4)
  BY <1>5, BootIs
<1>6. ASSUME k = 47 PROVE Boot[k] = Data(Slave, 2)
  BY <1>6, BootIs
<1>7. ASSUME k = 48 PROVE Boot[k] = Data(Master, 1)
  BY <1>7, BootIs
<1>8. ASSUME k = 49 PROVE Boot[k] = Data(Slave, 1)
  BY <1>8, BootIs
<1>9. ASSUME k = 42 PROVE Boot[k] = Cmd(Master, 17)
  BY <1>9, BootIs
<1>10. ASSUME k = 43 PROVE Boot[k] = Cmd(Slave, 17)
  BY <1>10, BootIs
<1>11. ASSUME k \in {38, 40, 44, 46, 48, 50} PROVE \E b : Boot[k] = Data(Master, b) /\ (k = 44 => b = 32)
  <2>1. k \in {38, 40, 50} \/ k = 44 \/ k = 46 \/ k = 48
    BY <1>11
  <2>2. 38 # 44 /\ 40 # 44 /\ 50 # 44 /\ 46 # 44 /\ 48 # 44
    OBVIOUS
  <2>3. CASE k \in {38, 40, 50}
    BY <1>1, <2>2, <2>3
  <2>4. CASE k = 44
    BY <1>3, <2>4
  <2>5. CASE k = 46
    BY <1>5, <2>2, <2>5
  <2>6. CASE k = 48
    BY <1>7, <2>2, <2>6
  <2> QED
    BY <2>1, <2>3, <2>4, <2>5, <2>6
<1>12. ASSUME k \in {39, 41, 45, 47, 49, 51} PROVE \E b : Boot[k] = Data(Slave, b) /\ (k = 45 => b = 40)
  <2>1. k \in {39, 41, 51} \/ k = 45 \/ k = 47 \/ k = 49
    BY <1>12
  <2>2. 39 # 45 /\ 41 # 45 /\ 51 # 45 /\ 47 # 45 /\ 49 # 45
    OBVIOUS
  <2>3. CASE k \in {39, 41, 51}
    BY <1>2, <2>2, <2>3
  <2>4. CASE k = 45
    BY <1>4, <2>4
  <2>5. CASE k = 47
    BY <1>6, <2>2, <2>5
  <2>6. CASE k = 49
    BY <1>8, <2>2, <2>6
  <2> QED
    BY <2>1, <2>3, <2>4, <2>5, <2>6
<1>13. k \in {38, 40, 44, 46, 48, 50} \/ k \in {39, 41, 45, 47, 49, 51} \/ k \in {42, 43}
  OBVIOUS
<1>14. ASSUME k \in {42, 43} PROVE Boot[k] = Cmd(IF k = 42 THEN Master ELSE Slave, 17)
  <2>1. 43 # 42
    OBVIOUS
  <2> QED
    BY <1>9, <1>10, <1>14, <2>1
<1> QED
  BY <1>11, <1>12, <1>13, <1>14

LEMMA BootPic ==
  ASSUME Wired, NEW k \in 38 .. 51, k \in 1 .. BootLen, Before(k), Cpu
  PROVE  Before(k + 1)'
<1>1. /\ Write /\ Op = Boot[k]
      /\ Advance => stack' = <<FrameOf(Left(k + 1), NoLine, FALSE)>>
  BY BootWrite
<1>2. /\ ~enabled /\ inservice = {} /\ ~busy
      /\ WordsAt(k) /\ MasksAt(k) /\ GatesAt(k)
  BY DEF Before
<1> DEFINE mine == /\ UNCHANGED <<gate, high, busy, enabled>> /\ Advance
                   /\ WordsAt(k + 1)' /\ MasksAt(k + 1)' /\ inservice' = {}
<1>3. ASSUME NEW b, k \in {38, 40, 44, 46, 48, 50}, Boot[k] = Data(Master, b), k = 44 => b = 32
      PROVE  mine
  <2>1. Op[1] = "data" /\ Op[2] = Master /\ Op[3] = b
    BY <1>1, <1>3 DEF Data
  <2>2. TakeData(Master, b) /\ UNCHANGED <<gate, high, busy, enabled>> /\ Advance
    BY <1>1, <2>1, Effects
  <2>3. WordsAt(k + 1)'
    BY <1>2, <1>3, <2>2, MasterWord
  <2>4. inservice' = {} /\ mask' = IF icw[Master] = 1 THEN mask \cup Master ELSE mask
    BY <1>2, <2>2, Chips, DataWord
  <2>5. MasksAt(k + 1)'
    <3>1. CASE k \in 1 .. 49
      BY <3>1, MasksFree
    <3>2. CASE k = 50
      <4>1. icw[Master] = 1
        BY <1>2, <3>2 DEF WordsAt, IcwMaster
      <4>2. Master \subseteq mask' /\ k + 1 = 51
        BY <2>4, <3>2, <4>1
      <4> QED
        BY <4>2 DEF MasksAt
    <3> QED
      BY <1>3, <3>1, <3>2
  <2> QED
    BY <2>2, <2>3, <2>4, <2>5
<1>4. ASSUME NEW b, k \in {39, 41, 45, 47, 49, 51}, Boot[k] = Data(Slave, b), k = 45 => b = 40
      PROVE  mine
  <2>1. Op[1] = "data" /\ Op[2] = Slave /\ Op[3] = b
    BY <1>1, <1>4 DEF Data
  <2>2. TakeData(Slave, b) /\ UNCHANGED <<gate, high, busy, enabled>> /\ Advance
    BY <1>1, <2>1, Effects
  <2>3. WordsAt(k + 1)'
    BY <1>2, <1>4, <2>2, SlaveWord
  <2>4. inservice' = {} /\ mask' = IF icw[Slave] = 1 THEN mask \cup Slave ELSE mask
    BY <1>2, <2>2, Chips, DataWord
  <2>5. MasksAt(k + 1)'
    <3>1. CASE k \in 1 .. 49
      BY <3>1, MasksFree
    <3>2. CASE k = 51
      <4>1. icw[Slave] = 1 /\ Master \subseteq mask
        BY <1>2, <3>2 DEF WordsAt, IcwSlave, MasksAt
      <4>2. mask' = Lines
        BY <2>4, <4>1 DEF Wired, Lines
      <4>3. k + 1 = 52 /\ Open(52) = {}
        BY <3>2 DEF Open
      <4> QED
        BY <4>2, <4>3 DEF MasksAt
    <3> QED
      BY <1>4, <3>1, <3>2
  <2> QED
    BY <2>2, <2>3, <2>4, <2>5
<1>5. ASSUME NEW c, c = (IF k = 42 THEN Master ELSE Slave), k \in {42, 43}, Boot[k] = Cmd(c, 17)
      PROVE  mine
  <2>1. Op[1] = "cmd" /\ Op[2] = c /\ Op[3] = 17
    BY <1>1, <1>5 DEF Cmd
  <2>2. TakeCommand(c, 17) /\ UNCHANGED <<gate, high, busy, enabled>> /\ Advance
    BY <1>1, <2>1, Effects
  <2>3. WordsAt(k + 1)'
    BY <1>2, <1>5, <2>2, CommandWord
  <2>4. inservice' = {}
    BY <1>2, <2>2 DEF TakeCommand, PIC_EOI
  <2>5. MasksAt(k + 1)'
    <3>1. k + 1 # 51 /\ ~(k + 1 > 51)
      BY <1>5
    <3> QED
      BY <3>1 DEF MasksAt
  <2> QED
    BY <2>2, <2>3, <2>4, <2>5
<1> HIDE DEF mine
<1>6. mine
  BY <1>3, <1>4, <1>5, BootData
<1> USE DEF mine
<1>7. GatesAt(k + 1)'
  <2>1. k \notin {34, 52, 55, 63} /\ UNCHANGED <<gate[128], gate[32], gate[46], gate[33]>>
    BY <1>6
  <2> QED
    BY <1>2, <2>1, GatesStay
<1>8. stack' = <<FrameOf(Left(k + 1), NoLine, FALSE)>> /\ ~enabled' /\ ~busy'
  BY <1>1, <1>2, <1>6
<1> QED
  BY <1>6, <1>7, <1>8 DEF Before

LEMMA BootUnmask ==
  ASSUME Wired, NEW k \in {53, 54, 57, 58, 64}, k \in 1 .. BootLen, Before(k), Cpu
  PROVE  Before(k + 1)'
<1>1. /\ Write /\ Op = Boot[k]
      /\ Advance => stack' = <<FrameOf(Left(k + 1), NoLine, FALSE)>>
  BY BootWrite
<1>2. /\ ~enabled /\ inservice = {} /\ ~busy
      /\ WordsAt(k) /\ MasksAt(k) /\ GatesAt(k)
  BY DEF Before
<1> DEFINE set(l) ==
      /\ Op = Unmask(l)
      /\ (k = 53 => l = Timer) /\ (k = 54 => l = Cascade) /\ (k = 57 => l = Disk)
      /\ (k = 58 => l = SecondDisk) /\ (k = 64 => l = Key)
<1>3. \E l : set(l)
  <2>1. Timer = 0 /\ Key = 1 /\ Cascade = 2 /\ Disk = 14 /\ SecondDisk = 15
    BY DEF Timer, Key, Cascade, Disk, SecondDisk
  <2>2. ASSUME k = 53 PROVE set(0)
    BY <1>1, <2>1, <2>2, BootIs
  <2>3. ASSUME k = 54 PROVE set(2)
    BY <1>1, <2>1, <2>3, BootIs
  <2>4. ASSUME k = 57 PROVE set(14)
    BY <1>1, <2>1, <2>4, BootIs
  <2>5. ASSUME k = 58 PROVE set(15)
    BY <1>1, <2>1, <2>5, BootIs
  <2>6. ASSUME k = 64 PROVE set(1)
    BY <1>1, <2>1, <2>6, BootIs
  <2> HIDE DEF set
  <2> QED
    BY <2>2, <2>3, <2>4, <2>5, <2>6
<1>4. PICK l : set(l)
  BY <1>3
<1>5. Op[1] = "unmask" /\ Op[2] = l
  BY <1>4 DEF Unmask
<1>6. /\ mask' = mask \ {l}
      /\ UNCHANGED <<gate, base, icw, latch, inservice, high, busy, enabled>>
      /\ Advance
  BY <1>1, <1>5, Effects
<1>7. WordsAt(k + 1)'
  <2>1. k \notin 42 .. 49
    OBVIOUS
  <2> QED
    BY <1>2, <1>6, <2>1, WordsStay
<1>8. MasksAt(k + 1)'
  <2>1. /\ k = 53 => l = Timer
        /\ k = 54 => l = Cascade
        /\ k = 57 => l = Disk
        /\ k = 58 => l = SecondDisk
        /\ k = 64 => l = Key
    BY <1>4
  <2> HIDE DEF set
  <2> QED
    BY <1>2, <1>6, <2>1, MasksOpen
<1>9. GatesAt(k + 1)'
  <2>1. k \notin {34, 52, 55, 63} /\ UNCHANGED <<gate[128], gate[32], gate[46], gate[33]>>
    BY <1>6
  <2> QED
    BY <1>2, <2>1, GatesStay
<1>10. stack' = <<FrameOf(Left(k + 1), NoLine, FALSE)>> /\ ~enabled' /\ ~busy' /\ inservice' = {}
  BY <1>1, <1>2, <1>6
<1> QED
  BY <1>7, <1>8, <1>9, <1>10 DEF Before

LEMMA BootDisk ==
  ASSUME Wired, NEW k \in {1, 59, 60, 61, 62}, k \in 1 .. BootLen, Before(k), Cpu
  PROVE  Before(k + 1)'
<1>1. /\ Write /\ Op = Boot[k]
      /\ Advance => stack' = <<FrameOf(Left(k + 1), NoLine, FALSE)>>
  BY BootWrite
<1>2. /\ ~enabled /\ inservice = {} /\ (busy => k \in {60, 62})
      /\ WordsAt(k) /\ MasksAt(k) /\ GatesAt(k)
  BY DEF Before
<1>3. \/ k = 1 /\ Op[1] = "cli"
      \/ k \in {59, 61} /\ Op[1] = "command"
      \/ k \in {60, 62} /\ Op[1] = "wait"
  <2>1. Boot[1] = <<"cli">> /\ Boot[59] = Command /\ Boot[60] = Wait /\ Boot[61] = Command /\ Boot[62] = Wait
    BY BootIs
  <2> QED
    BY <1>1, <2>1, Kinds
<1>4. /\ UNCHANGED <<gate, base, icw, mask, inservice>> /\ Advance /\ ~enabled'
      /\ busy' => k \in {59, 61}
  <2>1. CASE k = 1 /\ Op[1] = "cli"
    <3>1. enabled' = FALSE /\ UNCHANGED <<gate, pic, high, busy>> /\ Advance
      BY <1>1, <2>1, Effects
    <3>2. ~busy
      BY <1>2, <2>1
    <3> QED
      BY <3>1, <3>2 DEF pic
  <2>2. CASE k \in {59, 61} /\ Op[1] = "command"
    BY <1>1, <1>2, <2>2, Effects DEF pic
  <2>3. CASE k \in {60, 62} /\ Op[1] = "wait"
    <3>1. /\ ~busy /\ UNCHANGED <<gate, base, icw, mask, inservice, busy, enabled>> /\ Advance
      BY <1>1, <2>3, Effects
    <3> QED
      BY <1>2, <3>1
  <2> QED
    BY <1>3, <2>1, <2>2, <2>3
<1>5. k + 1 \in {60, 62} <=> k \in {59, 61}
  OBVIOUS
<1>6. WordsAt(k + 1)'
  <2>1. k \notin 42 .. 49
    OBVIOUS
  <2> QED
    BY <1>2, <1>4, <2>1, WordsStay
<1>7. MasksAt(k + 1)'
  <2>1. CASE k = 1
    BY <2>1 DEF MasksAt
  <2>2. CASE k \in {59, 60, 61, 62}
    BY <1>2, <1>4, <2>2, MasksStay
  <2> QED
    BY <2>1, <2>2
<1>8. GatesAt(k + 1)'
  <2>1. k \notin {34, 52, 55, 63} /\ UNCHANGED <<gate[128], gate[32], gate[46], gate[33]>>
    BY <1>4
  <2> QED
    BY <1>2, <2>1, GatesStay
<1>9. stack' = <<FrameOf(Left(k + 1), NoLine, FALSE)>> /\ inservice' = {}
  BY <1>1, <1>2, <1>4
<1> QED
  BY <1>4, <1>5, <1>6, <1>7, <1>8, <1>9 DEF Before

\* Interrupts are on: main has nothing left to set up.
LEMMA BootEnd ==
  ASSUME Wired, Before(BootLen), Cpu
  PROVE  Running'
<1>1. BootLen \in 1 .. BootLen /\ BootLen = 65
  BY DEF BootLen
<1>2. /\ Write /\ Op = <<"sti">>
      /\ Advance => stack' = <<FrameOf(Left(BootLen + 1), NoLine, FALSE)>>
  <2>1. Boot[65] = <<"sti">>
    BY BootIs
  <2> QED
    BY <1>1, <2>1, BootWrite
<1>3. enabled' = TRUE /\ UNCHANGED <<gate, pic, high, busy>> /\ Advance
  BY <1>2, Effects
<1>4. stack' = <<FrameOf(<<>>, NoLine, FALSE)>>
  BY <1>1, <1>2, <1>3, LeftIs
<1>5. ~busy /\ inservice = {} /\ WordsAt(65) /\ MasksAt(65) /\ GatesAt(65)
  BY <1>1 DEF Before
<1>6. Open(65) = {Timer, Cascade, Disk, SecondDisk, Key}
  BY DEF Open
<1>7. Ready
  <2>1. base[Master] = 32 /\ base[Slave] = 40
    BY <1>5 DEF WordsAt
  <2>2. mask = Lines \ {Timer, Cascade, Disk, SecondDisk, Key}
    BY <1>5, <1>6 DEF MasksAt
  <2>3. /\ gate[32] = [isr |-> interrupt_pit_timer, flags |-> "int"]
        /\ gate[33] = [isr |-> kb_interrupt_hander, flags |-> "int"]
        /\ gate[46] = [isr |-> ata_interrupt_primary_bus, flags |-> "trap"]
        /\ gate[128] = [isr |-> syscall_dispatch, flags |-> "int"]
    BY <1>5 DEF GatesAt
  <2> QED
    BY <2>1, <2>2, <2>3 DEF Ready
<1>8. Ready'
  BY <1>3, <1>7 DEF Ready, pic
<1>9. InMain(FrameOf(<<>>, NoLine, FALSE))' /\ ~busy'
  BY <1>3, <1>4, <1>5 DEF InMain, pic
<1>10. FrameOf(<<>>, NoLine, FALSE) \in MainFrames
  <2>1. <<>> \in MainTodos
    BY DEF MainTodos
  <2>2. \A s \in BOOLEAN : FrameOf(<<>>, NoLine, s) \in MainFrames
    BY <2>1 DEF MainFrames
  <2>3. FALSE \in BOOLEAN
    OBVIOUS
  <2> QED
    BY <2>2, <2>3, Zenon
<1> QED
  BY <1>8, <1>9, <1>10 DEF Running, Nested

LEMMA BootStep ==
  ASSUME Wired, Booting, Cpu
  PROVE  (Booting \/ Running)'
<1>1. PICK k \in 1 .. BootLen : Before(k)
  BY DEF Booting
<1>2. CASE k = BootLen
  BY <1>1, <1>2, BootEnd
<1>3. CASE k # BootLen
  <2>1. k \in 1 .. 64 /\ k + 1 \in 1 .. BootLen
    BY <1>3 DEF BootLen
  <2>2. \/ k \in (2 .. 37) \cup {52, 55, 56, 63}
        \/ k \in 38 .. 51
        \/ k \in {53, 54, 57, 58, 64}
        \/ k \in {1, 59, 60, 61, 62}
    BY <2>1
  <2>3. Before(k + 1)'
    BY <1>1, <2>2, BootGate, BootPic, BootUnmask, BootDisk
  <2> QED
    BY <2>1, <2>3 DEF Booting
<1> QED
  BY <1>2, <1>3

-----------------------------------------------------------------------------
(* The interrupts: the types *)

LEMMA WiredWrite ==
  ASSUME Wired, Write,
         Op[1] \in {"gate", "cmd", "data", "unmask", "cli", "sti", "read60", "command", "wait", "int80", "spin"},
         Op[1] \in {"cmd", "data"} => Op[2] \in {Master, Slave},
         Op[1] = "data" => (icw[Op[2]] = 2 => Op[3] \in {32, 40})
  PROVE  Wired'
<1>1. ran' \in BOOLEAN /\ early' \in BOOLEAN
  <2>1. ran' = (ran \/ Len(stack) = 1) /\ early' = (early \/ (Op = Cmd(Master, 17) /\ Key \in high))
    BY DEF Write
  <2> QED
    BY <2>1, Zenon
<1>2. ASSUME UNCHANGED <<base, icw>>, DOMAIN gate' = DOMAIN gate, mask' \subseteq mask, latch' \subseteq latch,
             high' \subseteq high, busy' \in BOOLEAN, enabled' \in BOOLEAN
      PROVE  Wired'
  BY <1>1, <1>2 DEF Wired
<1>3. CASE Op[1] = "gate"
  BY <1>2, <1>3, Effects DEF pic, Wired
<1>4. CASE Op[1] = "cmd"
  <2>1. TakeCommand(Op[2], Op[3]) /\ UNCHANGED <<gate, high, busy, enabled>>
    BY <1>4, Effects
  <2>2. icw' \in [{Master, Slave} -> 1 .. 4] /\ base' = base /\ mask' \subseteq mask /\ latch' \subseteq latch
    BY <2>1 DEF TakeCommand, Wired
  <2> QED
    BY <1>1, <2>1, <2>2 DEF Wired
<1>5. CASE Op[1] = "data"
  <2>1. TakeData(Op[2], Op[3]) /\ UNCHANGED <<gate, high, busy, enabled>>
    BY <1>5, Effects
  <2>2. icw' \in [{Master, Slave} -> 1 .. 4]
    <3>1. PICK c \in {Master, Slave} : c = Op[2]
      BY <1>5
    <3>2. icw[c] \in 1 .. 4 /\ icw \in [{Master, Slave} -> 1 .. 4]
      BY DEF Wired
    <3>3. \E n \in 1 .. 4 : icw' = [icw EXCEPT ![c] = n]
      <4>1. icw' = [icw EXCEPT ![c] = CASE icw[c] = 1 -> 1 [] icw[c] = 4 -> 1 [] OTHER -> icw[c] + 1]
        BY <2>1, <3>1, <3>2 DEF TakeData
      <4>2. (CASE icw[c] = 1 -> 1 [] icw[c] = 4 -> 1 [] OTHER -> icw[c] + 1) \in 1 .. 4
        BY <3>2
      <4> QED
        BY <4>1, <4>2, Zenon
    <3> QED
      BY <3>2, <3>3
  <2>3. base' \in [{Master, Slave} -> {8, 32, 40, 112}]
    BY <1>5, <2>1 DEF TakeData, Wired
  <2>4. mask' \subseteq Lines /\ latch' = latch
    BY <1>5, <2>1 DEF TakeData, Wired, Lines
  <2> QED
    BY <1>1, <2>1, <2>2, <2>3, <2>4 DEF Wired
<1>6. CASE Op[1] = "unmask"
  BY <1>2, <1>6, Effects DEF Wired
<1>7. CASE Op[1] \in {"cli", "sti", "spin"}
  <2>1. UNCHANGED <<gate, pic, high, busy>> /\ enabled' \in {FALSE, TRUE, enabled}
    BY <1>7, Effects
  <2>2. enabled' \in BOOLEAN
    BY <2>1, Zenon DEF Wired
  <2> QED
    BY <1>2, <2>1, <2>2 DEF pic, Wired
<1>8. CASE Op[1] = "read60"
  BY <1>2, <1>8, Effects DEF Lower, Wired
<1>9. CASE Op[1] = "command"
  BY <1>2, <1>9, Effects DEF pic, Wired
<1>10. CASE Op[1] = "wait"
  BY <1>2, <1>10, Effects DEF Lower, Wired
<1>11. CASE Op[1] = "int80"
  <2>1. UNCHANGED <<gate, pic, high, busy>> /\ enabled' = (enabled /\ gate[128].flags = "trap")
    BY <1>11, Effects DEF Enter
  <2>2. enabled' \in BOOLEAN
    BY <2>1, Zenon
  <2> QED
    BY <1>2, <2>1, <2>2 DEF pic, Wired
<1> QED
  BY <1>3, <1>4, <1>5, <1>6, <1>7, <1>8, <1>9, <1>10, <1>11

LEMMA BootOp ==
  ASSUME Wired, Booting, Cpu
  PROVE  Wired'
<1>1. PICK k \in 1 .. BootLen : Before(k)
  BY DEF Booting
<1>2. Write /\ Op = Boot[k]
  BY <1>1, BootWrite
<1>3. Op \in Writes
  <2>1. Boot \in Seq(Writes) /\ Len(Boot) = BootLen
    BY BootIs
  <2> QED
    BY <1>2, <2>1, ElementOfSeq
<1>4. /\ Op[1] \in {"gate", "cmd", "data", "unmask", "cli", "sti", "command", "wait"}
      /\ Op[1] \in {"cmd", "data"} => Op[2] \in {Master, Slave}
  BY <1>3 DEF Writes, Gate, Cmd, Data, Unmask, Command, Wait
<1>5. icw[Master] = IcwMaster(k) /\ icw[Slave] = IcwSlave(k)
  BY <1>1 DEF Before, WordsAt
<1>6. ASSUME Op[1] = "data", icw[Op[2]] = 2 PROVE Op[3] \in {32, 40}
  <2>1. k \in 42 .. 49
    BY <1>4, <1>5, <1>6 DEF BootLen, IcwMaster, IcwSlave
  <2>2. ASSUME NEW b, k \in {38, 40, 44, 46, 48, 50}, Boot[k] = Data(Master, b), k = 44 => b = 32
        PROVE  Op[3] \in {32, 40}
    <3>1. Op[2] = Master /\ Op[3] = b
      BY <1>2, <2>2 DEF Data
    <3>2. k = 44
      BY <1>5, <1>6, <2>2, <3>1 DEF IcwMaster
    <3> QED
      BY <2>2, <3>1, <3>2
  <2>3. ASSUME NEW b, k \in {39, 41, 45, 47, 49, 51}, Boot[k] = Data(Slave, b), k = 45 => b = 40
        PROVE  Op[3] \in {32, 40}
    <3>1. Op[2] = Slave /\ Op[3] = b
      BY <1>2, <2>3 DEF Data
    <3>2. k = 45
      BY <1>5, <1>6, <2>3, <3>1 DEF IcwSlave
    <3> QED
      BY <2>3, <3>1, <3>2
  <2>4. \A c : Boot[k] # Cmd(c, 17)
    BY <1>2, <1>6 DEF Cmd
  <2>5. k \in 38 .. 51
    BY <2>1
  <2> QED
    BY <2>2, <2>3, <2>4, <2>5, BootData
<1> QED
  BY <1>2, <1>4, <1>6, WiredWrite

LEMMA TopIs ==
  ASSUME Running
  PROVE  Top \in MainFrames \cup SysFrames \cup QuickFrames \cup DiskFrames
<1>1. PICK m \in MainFrames :
        \/ InMain(m)
        \/ \E f \in SysFrames : InSys(m, f)
        \/ \E h \in QuickFrames : InQuick(m, h)
        \/ \E d \in DiskFrames : InDisk(m, d)
        \/ \E d \in DiskFrames : \E h \in QuickFrames : InBoth(m, d, h)
  BY DEF Running, Nested
<1>2. \A x, y, z : Last(<<z>>) = z /\ Last(<<y, z>>) = z /\ Last(<<x, y, z>>) = z
  BY DEF Last
<1>3. \/ stack = <<m>>
      \/ \E f \in SysFrames \cup QuickFrames \cup DiskFrames : stack = <<m, f>>
      \/ \E d \in DiskFrames : \E h \in QuickFrames : stack = <<m, d, h>>
  BY <1>1 DEF InMain, InSys, InQuick, InDisk, InBoth
<1> QED
  BY <1>2, <1>3 DEF Top

LEMMA FrameTypes ==
  ASSUME NEW f \in MainFrames \cup SysFrames \cup QuickFrames \cup DiskFrames
  PROVE  /\ f.todo \in MainTodos \cup SysTodos \cup DiskTodos \cup TimerTodos \cup KeyTodos
         /\ f.saved \in BOOLEAN
<1>1. \A t, l, s : FrameOf(t, l, s).todo = t
  BY DEF FrameOf
<1>7. \A t, l, s : FrameOf(t, l, s).saved = s
  BY DEF FrameOf
<1>2. TRUE \in BOOLEAN
  OBVIOUS
<1>3. CASE f \in MainFrames
  <2>1. PICK t \in MainTodos, s \in BOOLEAN : f = FrameOf(t, NoLine, s)
    BY <1>3 DEF MainFrames
  <2>2. f.saved = s
    BY <1>7, <2>1, Zenon
  <2>3. f.saved \in BOOLEAN
    BY <2>2, Zenon
  <2>4. f.todo = t
    BY <1>1, <2>1, Zenon
  <2>5. f.todo \in MainTodos
    BY <2>4, Zenon
  <2> QED
    BY <2>3, <2>5, Zenon
<1>4. CASE f \in SysFrames
  <2>1. PICK t \in SysTodos : f = FrameOf(t, NoLine, TRUE)
    BY <1>4 DEF SysFrames
  <2> QED
    BY <1>1, <1>2, <1>7, <2>1, Zenon
<1>5. CASE f \in QuickFrames
  <2>1. PICK t \in TimerTodos \cup KeyTodos, l \in {Timer, Key} : f = FrameOf(t, l, TRUE)
    BY <1>5 DEF QuickFrames
  <2> QED
    BY <1>1, <1>2, <1>7, <2>1, Zenon
<1>6. CASE f \in DiskFrames
  <2>1. PICK t \in DiskTodos : f = FrameOf(t, Disk, TRUE)
    BY <1>6 DEF DiskFrames
  <2> QED
    BY <1>1, <1>2, <1>7, <2>1, Zenon
<1> QED
  BY <1>3, <1>4, <1>5, <1>6

\* What the code writes once it runs: nothing but commands to the controllers'
\* command ports.
LEMMA RunOp ==
  ASSUME Running, Top.todo # <<>>
  PROVE  /\ Op[1] \in {"cmd", "read60", "command", "wait", "int80", "spin"}
         /\ Op[1] = "cmd" => Op[2] \in {Master, Slave}
<1>1. Top.todo \in MainTodos \cup SysTodos \cup DiskTodos \cup TimerTodos \cup KeyTodos
  BY TopIs, FrameTypes
<1>2. Top.todo \in {<<<<"spin">>>>, <<Command, Wait>>, <<Wait>>, <<<<"int80", <<>>>>>>, <<<<"int80", DiskJob>>>>,
                    <<EoiSlave, EoiMaster>>, <<EoiMaster>>, <<Read60, EoiMaster>>}
  BY <1>1, Codes DEF MainTodos, SysTodos, DiskTodos, TimerTodos, KeyTodos
<1>3. Op \in {<<"spin">>, Command, Wait, <<"int80", <<>>>>, <<"int80", DiskJob>>, EoiSlave, EoiMaster, Read60}
  BY <1>2 DEF Op
<1> QED
  BY <1>3, Kinds

LEMMA WiredStep ==
  ASSUME Wired, Booting \/ Running, Cpu
  PROVE  Wired'
<1>1. CASE Booting
  BY <1>1, BootOp
<1>2. CASE Running /\ Write
  <2>1. Top.todo # <<>>
    BY <1>2, Effects
  <2> QED
    BY <1>2, <2>1, RunOp, WiredWrite
<1>3. CASE Running /\ Iret
  <2>1. enabled' \in BOOLEAN
    BY <1>3, TopIs, FrameTypes DEF Iret
  <2>2. UNCHANGED <<gate, pic, high, busy, ran, early>>
    BY <1>3 DEF Iret
  <2> QED
    BY <2>1, <2>2 DEF Wired, pic
<1>4. ASSUME Running, NEW work, Work(work) PROVE Wired'
  BY <1>4 DEF Work, Wired, pic
<1>5. CASE Running /\ Accept
  <2>1. enabled' \in BOOLEAN
    <3>1. \E b : enabled' = (enabled /\ b = "trap")
      BY <1>5 DEF Accept, Enter
    <3> QED
      BY <3>1, Zenon
  <2>2. UNCHANGED <<gate, base, icw, mask, high, busy, ran, early>> /\ latch' \subseteq latch
    BY <1>5 DEF Accept
  <2> QED
    BY <2>1, <2>2 DEF Wired
<1> QED
  BY <1>1, <1>2, <1>3, <1>4, <1>5 DEF Cpu

LEMMA WiredDevices ==
  ASSUME Wired, \/ Tick \/ KeyPress \/ DiskDone \/ \E l \in OtherLines : OtherDevice(l)
  PROVE  /\ Wired' /\ UNCHANGED <<gate, base, icw, mask, inservice, stack, enabled>>
         /\ \/ busy' = busy /\ (Disk \in latch' => Disk \in latch)
            \/ busy = TRUE /\ busy' = FALSE
<1>1. Disk \notin {Timer, Key} /\ Disk \notin OtherLines
  BY OtherAssumption DEF Disk, Timer, Key
<1>2. CASE Tick
  BY <1>1, <1>2 DEF Tick, Wired
<1>3. CASE KeyPress
  BY <1>1, <1>3 DEF KeyPress, Raise, Wired
<1>4. CASE DiskDone
  BY <1>4 DEF DiskDone, Raise, Wired
<1>5. ASSUME NEW l \in OtherLines, OtherDevice(l)
      PROVE  /\ Wired' /\ UNCHANGED <<gate, base, icw, mask, inservice, stack, enabled, busy>>
             /\ Disk \in latch' => Disk \in latch
  BY <1>1, <1>5 DEF OtherDevice, Wired
<1> QED
  BY <1>2, <1>3, <1>4, <1>5

LEMMA IrqStart ==
  ASSUME IrqInit
  PROVE  IrqInv
<1>1. Wired
  <2>1. base \in [{Master, Slave} -> {8, 32, 40, 112}] /\ icw \in [{Master, Slave} -> 1 .. 4]
    BY DEF IrqInit
  <2>2. FALSE \in BOOLEAN /\ TRUE \in BOOLEAN
    OBVIOUS
  <2>3. DOMAIN gate = Vectors
    BY DEF IrqInit
  <2>4. busy = FALSE /\ enabled = FALSE /\ ran = TRUE /\ early = FALSE /\ mask = {} /\ latch = {} /\ high = {}
    BY DEF IrqInit
  <2>5. busy \in BOOLEAN /\ enabled \in BOOLEAN /\ ran \in BOOLEAN /\ early \in BOOLEAN
    BY <2>2, <2>4, Zenon
  <2> QED
    BY <2>1, <2>3, <2>4, <2>5 DEF Wired
<1>2. Left(1) = Boot
  <2>1. Boot \in Seq(Writes) /\ Len(Boot) = BootLen
    BY BootIs
  <2> QED
    BY <2>1, SubSeqFull DEF Left
<1>3. 1 \in 1 .. BootLen
  BY DEF BootLen
<1>4. Before(1)
  <2>1. stack = <<FrameOf(Left(1), NoLine, FALSE)>>
    BY <1>2 DEF IrqInit, Frame, FrameOf
  <2>2. ~enabled /\ inservice = {} /\ ~busy
    BY DEF IrqInit
  <2>3. WordsAt(1)
    BY DEF IrqInit, WordsAt, IcwMaster, IcwSlave
  <2>4. MasksAt(1) /\ GatesAt(1)
    BY DEF MasksAt, GatesAt
  <2> QED
    BY <2>1, <2>2, <2>3, <2>4 DEF Before
<1> QED
  BY <1>1, <1>3, <1>4 DEF IrqInv, Booting

-----------------------------------------------------------------------------
(* The interrupts: the theorems *)

\* From reset through the boot code and ever after, the controllers, the gates and
\* the stack are as the boot code has got to, or as one of five nestings of main,
\* a system call and the handlers leaves them.
THEOREM InterruptsInvariance == IrqSpec => []IrqInv
<1>1. IrqInit => IrqInv
  BY IrqStart
<1>2. ASSUME IrqInv, [IrqNext]_irqVars PROVE IrqInv'
  <2>1. Wired /\ (Booting \/ Running)
    BY <1>2 DEF IrqInv
  <2>2. CASE Cpu
    <3>1. Wired'
      BY <2>1, <2>2, WiredStep
    <3>2. (Booting \/ Running)'
      BY <2>1, <2>2, BootStep, RunStep
    <3> QED
      BY <3>1, <3>2 DEF IrqInv
  <2>3. CASE Tick \/ KeyPress \/ DiskDone \/ \E l \in OtherLines : OtherDevice(l)
    <3>1. /\ Wired' /\ UNCHANGED <<gate, base, icw, mask, inservice, stack, enabled>>
          /\ \/ busy' = busy /\ (Disk \in latch' => Disk \in latch)
             \/ busy = TRUE /\ busy' = FALSE
      BY <2>1, <2>3, WiredDevices
    <3>2. (Booting \/ Running)'
      BY <2>1, <3>1, DeviceStep
    <3> QED
      BY <3>1, <3>2 DEF IrqInv
  <2>4. CASE UNCHANGED irqVars
    <3>1. UNCHANGED <<gate, base, icw, mask, latch, inservice, high, busy, stack, enabled, ran, early>>
      BY <2>4 DEF irqVars, pic
    <3>2. Wired'
      BY <2>1, <3>1 DEF Wired
    <3>3. (Booting \/ Running)'
      BY <2>1, <3>1, DeviceStep
    <3> QED
      BY <3>2, <3>3 DEF IrqInv
  <2> QED
    BY <1>2, <2>2, <2>3, <2>4 DEF IrqNext
<1> QED
  BY <1>1, <1>2, PTL DEF IrqSpec

\* What is in service and how deep the stack is, read off the nestings.
LEMMA StackIs ==
  ASSUME IrqInv
  PROVE  /\ Len(stack) \in 1 .. 3
         /\ InServiceIsStacked
         /\ inservice \subseteq Lines
<1>1. ASSUME NEW m, Owes(m) = {}, stack = <<m>>, inservice = {}
      PROVE  Len(stack) \in 1 .. 3 /\ InServiceIsStacked /\ inservice \subseteq Lines
  <2>1. Len(stack) = 1 /\ Top = m /\ stack[1] = m
    BY <1>1 DEF Top, Last
  <2>2. UNION {Owes(stack[n]) : n \in 1 .. Len(stack)} = {}
    BY <1>1, <2>1
  <2> QED
    BY <1>1, <2>1, <2>2 DEF InServiceIsStacked
<1>2. ASSUME NEW m, NEW f, Owes(m) = {}, stack = <<m, f>>, inservice = Owes(f),
             Owes(f) \in {{}, {Timer}, {Key}, {Cascade}, {Disk, Cascade}}
      PROVE  Len(stack) \in 1 .. 3 /\ InServiceIsStacked /\ inservice \subseteq Lines
  <2>1. Len(stack) = 2 /\ Top = f /\ stack[1] = m /\ stack[2] = f
    BY <1>2 DEF Top, Last
  <2>2. UNION {Owes(stack[n]) : n \in 1 .. Len(stack)} = Owes(f)
    BY <1>2, <2>1
  <2>3. ASSUME NEW chip \in {Master, Slave}, Owes(f) \cap chip # {}
        PROVE  Min(inservice \cap chip) \in Owes(f)
    <3>1. Owes(f) \cap chip \in {{Timer}, {Key}, {Cascade}, {Disk}}
      BY <1>2, <2>3, Chips DEF Timer, Key, Cascade, Disk
    <3> QED
      BY <1>2, <3>1, Least
  <2>4. inservice \subseteq Lines
    BY <1>2, Chips DEF Lines, Timer, Key, Cascade, Disk
  <2> QED
    BY <1>2, <2>1, <2>2, <2>3, <2>4 DEF InServiceIsStacked
<1>3. ASSUME NEW m, NEW d \in DiskFrames, NEW h \in QuickFrames, Owes(m) = {},
             stack = <<m, d, h>>, inservice = Owes(d) \cup Owes(h)
      PROVE  Len(stack) \in 1 .. 3 /\ InServiceIsStacked /\ inservice \subseteq Lines
  <2>1. Len(stack) = 3 /\ Top = h /\ stack[1] = m /\ stack[2] = d /\ stack[3] = h
    BY <1>3 DEF Top, Last
  <2>2. UNION {Owes(stack[n]) : n \in 1 .. Len(stack)} = Owes(d) \cup Owes(h)
    BY <1>3, <2>1
  <2>3. Owes(d) \in {{}, {Cascade}, {Disk, Cascade}}
    BY DiskFrameIs
  <2>4. Owes(h) = {} \/ \E l \in {Timer, Key} : Owes(h) = {l}
    BY QuickFrameIs
  <2>5. ASSUME NEW chip \in {Master, Slave}, Owes(h) \cap chip # {}
        PROVE  Min(inservice \cap chip) \in Owes(h)
    <3>1. PICK l \in {Timer, Key} : Owes(h) = {l}
      BY <2>4, <2>5
    <3>2. chip = Master
      BY <2>5, <3>1, Chips DEF Timer, Key
    <3>3. inservice \cap chip \in {{l}, {l, Cascade}}
      BY <1>3, <2>3, <3>1, <3>2, Chips DEF Timer, Key, Cascade, Disk
    <3> QED
      BY <3>1, <3>3, Least
  <2>6. inservice \subseteq Lines
    BY <1>3, <2>3, <2>4, Chips DEF Lines, Timer, Key, Cascade, Disk
  <2> QED
    BY <1>3, <2>1, <2>2, <2>5, <2>6 DEF InServiceIsStacked
<1>4. CASE Booting
  <2>1. PICK k \in 1 .. BootLen : Before(k)
    BY <1>4 DEF Booting
  <2>2. Owes(FrameOf(Left(k), NoLine, FALSE)) = {}
    BY LeftIs
  <2> QED
    BY <1>1, <2>1, <2>2 DEF Before
<1>5. CASE Running
  <2>1. PICK m \in MainFrames :
          \/ InMain(m)
          \/ \E f \in SysFrames : InSys(m, f)
          \/ \E h \in QuickFrames : InQuick(m, h)
          \/ \E d \in DiskFrames : InDisk(m, d)
          \/ \E d \in DiskFrames : \E h \in QuickFrames : InBoth(m, d, h)
    BY <1>5 DEF Running, Nested
  <2>2. Owes(m) = {}
    <3>1. PICK t \in MainTodos, s \in BOOLEAN : m = FrameOf(t, NoLine, s)
      BY DEF MainFrames
    <3> QED
      BY <3>1, OwedByMain
  <2>3. CASE InMain(m)
    BY <1>1, <2>2, <2>3 DEF InMain
  <2>4. ASSUME NEW f \in SysFrames, InSys(m, f)
        PROVE  Len(stack) \in 1 .. 3 /\ InServiceIsStacked /\ inservice \subseteq Lines
    <3>1. PICK t \in SysTodos : f = FrameOf(t, NoLine, TRUE)
      BY DEF SysFrames
    <3>2. Owes(f) = {}
      BY <3>1, OwedByMain
    <3> QED
      BY <1>2, <2>2, <2>4, <3>2 DEF InSys
  <2>5. ASSUME NEW h \in QuickFrames, InQuick(m, h)
        PROVE  Len(stack) \in 1 .. 3 /\ InServiceIsStacked /\ inservice \subseteq Lines
    <3>1. Owes(h) \in {{}, {Timer}, {Key}}
      BY QuickFrameIs
    <3> QED
      BY <1>2, <2>2, <2>5, <3>1 DEF InQuick
  <2>6. ASSUME NEW d \in DiskFrames, InDisk(m, d)
        PROVE  Len(stack) \in 1 .. 3 /\ InServiceIsStacked /\ inservice \subseteq Lines
    <3>1. Owes(d) \in {{}, {Cascade}, {Disk, Cascade}}
      BY DiskFrameIs
    <3> QED
      BY <1>2, <2>2, <2>6, <3>1 DEF InDisk
  <2>7. ASSUME NEW d \in DiskFrames, NEW h \in QuickFrames, InBoth(m, d, h)
        PROVE  Len(stack) \in 1 .. 3 /\ InServiceIsStacked /\ inservice \subseteq Lines
    BY <1>3, <2>2, <2>7 DEF InBoth
  <2> QED
    BY <2>1, <2>3, <2>4, <2>5, <2>6, <2>7
<1> QED
  BY <1>4, <1>5 DEF IrqInv

\* The variables of the interrupts keep their types, and no more than three frames
\* are ever on the stack: only the disk's handler is interrupted, and only once.
THEOREM IrqTypeCorrect == IrqSpec => []IrqTypeOK
<1>1. ASSUME IrqInv PROVE IrqTypeOK
  <2>1. Wired /\ Len(stack) \in 1 .. 3 /\ inservice \subseteq Lines
    BY <1>1, StackIs DEF IrqInv
  <2>2. {Timer, Key, Disk} \cup OtherLines \subseteq Lines
    BY OtherAssumption, Chips DEF Lines, Timer, Key, Disk
  <2>3. mask \cup latch \cup inservice \subseteq Master \cup Slave
    BY <2>1, <2>2 DEF Wired, Lines
  <2>4. busy \in BOOLEAN /\ enabled \in BOOLEAN /\ ran \in BOOLEAN /\ early \in BOOLEAN
    BY <2>1, Zenon DEF Wired
  <2>5. {busy, enabled, ran, early} \subseteq BOOLEAN
    BY <2>4, Zenon
  <2> QED
    BY <2>1, <2>3, <2>5 DEF IrqTypeOK, Wired
<1> QED
  BY <1>1, InterruptsInvariance, PTL

\* Nothing is delivered before the boot code has set its gate and moved its vector,
\* and after it only the timer, the keyboard and the disk are, each to its handler.
THEOREM NothingStrays == IrqSpec => []NoStray
<1>1. ASSUME IrqInv PROVE NoStray
  <2>1. CASE Booting
    BY <2>1 DEF Booting, Before, NoStray, Deliverable
  <2>2. ASSUME Wired, Running, MasterRequests # {}
        PROVE  /\ Line \in {Timer, Key, Disk} /\ Vector(Line) = 32 + Line
               /\ gate[Vector(Line)].isr = CASE Line = Timer -> interrupt_pit_timer
                                            [] Line = Key   -> kb_interrupt_hander
                                            [] Line = Disk  -> ata_interrupt_primary_bus
    <3>1. Ready
      BY <2>2 DEF Running
    <3>2. Line \in {Timer, Key, Disk}
      BY <2>2, <3>1, LineIs
    <3>3. /\ Vector(Line) = 32 + Line
          /\ Line = Timer => gate[Vector(Line)].isr = interrupt_pit_timer
          /\ Line = Key => gate[Vector(Line)].isr = kb_interrupt_hander
          /\ Line = Disk => gate[Vector(Line)].isr = ata_interrupt_primary_bus
      BY <2>2, <3>1, Gates
    <3>4. Timer # Key /\ Timer # Disk /\ Key # Disk
      BY DEF Timer, Key, Disk
    <3> QED
      BY <3>2, <3>3, <3>4
  <2> QED
    BY <1>1, <2>1, <2>2 DEF IrqInv, NoStray, Deliverable
<1> QED
  BY <1>1, InterruptsInvariance, PTL

\* An acknowledgement names no line, and still ends the service of the handler that
\* sends it: what is in service is what the frames on the stack have yet to
\* acknowledge, and the topmost frame's lines are the most urgent of each chip.
THEOREM AcknowledgementsMatch == IrqSpec => []InServiceIsStacked
<1>1. ASSUME IrqInv PROVE InServiceIsStacked
  BY <1>1, StackIs
<1> QED
  BY <1>1, InterruptsInvariance, PTL

=============================================================================
