-------------------------------- MODULE Ata --------------------------------
(***************************************************************************)
(* The disk driver, drivers/ata.c: ata_init with its reset and             *)
(* identification of the disk, and ata_read_callback with the polling and  *)
(* the transfer of ata_read_sector.                                        *)
(*                                                                         *)
(* The disk moves at its own pace between the driver's accesses to its     *)
(* registers: it takes a command, works, and then offers data or reports   *)
(* an error.  A late disk takes up to 400 ns to show that it is busy.  The *)
(* driver's interrupt handlers only acknowledge, and are left out; so are  *)
(* the nodes it makes, which are Syscalls'.                                *)
(***************************************************************************)
EXTENDS Integers, FiniteSets, Sequences

CONSTANTS
  ByteBits,     \* bits of a register: 8
  HeadBits,     \* bits of the address in the drive register: 4
  LbaBits,      \* bits of a sector number in the driver: 32
  SectorWords,  \* words of a sector: 256
  Offsets,      \* bound: the sectors that are asked for first
  MaxSize       \* bound: the sectors that one call asks for

ASSUME BitsAssumption == /\ {ByteBits, HeadBits, LbaBits} \subseteq Nat \ {0}
                         /\ HeadBits <= ByteBits /\ 3 * ByteBits + HeadBits <= LbaBits
ASSUME SizeAssumption == /\ SectorWords \in Nat \ {0} /\ MaxSize \in Nat
                         /\ Offsets \subseteq 0 .. 2 ^ LbaBits - 1
\* For the proofs: the prover knows nothing of the operator ^.
ASSUME PowersAssumption ==
  /\ 2 ^ 0 = 1
  /\ \A n \in 0 .. LbaBits :
       /\ 2 ^ n \in Nat \ {0} /\ (n > 0 => 2 ^ n > 1)
       /\ \A m \in 0 .. n : 2 ^ n = 2 ^ m * 2 ^ (n - m)

VARIABLES
  kind,     \* what is at the bus: "none", "packet", "disk"
  faults,   \* whether the device is "late", and whether it has "errors"
  disk,     \* "idle", "latent", "busy", "data", "error"
  job,      \* what the disk works on: "reset", "identify", "read"
  regs,     \* the registers of the address: the drive's, and LBA0 to LBA2
  serving,  \* the sector whose data the disk offers
  pos,      \* the next word it offers
  pc,       \* where the driver is
  op,       \* whose polling and transfer this is: "identify", "read"
  status,   \* _ide_identify's status
  is_master_exist,
  word,     \* the counter of the transfer's loop
  call,     \* the callback's offset and size, and its counter i
  data,     \* the caller's buffer
  clean     \* those i for which no word was read before the disk had data

dvars == <<kind, faults, disk, job, regs, serving, pos>>
vars == <<dvars, pc, op, status, is_master_exist, word, call, data, clean>>

Size == 2 * SectorWords
Garbage == <<>>
Byte(lba, w, half) == <<lba, w, half>>
Cells == 0 .. MaxSize * Size - 1

Init ==
  /\ kind \in {"none", "packet", "disk"} /\ faults \in SUBSET {"late", "errors"}
  /\ disk = "idle" /\ job = "reset"
  /\ regs = [head |-> 0, lba0 |-> 0, lba1 |-> 0, lba2 |-> 0]
  /\ serving = 0 /\ pos = 0
  /\ pc = "reset" /\ op = "identify" /\ status = {} /\ is_master_exist = FALSE
  /\ word = 0 /\ call = [offset |-> 0, size |-> 0, i |-> 0]
  /\ data = [c \in Cells |-> Garbage] /\ clean = {}

-----------------------------------------------------------------------------
(* The disk *)

\* The bits of the status register; what is beside BSY means nothing.  A packet
\* device has no RDY until it has refused a disk's command.
Status ==
  IF kind = "none" THEN {}
  ELSE CASE disk = "busy"  -> {"BSY", "RDY"}
         [] disk = "data"  -> {"RDY", "DRQ"}
         [] disk = "error" -> {"RDY", "ERR"}
         [] OTHER          -> IF kind = "packet" THEN {} ELSE {"RDY"}

Address(r) ==
  r.lba0 + 2 ^ ByteBits * (r.lba1 + 2 ^ ByteBits * (r.lba2 + 2 ^ ByteBits * r.head))

\* The registers of a packet device after a reset or an aborted command.
Signature(r) == [r EXCEPT !.lba1 = 1, !.lba2 = 1]

\* A command is written behind the registers r; a busy disk takes neither.
Command(j, r) ==
  /\ UNCHANGED <<kind, faults>>
  /\ IF disk = "busy" \/ kind = "none"
     THEN UNCHANGED <<disk, job, regs, serving, pos>>
     ELSE /\ disk' \in {"busy"} \cup (IF "late" \in faults THEN {"latent"} ELSE {})
          /\ job' = j /\ regs' = r /\ serving' = Address(r) /\ pos' = 0

ShowBusy ==
  /\ disk = "latent" /\ disk' = "busy"
  /\ UNCHANGED <<kind, faults, job, regs, serving, pos>>

\* The end of a reset, and of a command.
Ready ==
  /\ disk = "busy" /\ job = "reset"
  /\ disk' = "idle"
  /\ regs' = IF kind = "packet" THEN Signature(regs) ELSE regs
  /\ UNCHANGED <<kind, faults, job, serving, pos>>

Offer ==
  /\ disk = "busy" /\ job # "reset" /\ kind = "disk"
  /\ disk' = "data"
  /\ UNCHANGED <<kind, faults, job, regs, serving, pos>>

Fail ==
  /\ disk = "busy" /\ job # "reset"
  /\ kind = "packet" \/ "errors" \in faults
  /\ disk' = "error"
  /\ regs' = IF kind = "packet" THEN Signature(regs) ELSE regs
  /\ UNCHANGED <<kind, faults, job, serving, pos>>

Disk ==
  /\ ShowBusy \/ Ready \/ Offer \/ Fail
  /\ UNCHANGED <<pc, op, status, is_master_exist, word, call, data, clean>>

\* One word is read from the data register; after the last the disk is idle.
ReadData ==
  /\ pos' = IF disk = "data" THEN pos + 1 ELSE pos
  /\ disk' = IF disk = "data" /\ pos' = SectorWords THEN "idle" ELSE disk
  /\ UNCHANGED <<kind, faults, job, regs, serving>>

-----------------------------------------------------------------------------
(* Polling *)

\* (mutant: the driver does not wait for the disk)
BsyClearAlways == TRUE

\* What ends _ata_wait_bsy.
BsyClear == "BSY" \notin Status

\* (mutant: DRQ, as the function's name says)
DrqSet == "DRQ" \in Status

\* What ends _ata_wait_drq: it looks for RDY.
DrqWaited == "RDY" \in Status

\* _ata_delay400ns: within this time a disk shows that it is busy.
Delayed == disk # "latent"

Go(from, to) == pc = from /\ pc' = to

-----------------------------------------------------------------------------
(* ata_init *)

Reset ==
  /\ Go("reset", "identify")
  /\ disk' = (IF kind = "none" THEN disk ELSE "busy") /\ job' = "reset"
  /\ UNCHANGED <<kind, faults, regs, serving, pos, op, status, is_master_exist, word, call, data, clean>>

\* _ide_identify, the registers and the command; it does not wait for the reset.
Identify ==
  /\ Go("identify", "status")
  /\ Command("identify", [head |-> 0, lba0 |-> 0, lba1 |-> 0, lba2 |-> 0])
  /\ UNCHANGED <<op, status, is_master_exist, word, call, data, clean>>

ReadStatus ==
  /\ Go("status", "delay")
  /\ status' = Status
  /\ UNCHANGED <<dvars, op, is_master_exist, word, call, data, clean>>

Delay ==
  /\ Delayed
  /\ Go("delay", IF "BSY" \in status THEN "status" ELSE "signature")
  /\ UNCHANGED <<dvars, op, status, is_master_exist, word, call, data, clean>>

\* (mutant: the signature is not looked at)
RefusedStatus == status = {}

\* The bus is empty, or what is there is not a disk.
Refused == status = {} \/ regs.lba1 # 0 \/ regs.lba2 # 0

\* The two tests between the identification's calls of _ata_wait_bsy.
CheckSignature ==
  /\ BsyClear
  /\ Go("signature", IF Refused THEN "panic" ELSE "bsy")
  /\ UNCHANGED <<dvars, op, status, is_master_exist, word, call, data, clean>>

Panic == pc = "panic" /\ UNCHANGED vars

\* A poll that sees nothing new.
Poll == pc \in {"signature", "bsy", "drq", "next"} /\ UNCHANGED vars

-----------------------------------------------------------------------------
(* What _ide_identify and ata_read_sector share *)

WaitBsy ==
  /\ BsyClear
  /\ op = "identify" => Delayed
  /\ Go("bsy", "drq")
  /\ UNCHANGED <<dvars, op, status, is_master_exist, word, call, data, clean>>

\* The value _ata_poll tests for an error is RDY: no error is ever seen.
WaitDrq ==
  /\ DrqWaited
  /\ Go("drq", "words")
  /\ word' = 0
  /\ UNCHANGED <<dvars, op, status, is_master_exist, call, data, clean>>

\* The half of a word that goes to index + c, little end first.
Half(c) == IF disk = "data" THEN Byte(serving, pos, c) ELSE Garbage

\* The loops over 256 words; the identification's words go nowhere.  They take
\* longer than a late disk does to show that it is busy.
ReadWord ==
  /\ pc = "words"
  /\ word = SectorWords - 1 => Delayed
  /\ ReadData
  /\ word' = (word + 1) % SectorWords
  /\ IF op = "read"
     THEN data' = LET index == Size * call.i + 2 * word
                  IN  [data EXCEPT ![index] = Half(0), ![index + 1] = Half(1)]
     ELSE data' = data
  /\ clean' = IF disk = "data" THEN clean ELSE clean \ {call.i}
  /\ pc' = IF word < SectorWords - 1 THEN "words"
           ELSE IF op = "identify" THEN "idle" ELSE "next"
  /\ is_master_exist' = (is_master_exist \/ pc' = "idle")
  /\ call' = IF pc' = "next" THEN [call EXCEPT !.i = @ + 1] ELSE call
  /\ UNCHANGED <<op, status>>

-----------------------------------------------------------------------------
(* ata_read_callback *)

Call(offset, size) ==
  /\ Go("idle", "next")
  /\ call' = [offset |-> offset, size |-> size, i |-> 0]
  /\ data' = [c \in Cells |-> Garbage] /\ clean' = {} /\ op' = "read"
  /\ UNCHANGED <<dvars, status, is_master_exist, word>>

Lba == (call.offset + call.i) % 2 ^ LbaBits

\* The n-th byte of the sector's number.
Register(lba, n) == (lba \div 2 ^ (n * ByteBits)) % 2 ^ ByteBits

\* ata_read_sector up to the command.  It is not called without a master:
\* ata_init panics first.
ReadSector ==
  /\ Go("next", "bsy")
  /\ call.i < call.size
  /\ BsyClear
  /\ Command("read", [head |-> Register(Lba, 3) % 2 ^ HeadBits, lba0 |-> Register(Lba, 0),
                      lba1 |-> Register(Lba, 1), lba2 |-> Register(Lba, 2)])
  /\ clean' = clean \cup {call.i}
  /\ UNCHANGED <<op, status, is_master_exist, word, call, data>>

Return ==
  /\ Go("next", "idle")
  /\ call.i = call.size
  /\ UNCHANGED <<dvars, op, status, is_master_exist, word, call, data, clean>>

Driver ==
  \/ Reset \/ Identify \/ ReadStatus \/ Delay \/ CheckSignature
  \/ WaitBsy \/ WaitDrq \/ ReadWord \/ ReadSector \/ Return

Next ==
  \/ Disk \/ Driver \/ Poll \/ Panic
  \/ \E offset \in Offsets, size \in 0 .. MaxSize : Call(offset, size)

Spec == Init /\ [][Next]_vars

\* A disk comes to the end of a command, and the processor to the next access.
FairSpec == Spec /\ WF_vars(Disk) /\ WF_vars(Driver)

-----------------------------------------------------------------------------
(* Properties *)

\* The types of the variables: every value fits the register it is written to.
TypeOK ==
  /\ kind \in {"none", "packet", "disk"} /\ faults \subseteq {"late", "errors"}
  /\ disk \in {"idle", "latent", "busy", "data", "error"}
  /\ job \in {"reset", "identify", "read"}
  /\ regs \in [head : 0 .. 2 ^ HeadBits - 1, lba0 : 0 .. 2 ^ ByteBits - 1,
               lba1 : 0 .. 2 ^ ByteBits - 1, lba2 : 0 .. 2 ^ ByteBits - 1]
  /\ pos \in 0 .. SectorWords /\ word \in 0 .. SectorWords - 1
  /\ pc \in {"reset", "identify", "status", "delay", "signature", "panic", "bsy", "drq",
             "words", "idle", "next"}
  /\ op \in {"identify", "read"}
  /\ status \subseteq {"BSY", "RDY", "DRQ", "ERR"}
  /\ is_master_exist \in BOOLEAN
  /\ call \in [offset : Offsets \cup {0}, size : 0 .. MaxSize, i : 0 .. MaxSize]
  /\ call.i <= call.size
  /\ DOMAIN data = Cells
  /\ clean \subseteq 0 .. MaxSize

\* ata_init goes on only if there is a disk, however late it answers: neither an
\* empty bus nor a packet device is taken for one.
MasterIsDisk == is_master_exist => kind \notin {"none", "packet"}

\* The sectors a call is given are those it asked for, byte by byte, up to the
\* 28 bits a number may have: all of them if the disk shows at once that it is
\* busy and has no errors, although RDY is polled for DRQ; and otherwise those
\* that were transferred when the disk had data, whatever happened to others.
DeliversSectors ==
  pc = "idle" =>
    \A i \in 0 .. call.size - 1 :
      LET lba == (call.offset + i) % 2 ^ LbaBits
      IN  (faults = {} \/ i \in clean) /\ lba < 2 ^ (3 * ByteBits + HeadBits) =>
            \A n \in 0 .. Size - 1 : data[Size * i + n] = Byte(lba, n \div 2, n % 2)

\* No call waits for ever, with errors too: the polling ends as RDY comes back
\* with an error, and DRQ would not.
CallsEnd == []<>(pc \in {"idle", "panic"})

=============================================================================
