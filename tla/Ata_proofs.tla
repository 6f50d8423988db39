------------------------------ MODULE Ata_proofs ------------------------------
(***************************************************************************)
(* Proofs about the disk driver of Ata.tla, for every width of a register, *)
(* every length of a sector and every pace of the device at the bus: what  *)
(* is written fits the registers, only a disk is taken for one, and what   *)
(* arrives in the caller's buffer is the sectors that were asked for.      *)
(***************************************************************************)
EXTENDS Ata, TLAPS

-----------------------------------------------------------------------------
(* Bytes and numbers *)

LEMMA Modulus ==
  ASSUME NEW b \in Nat \ {0}, NEW x \in Nat
  PROVE  x % b \in 0 .. b - 1 /\ x \div b \in Nat
  OBVIOUS

LEMMA Powers ==
  /\ 2 ^ LbaBits \in Nat \ {0} /\ 2 ^ ByteBits \in Nat \ {0} /\ 2 ^ HeadBits \in Nat \ {0}
  /\ 2 ^ ByteBits > 1
  /\ \A n \in 0 .. 3 : 2 ^ (n * ByteBits) \in Nat \ {0}
<1>1. LbaBits \in 0 .. LbaBits /\ ByteBits \in 0 .. LbaBits /\ HeadBits \in 0 .. LbaBits
  BY BitsAssumption
<1>3. ByteBits > 0
  BY BitsAssumption
<1>2. \A n \in 0 .. 3 : n * ByteBits \in 0 .. LbaBits
  <2> TAKE n \in 0 .. 3
  <2>1. CASE n = 0
    BY <2>1, BitsAssumption
  <2>2. CASE n = 1
    BY <2>2, BitsAssumption
  <2>3. CASE n = 2
    BY <2>3, BitsAssumption
  <2>4. CASE n = 3
    BY <2>4, BitsAssumption
  <2> QED
    BY <2>1, <2>2, <2>3, <2>4
<1> QED
  BY <1>1, <1>2, <1>3, PowersAssumption

\* The registers that a command is written behind.
Registers ==
  [head : 0 .. 2 ^ HeadBits - 1, lba0 : 0 .. 2 ^ ByteBits - 1,
   lba1 : 0 .. 2 ^ ByteBits - 1, lba2 : 0 .. 2 ^ ByteBits - 1]

LEMMA LbaType ==
  ASSUME TypeOK
  PROVE  Lba \in Nat
<1>1. call.offset \in Nat /\ call.i \in Nat
  <2>1. call.offset \in Offsets \cup {0} /\ call.i \in 0 .. MaxSize
    BY DEF TypeOK
  <2> QED
    <3>1. Offsets \subseteq Nat /\ MaxSize \in Nat
      BY SizeAssumption, Powers
    <3>2. \A x : x \in Offsets \cup {0} => x \in Nat
      BY <3>1
    <3>3. \A x : x \in 0 .. MaxSize => x \in Nat
      OBVIOUS
    <3> QED
      BY <2>1, <3>2, <3>3
<1> DEFINE all == 2 ^ LbaBits
<1>2. all \in Nat \ {0}
  BY Powers
<1>3. call.offset + call.i \in Nat
  BY <1>1
<1> HIDE DEF all
<1>4. (call.offset + call.i) % all \in Nat
  BY <1>2, <1>3, Modulus
<1> QED
  BY <1>4 DEF Lba, all

LEMMA RegisterType ==
  ASSUME NEW lba \in Nat, NEW n \in 0 .. 3
  PROVE  Register(lba, n) \in 0 .. 2 ^ ByteBits - 1
<1>1. lba \div 2 ^ (n * ByteBits) \in Nat
  BY Powers, Modulus
<1> QED
  BY <1>1, Powers, Modulus DEF Register

LEMMA SectorRegisters ==
  ASSUME TypeOK
  PROVE  [head |-> Register(Lba, 3) % 2 ^ HeadBits, lba0 |-> Register(Lba, 0),
          lba1 |-> Register(Lba, 1), lba2 |-> Register(Lba, 2)] \in Registers
<1>1. Lba \in Nat
  BY LbaType
<1>2. \A n \in 0 .. 3 : Register(Lba, n) \in 0 .. 2 ^ ByteBits - 1
  BY <1>1, RegisterType
<1>3. Register(Lba, 3) \in Nat
  BY <1>2, Powers
<1>4. Register(Lba, 3) % 2 ^ HeadBits \in 0 .. 2 ^ HeadBits - 1
  BY <1>3, Powers, Modulus
<1> QED
  BY <1>2, <1>4 DEF Registers

-----------------------------------------------------------------------------
(* The invariant *)

\* The places of ata_init in front of the test of the signature.
Early == {"identify", "status", "delay", "signature"}

\* While the signature is still to be looked at, a packet device works, or is
\* about to, or shows it: the reset and the command it refuses both end so.
ShowsSignature ==
  kind = "packet" /\ pc \in Early => disk \in {"busy", "latent"} \/ regs.lba1 # 0

IInv ==
  /\ TypeOK
  /\ kind = "none" => status = {}
  /\ ShowsSignature
  /\ pc = "signature" => disk # "latent"
  /\ pc \in Early \cup {"reset", "panic"} => op = "identify"
  /\ pc = "next" => op = "read"
  /\ pc = "reset" => pos = 0
  /\ disk \in {"latent", "busy", "data"} => pos < SectorWords
  /\ op = "identify" /\ pc \in {"bsy", "drq", "words"} => kind = "disk"
  /\ op = "read" /\ pc \in {"bsy", "drq", "words"} => call.i < call.size
  /\ is_master_exist => kind = "disk"

LEMMA InitInv == Init => IInv
<1> SUFFICES ASSUME Init PROVE IInv
  OBVIOUS
<1>1. TypeOK
  <2>1. regs \in Registers
    BY Powers DEF Init, Registers
  <2>2. call \in [offset : Offsets \cup {0}, size : 0 .. MaxSize, i : 0 .. MaxSize]
        /\ call.i <= call.size
    BY SizeAssumption DEF Init
  <2>3. pos \in 0 .. SectorWords /\ word \in 0 .. SectorWords - 1
    BY SizeAssumption DEF Init
  <2> QED
    BY <2>1, <2>2, <2>3 DEF Init, TypeOK, Registers
<1> QED
  BY <1>1, SizeAssumption DEF Init, IInv, ShowsSignature, Early

\* A packet device's signature fits the registers.
LEMMA SignatureType ==
  ASSUME TypeOK
  PROVE  Signature(regs) \in Registers /\ Signature(regs).lba1 # 0
<1>1. regs \in Registers
  BY DEF TypeOK, Registers
<1>2. 1 \in 0 .. 2 ^ ByteBits - 1
  BY Powers
<1> DEFINE first == [regs EXCEPT !.lba1 = 1]
<1>3. first \in Registers /\ first.lba1 = 1
  BY <1>1, <1>2 DEF Registers
<1>4. [first EXCEPT !.lba2 = 1] \in Registers /\ [first EXCEPT !.lba2 = 1].lba1 = 1
  BY <1>2, <1>3 DEF Registers
<1>5. Signature(regs) = [first EXCEPT !.lba2 = 1]
  BY DEF Signature
<1> QED
  BY <1>4, <1>5

LEMMA DiskInv ==
  ASSUME IInv, Disk
  PROVE  IInv'
<1> USE DEF Disk, Early
<1>1. regs' \in Registers
  BY SignatureType DEF IInv, TypeOK, Registers, ShowBusy, Ready, Offer, Fail
<1>2. TypeOK'
  <2>1. disk' \in {"idle", "latent", "busy", "data", "error"}
    BY DEF ShowBusy, Ready, Offer, Fail
  <2>2. UNCHANGED <<kind, faults, job, pos, pc, op, status, is_master_exist, word, call,
                    data, clean>>
    BY DEF ShowBusy, Ready, Offer, Fail
  <2> HIDE DEF Disk
  <2>3. /\ kind' \in {"none", "packet", "disk"} /\ faults' \subseteq {"late", "errors"}
        /\ job' \in {"reset", "identify", "read"}
        /\ pos' \in 0 .. SectorWords /\ word' \in 0 .. SectorWords - 1
    BY <2>2 DEF IInv, TypeOK
  <2>4. /\ pc' \in {"reset", "identify", "status", "delay", "signature", "panic", "bsy", "drq",
                     "words", "idle", "next"}
        /\ op' \in {"identify", "read"}
        /\ status' \subseteq {"BSY", "RDY", "DRQ", "ERR"}
        /\ is_master_exist' \in BOOLEAN
    BY <2>2 DEF IInv, TypeOK
  <2>5. /\ call' \in [offset : Offsets \cup {0}, size : 0 .. MaxSize, i : 0 .. MaxSize]
        /\ call'.i <= call'.size
        /\ DOMAIN data' = Cells
        /\ clean' \subseteq 0 .. MaxSize
    BY <2>2 DEF IInv, TypeOK
  <2>6. regs' \in [head : 0 .. 2 ^ HeadBits - 1, lba0 : 0 .. 2 ^ ByteBits - 1,
                   lba1 : 0 .. 2 ^ ByteBits - 1, lba2 : 0 .. 2 ^ ByteBits - 1]
    BY <1>1 DEF Registers
  <2> QED
    BY <2>1, <2>3, <2>4, <2>5, <2>6, Zenon DEF TypeOK
<1>3. ShowsSignature'
  <2> SUFFICES ASSUME kind' = "packet", pc' \in Early
               PROVE  disk' \in {"busy", "latent"} \/ regs'.lba1 # 0
    BY DEF ShowsSignature
  <2>1. kind = "packet" /\ pc \in Early
    BY DEF ShowBusy, Ready, Offer, Fail
  <2>2. CASE ShowBusy
    BY <2>2 DEF ShowBusy
  <2>3. CASE Ready
    BY <2>1, <2>3, SignatureType DEF Ready, IInv
  <2>4. CASE Offer
    BY <2>1, <2>4 DEF Offer
  <2>5. CASE Fail
    BY <2>1, <2>5, SignatureType DEF Fail, IInv
  <2> QED
    BY <2>2, <2>3, <2>4, <2>5
<1>4. UNCHANGED <<kind, pc, pos, op, status, call, is_master_exist>>
  BY DEF ShowBusy, Ready, Offer, Fail
<1>6. disk' \in {"latent", "busy", "data"} => pos' < SectorWords
  BY DEF IInv, ShowBusy, Ready, Offer, Fail
<1>5. pc' = "signature" => disk' # "latent"
  BY <1>4 DEF IInv, ShowBusy, Ready, Offer, Fail
<1> QED
  BY <1>2, <1>3, <1>4, <1>5, <1>6 DEF IInv

\* A command leaves a device that is busy alone, and makes another one busy.
LEMMA CommandType ==
  ASSUME TypeOK, NEW j \in {"reset", "identify", "read"}, NEW r \in Registers, Command(j, r)
  PROVE  /\ regs' \in Registers /\ pos' \in 0 .. SectorWords
         /\ disk' \in {"idle", "latent", "busy", "data", "error"}
         /\ job' \in {"reset", "identify", "read"} /\ UNCHANGED <<kind, faults>>
         /\ kind = "packet" => disk' \in {"busy", "latent"}
         /\ UNCHANGED <<disk, pos>> \/ pos' = 0
<1>1. regs \in Registers
  BY DEF TypeOK, Registers
<1>2. 0 \in 0 .. SectorWords
  BY SizeAssumption
<1> QED
  BY <1>1, <1>2 DEF Command, TypeOK

LEMMA DriverInv ==
  ASSUME IInv, Driver
  PROVE  IInv'
<1> USE DEF Early, Go
<1>1. CASE Reset
  <2>1. TypeOK'
    BY <1>1 DEF Reset, IInv, TypeOK
  <2> QED
    BY <1>1, <2>1, SizeAssumption DEF Reset, IInv, ShowsSignature
<1>2. CASE Identify
  <2>1. [head |-> 0, lba0 |-> 0, lba1 |-> 0, lba2 |-> 0] \in Registers
    BY Powers DEF Registers
  <2>2. /\ regs' \in Registers /\ pos' \in 0 .. SectorWords
        /\ disk' \in {"idle", "latent", "busy", "data", "error"}
        /\ job' \in {"reset", "identify", "read"} /\ UNCHANGED <<kind, faults>>
        /\ kind = "packet" => disk' \in {"busy", "latent"}
        /\ UNCHANGED <<disk, pos>> \/ pos' = 0
    BY <1>2, <2>1, CommandType DEF Identify, IInv
  <2>3. TypeOK'
    BY <1>2, <2>2 DEF Identify, IInv, TypeOK, Registers
  <2> QED
    BY <1>2, <2>2, <2>3, SizeAssumption DEF Identify, IInv, ShowsSignature
<1>3. CASE ReadStatus
  <2>1. Status \subseteq {"BSY", "RDY", "DRQ", "ERR"} /\ (kind = "none" => Status = {})
    <3>1. CASE kind = "none"
      BY <3>1 DEF Status
    <3>2. CASE kind # "none" /\ disk \in {"busy", "data", "error"}
      <4>1. CASE disk = "busy"
        BY <3>2, <4>1 DEF Status
      <4>2. CASE disk = "data"
        BY <3>2, <4>2 DEF Status
      <4>3. CASE disk = "error"
        BY <3>2, <4>3 DEF Status
      <4> QED
        BY <3>2, <4>1, <4>2, <4>3
    <3>3. CASE kind # "none" /\ disk \notin {"busy", "data", "error"}
      <4>1. Status = IF kind = "packet" THEN {} ELSE {"RDY"}
        BY <3>3 DEF Status
      <4> QED
        BY <4>1, <3>3
    <3> QED
      BY <3>1, <3>2, <3>3
  <2>2. TypeOK'
    BY <1>3, <2>1 DEF ReadStatus, dvars, IInv, TypeOK
  <2> QED
    BY <1>3, <2>1, <2>2 DEF ReadStatus, dvars, IInv, ShowsSignature
<1>4. CASE Delay
  <2>1. TypeOK'
    BY <1>4 DEF Delay, dvars, IInv, TypeOK
  <2> QED
    BY <1>4, <2>1 DEF Delay, Delayed, dvars, IInv, ShowsSignature
<1>5. CASE CheckSignature
  <2>1. TypeOK'
    BY <1>5 DEF CheckSignature, dvars, IInv, TypeOK
  <2>2. ~Refused => kind # "none"
    BY DEF Refused, IInv
  <2>3. ~Refused => kind # "packet"
    BY <1>5 DEF Refused, CheckSignature, BsyClear, Status, IInv, ShowsSignature
  <2>4. ~Refused => kind = "disk"
    BY <2>2, <2>3 DEF IInv, TypeOK
  <2> QED
    BY <1>5, <2>1, <2>4 DEF CheckSignature, dvars, IInv, ShowsSignature
<1>6. CASE WaitBsy
  <2>1. TypeOK'
    BY <1>6 DEF WaitBsy, dvars, IInv, TypeOK
  <2> QED
    BY <1>6, <2>1 DEF WaitBsy, dvars, IInv, ShowsSignature
<1>7. CASE WaitDrq
  <2>1. TypeOK'
    BY <1>7, SizeAssumption DEF WaitDrq, dvars, IInv, TypeOK
  <2> QED
    BY <1>7, <2>1 DEF WaitDrq, dvars, IInv, ShowsSignature
<1>10. CASE Return
  <2>1. TypeOK'
    BY <1>10 DEF Return, dvars, IInv, TypeOK
  <2> QED
    BY <1>10, <2>1 DEF Return, dvars, IInv, ShowsSignature
<1>9. CASE ReadSector
  <2>1. /\ regs' \in Registers /\ pos' \in 0 .. SectorWords
        /\ disk' \in {"idle", "latent", "busy", "data", "error"}
        /\ job' \in {"reset", "identify", "read"} /\ UNCHANGED <<kind, faults>>
        /\ UNCHANGED <<disk, pos>> \/ pos' = 0
    BY <1>9, SectorRegisters, CommandType DEF ReadSector, IInv
  <2>2. clean' \subseteq 0 .. MaxSize
    BY <1>9 DEF ReadSector, IInv, TypeOK
  <2>3. TypeOK'
    BY <1>9, <2>1, <2>2 DEF ReadSector, IInv, TypeOK, Registers
  <2> QED
    BY <1>9, <2>1, <2>3, SizeAssumption DEF ReadSector, IInv, ShowsSignature
<1>8. CASE ReadWord
  <2>1. /\ pos' \in 0 .. SectorWords /\ UNCHANGED <<kind, faults, job, regs>>
        /\ disk' \in {disk, "idle"}
    <3>1. pos \in 0 .. SectorWords /\ (disk = "data" => pos < SectorWords)
      BY DEF IInv, TypeOK
    <3>2. pos' = IF disk = "data" THEN pos + 1 ELSE pos
      BY <1>8 DEF ReadWord, ReadData
    <3>3. pos' \in 0 .. SectorWords
      BY <3>1, <3>2, SizeAssumption
    <3> QED
      BY <3>3, <1>8 DEF ReadWord, ReadData
  <2>2. word' \in 0 .. SectorWords - 1
    <3>1. word + 1 \in Nat /\ word' = (word + 1) % SectorWords
      BY <1>8 DEF ReadWord, IInv, TypeOK
    <3> QED
      BY <3>1, SizeAssumption, Modulus
  <2>3. DOMAIN data' = Cells
    BY <1>8 DEF ReadWord, IInv, TypeOK
  <2>4. clean' \subseteq 0 .. MaxSize
    BY <1>8 DEF ReadWord, IInv, TypeOK
  <2>5. /\ pc = "words" /\ UNCHANGED <<op, status>>
        /\ pc' \in {"words", "idle", "next"}
        /\ pc' = "idle" => op = "identify"
        /\ pc' = "next" => op = "read"
    BY <1>8 DEF ReadWord, IInv, TypeOK
  <2>6. /\ call' = IF pc' = "next" THEN [call EXCEPT !.i = @ + 1] ELSE call
        /\ is_master_exist' = (is_master_exist \/ pc' = "idle")
    BY <1>8 DEF ReadWord
  <2>7. /\ call' \in [offset : Offsets \cup {0}, size : 0 .. MaxSize, i : 0 .. MaxSize]
        /\ call'.i <= call'.size
        /\ pc' = "words" => call' = call
    <3>1. CASE pc' = "next"
      <4>1. call \in [offset : Offsets \cup {0}, size : 0 .. MaxSize, i : 0 .. MaxSize]
            /\ call.i < call.size
        BY <2>5, <3>1 DEF IInv, TypeOK
      <4>2. call.i \in 0 .. MaxSize /\ call.size \in 0 .. MaxSize
        BY <4>1
      <4>3. call.i + 1 \in 0 .. MaxSize /\ call.i + 1 <= call.size
        BY <4>1, <4>2, SizeAssumption
      <4> QED
        BY <2>6, <3>1, <4>1, <4>3
    <3>2. CASE pc' # "next"
      BY <2>6, <3>2 DEF IInv, TypeOK
    <3> QED
      BY <3>1, <3>2
  <2>8. TypeOK'
    BY <2>1, <2>2, <2>3, <2>4, <2>5, <2>6, <2>7 DEF IInv, TypeOK
  <2>10. disk' \in {"latent", "busy", "data"} => pos' < SectorWords
    <3>1. pos \in 0 .. SectorWords /\ (disk = "data" => pos < SectorWords)
      BY DEF IInv, TypeOK
    <3>2. /\ pos' = IF disk = "data" THEN pos + 1 ELSE pos
          /\ disk' = IF disk = "data" /\ pos' = SectorWords THEN "idle" ELSE disk
      BY <1>8 DEF ReadWord, ReadData
    <3> QED
      BY <3>1, <3>2, SizeAssumption DEF IInv
  <2>9. is_master_exist' => kind = "disk"
    BY <2>5, <2>6 DEF IInv
  <2> QED
    BY <2>1, <2>5, <2>7, <2>8, <2>9, <2>10 DEF IInv, ShowsSignature
<1> QED
  BY <1>1, <1>2, <1>3, <1>4, <1>5, <1>6, <1>7, <1>8, <1>9, <1>10 DEF Driver

LEMMA CallInv ==
  ASSUME IInv, NEW offset \in Offsets, NEW size \in 0 .. MaxSize, Call(offset, size)
  PROVE  IInv'
<1>1. call' \in [offset : Offsets \cup {0}, size : 0 .. MaxSize, i : 0 .. MaxSize]
      /\ call'.i <= call'.size
  BY SizeAssumption DEF Call
<1>2. TypeOK'
  BY <1>1 DEF Call, Go, dvars, IInv, TypeOK
<1> QED
  BY <1>2 DEF Call, Go, dvars, IInv, ShowsSignature, Early

LEMMA NextInv ==
  ASSUME IInv, [Next]_vars
  PROVE  IInv'
<1>1. CASE UNCHANGED vars
  BY <1>1 DEF vars, dvars, IInv, TypeOK, ShowsSignature, Early
<1>2. CASE Poll \/ Panic
  BY <1>1, <1>2 DEF Poll, Panic
<1> QED
  BY <1>1, <1>2, DiskInv, DriverInv, CallInv DEF Next

\* For every width of the registers and every length of a sector, what the
\* driver writes fits its register, at any pace of the device.
THEOREM TypeCorrect == Spec => []TypeOK
<1>1. IInv => TypeOK
  BY DEF IInv
<1> QED
  BY <1>1, InitInv, NextInv, PTL DEF Spec

\* ata_init goes on only with a disk: a packet device is told by its signature
\* even when it is still busy with the reset, or takes the command late.
THEOREM MasterIsADisk == Spec => []MasterIsDisk
<1>1. IInv => MasterIsDisk
  BY DEF IInv, MasterIsDisk
<1> QED
  BY <1>1, InitInv, NextInv, PTL DEF Spec

-----------------------------------------------------------------------------
(* The sector that the registers name *)

LEMMA Unique ==
  ASSUME NEW d \in Nat \ {0}, NEW q \in Nat, NEW r \in 0 .. d - 1
  PROVE  (d * q + r) \div d = q /\ (d * q + r) % d = r
  OBVIOUS

LEMMA Quotient ==
  ASSUME NEW x \in Nat, NEW b \in Nat \ {0}
  PROVE  x = b * (x \div b) + (x % b) /\ x \div b \in Nat /\ x % b \in 0 .. b - 1
  OBVIOUS

LEMMA QuotientTwice ==
  ASSUME NEW x \in Nat, NEW b \in Nat \ {0}, NEW c \in Nat \ {0}
  PROVE  x \div (b * c) = (x \div b) \div c
<1> DEFINE q == x \div b
           s == q \div c
           r == b * (q % c) + (x % b)
<1>1. x = b * q + (x % b) /\ q \in Nat /\ x % b \in 0 .. b - 1
  BY Quotient
<1>2. q = c * s + (q % c) /\ s \in Nat /\ q % c \in 0 .. c - 1
  BY <1>1, Quotient
<1>3. b * c \in Nat \ {0}
  OBVIOUS
<1> HIDE DEF q, s
<1>4. b * (q % c) \in 0 .. b * (c - 1)
  BY <1>2
<1>5. r \in 0 .. b * c - 1
  BY <1>1, <1>2, <1>4
<1>6. x = (b * c) * s + r
  <2>1. b * q = b * (c * s) + b * (q % c)
    BY <1>1, <1>2
  <2>2. b * (c * s) = (b * c) * s
    BY <1>2
  <2> QED
    BY <1>1, <1>2, <1>4, <2>1, <2>2
<1> HIDE DEF r
<1>7. x \div (b * c) = s
  BY <1>2, <1>3, <1>5, <1>6, Unique
<1> QED
  BY <1>7 DEF q, s

LEMMA MorePowers ==
  LET b == 2 ^ ByteBits
      h == 2 ^ HeadBits
  IN  /\ 2 ^ (0 * ByteBits) = 1 /\ 2 ^ (1 * ByteBits) = b
      /\ 2 ^ (2 * ByteBits) = b * b /\ 2 ^ (3 * ByteBits) = (b * b) * b
      /\ 2 ^ (3 * ByteBits + HeadBits) = ((b * b) * b) * h
      /\ h <= b
<1> DEFINE P(n) == 2 ^ n
<1>1. \A n \in 0 .. LbaBits : P(n) \in Nat \ {0} /\ \A m \in 0 .. n : P(n) = P(m) * P(n - m)
  BY PowersAssumption
<1>2. P(0) = 1
  BY PowersAssumption
<1> HIDE DEF P
<1>3. P(0 * ByteBits) = 1 /\ P(1 * ByteBits) = P(ByteBits)
  BY <1>2, BitsAssumption
<1>4. P(2 * ByteBits) = P(ByteBits) * P(ByteBits)
  <2>1. 2 * ByteBits \in 0 .. LbaBits /\ ByteBits \in 0 .. 2 * ByteBits
        /\ 2 * ByteBits - ByteBits = ByteBits
    BY BitsAssumption
  <2> QED
    BY <1>1, <2>1
<1>5. P(3 * ByteBits) = (P(ByteBits) * P(ByteBits)) * P(ByteBits)
  <2>1. 3 * ByteBits \in 0 .. LbaBits /\ 2 * ByteBits \in 0 .. 3 * ByteBits
        /\ 3 * ByteBits - 2 * ByteBits = ByteBits
    BY BitsAssumption
  <2> QED
    BY <1>1, <1>4, <2>1
<1>6. P(3 * ByteBits + HeadBits) = P(3 * ByteBits) * P(HeadBits)
  <2>1. 3 * ByteBits + HeadBits \in 0 .. LbaBits /\ 3 * ByteBits \in 0 .. 3 * ByteBits + HeadBits
        /\ (3 * ByteBits + HeadBits) - 3 * ByteBits = HeadBits
    BY BitsAssumption
  <2> QED
    BY <1>1, <2>1
<1>7. P(HeadBits) <= P(ByteBits)
  <2>1. ByteBits \in 0 .. LbaBits /\ HeadBits \in 0 .. ByteBits /\ ByteBits - HeadBits \in 0 .. LbaBits
        /\ HeadBits \in 0 .. LbaBits
    BY BitsAssumption
  <2>2. P(ByteBits) = P(HeadBits) * P(ByteBits - HeadBits)
    BY <1>1, <2>1
  <2>3. P(HeadBits) \in Nat \ {0} /\ P(ByteBits - HeadBits) \in Nat \ {0}
    BY <1>1, <2>1
  <2> QED
    BY <2>2, <2>3
<1> QED
  BY <1>3, <1>4, <1>5, <1>6, <1>7 DEF P

\* The registers of a sector's number, put together by the disk.
SectorRegs(lba) ==
  [head |-> Register(lba, 3) % 2 ^ HeadBits, lba0 |-> Register(lba, 0),
   lba1 |-> Register(lba, 1), lba2 |-> Register(lba, 2)]

LEMMA AddressOfRegisters ==
  ASSUME NEW lba \in Nat, lba < 2 ^ (3 * ByteBits + HeadBits)
  PROVE  Address(SectorRegs(lba)) = lba
<1> DEFINE b == 2 ^ ByteBits
           h == 2 ^ HeadBits
           q0 == lba \div b
           q1 == q0 \div b
           q2 == q1 \div b
<1>1. b \in Nat \ {0} /\ h \in Nat \ {0} /\ h <= b
  BY Powers, MorePowers
<1>2. Register(lba, 0) = lba % b
  <2>1. lba \div 1 = lba
    OBVIOUS
  <2> QED
    BY <2>1, MorePowers DEF Register
<1>3. Register(lba, 1) = q0 % b
  BY MorePowers DEF Register
<1>4. lba \div (b * b) = q1
  <2> HIDE DEF b
  <2> QED
    BY <1>1, QuotientTwice
<1>5. Register(lba, 2) = q1 % b
  BY <1>4, MorePowers DEF Register
<1>6. lba \div ((b * b) * b) = q2
  <2> HIDE DEF b
  <2>1. b * b \in Nat \ {0}
    BY <1>1
  <2> QED
    BY <1>1, <1>4, <2>1, QuotientTwice
<1>7. Register(lba, 3) = q2 % b
  BY <1>6, MorePowers DEF Register
<1>8. lba < ((b * b) * b) * h
  BY MorePowers
<1> HIDE DEF b, h
<1>9. /\ lba = b * q0 + (lba % b) /\ q0 \in Nat
      /\ q0 = b * q1 + (q0 % b) /\ q1 \in Nat
      /\ q1 = b * q2 + (q1 % b) /\ q2 \in Nat
  <2>1. lba = b * q0 + (lba % b) /\ q0 \in Nat
    BY <1>1, Quotient
  <2>2. q0 = b * q1 + (q0 % b) /\ q1 \in Nat
    BY <1>1, <2>1, Quotient
  <2>3. q1 = b * q2 + (q1 % b) /\ q2 \in Nat
    BY <1>1, <2>2, Quotient
  <2> QED
    BY <2>1, <2>2, <2>3
<1>10. q2 < h
  <2> DEFINE c == (b * b) * b
  <2>1. c \in Nat \ {0} /\ q2 = lba \div c
    BY <1>1, <1>6
  <2> HIDE DEF c, q2
  <2>2. lba = c * q2 + (lba % c) /\ q2 \in Nat /\ lba % c \in 0 .. c - 1
    BY <2>1, Quotient
  <2>3. lba < c * h
    BY <1>8 DEF c
  <2>4. CASE q2 >= h
    <3>1. c * q2 >= c * h
      BY <1>1, <2>1, <2>2, <2>4
    <3>2. c * q2 \in Nat /\ c * h \in Nat
      BY <1>1, <2>1, <2>2
    <3> QED
      BY <2>2, <2>3, <3>1, <3>2
  <2> QED
    BY <1>1, <2>2, <2>4
<1> HIDE DEF q0, q1, q2
<1>11. q2 % b = q2 /\ q2 % h = q2
  BY <1>1, <1>9, <1>10
<1>12. Address(SectorRegs(lba)) = (lba % b) + b * ((q0 % b) + b * ((q1 % b) + b * q2))
  BY <1>2, <1>3, <1>5, <1>7, <1>11 DEF Address, SectorRegs, b, h
<1> QED
  BY <1>1, <1>9, <1>12

-----------------------------------------------------------------------------
(* The caller's buffer *)

\* The place of a sector's byte is inside it, and not another one's.
LEMMA Place ==
  ASSUME NEW i \in Nat, i < MaxSize, NEW n \in 0 .. Size - 1
  PROVE  Size * i + n \in Cells
<1>1. Size \in Nat \ {0} /\ MaxSize \in Nat
  BY SizeAssumption DEF Size
<1>2. Size * (i + 1) <= Size * MaxSize
  BY <1>1
<1>3. Size * (i + 1) = Size * i + Size /\ Size * MaxSize = MaxSize * Size
  BY <1>1
<1>4. Size * i \in Nat /\ Size * MaxSize \in Nat
  BY <1>1
<1> QED
  BY <1>1, <1>2, <1>3, <1>4 DEF Cells

LEMMA Apart ==
  ASSUME NEW i \in Nat, NEW j \in Nat, j < i, NEW n \in 0 .. Size - 1, NEW m \in Nat
  PROVE  Size * j + n # Size * i + m
<1>1. Size \in Nat \ {0}
  BY SizeAssumption DEF Size
<1>2. Size * (j + 1) <= Size * i
  BY <1>1
<1>3. Size * (j + 1) = Size * j + Size /\ Size * j \in Nat /\ Size * i \in Nat
  BY <1>1
<1> QED
  BY <1>1, <1>2, <1>3

-----------------------------------------------------------------------------
(* What arrives *)

Sector(i) == (call.offset + i) % 2 ^ LbaBits
Named(i) == Sector(i) < 2 ^ (3 * ByteBits + HeadBits)

\* The first len bytes of the i-th sector are in the buffer.
Arrived(i, len) ==
  Named(i) => \A n \in 0 .. len - 1 : data[Size * i + n] = Byte(Sector(i), n \div 2, n % 2)

\* What the disk does for a read from the command to the last word: a disk
\* that is prompt has data as soon as it is no longer busy.
InTransfer ==
  op = "read" /\ pc \in {"bsy", "drq", "words"} =>
    /\ Named(call.i) => serving = Sector(call.i)
    /\ pc \in {"bsy", "drq"} => pos = 0 /\ call.i \in clean
    /\ pc = "words" /\ call.i \in clean =>
         /\ pos = word /\ (word > 0 => disk = "data")
         /\ Arrived(call.i, 2 * word)
    /\ faults = {} => /\ call.i \in clean /\ job = "read"
                      /\ disk = "data" \/ (pc = "bsy" /\ disk = "busy")

DInv ==
  /\ pc = "idle" \/ op = "read" => kind = "disk"
  /\ op = "identify" => call.size = 0
  /\ pc = "idle" => call.i = call.size
  /\ InTransfer
  /\ op = "read" => \A i \in Nat : i < call.i =>
       (faults = {} => i \in clean) /\ (i \in clean => Arrived(i, Size))
  /\ data = [c \in Cells |-> data[c]]

LEMMA InitDInv == Init => DInv
  BY DEF Init, DInv, InTransfer

\* A step that leaves the call, its buffer and what was transferred alone.
LEMMA SameArrived ==
  ASSUME UNCHANGED <<call, data, clean>>
  PROVE  /\ \A i : Sector(i)' = Sector(i) /\ (Named(i) <=> Named(i)')
         /\ \A i, len : Arrived(i, len)' <=> Arrived(i, len)
  BY DEF Sector, Named, Arrived

LEMMA DiskDInv ==
  ASSUME IInv, DInv, Disk
  PROVE  DInv'
<1>1. UNCHANGED <<kind, faults, job, serving, pos, pc, op, word, call, data, clean>>
  BY DEF Disk, ShowBusy, Ready, Offer, Fail
<1>2. disk \in {"latent", "busy"}
  BY DEF Disk, ShowBusy, Ready, Offer, Fail
<1>3. faults = {} /\ kind = "disk" /\ job = "read" /\ disk = "busy" => disk' = "data"
  BY DEF Disk, ShowBusy, Ready, Offer, Fail
<1>4. InTransfer'
  <2> SUFFICES ASSUME op = "read", pc \in {"bsy", "drq", "words"}
               PROVE  InTransfer'
    BY <1>1 DEF InTransfer
  <2>1. kind = "disk"
    BY DEF DInv
  <2> QED
    BY <1>1, <1>2, <1>3, <2>1, SameArrived DEF DInv, InTransfer
<1>5. op = "read" => \A i \in Nat : i < call.i =>
        (faults = {} => i \in clean) /\ (i \in clean => Arrived(i, Size)')
  BY <1>1, SameArrived DEF DInv
<1> QED
  BY <1>1, <1>4, <1>5 DEF DInv

\* The identification reads no sector and leaves the call alone.
LEMMA IdentifyDInv ==
  ASSUME DInv, op = "identify", UNCHANGED <<op, call, data>>,
         pc' = "idle" => call.i = call.size /\ kind' = "disk"
  PROVE  DInv'
  BY DEF DInv, InTransfer

LEMMA WaitBsyDInv ==
  ASSUME IInv, DInv, WaitBsy
  PROVE  DInv'
<1>1. CASE op = "identify"
  BY <1>1, IdentifyDInv DEF WaitBsy, Go
<1>2. CASE op = "read"
  <2>1. disk # "busy"
    BY <1>2 DEF WaitBsy, BsyClear, Status, DInv
  <2> QED
    BY <1>2, <2>1, SameArrived DEF WaitBsy, Go, dvars, DInv, InTransfer
<1> QED
  BY <1>1, <1>2 DEF IInv, TypeOK

LEMMA WaitDrqDInv ==
  ASSUME IInv, DInv, WaitDrq
  PROVE  DInv'
<1>1. CASE op = "identify"
  BY <1>1, IdentifyDInv DEF WaitDrq, Go
<1>2. CASE op = "read"
  <2>1. UNCHANGED <<dvars, op, call, data, clean>> /\ pc = "drq" /\ pc' = "words" /\ word' = 0
    BY DEF WaitDrq, Go
  <2>2. Arrived(call.i, 2 * word)'
    BY <2>1 DEF Arrived
  <2>3. InTransfer'
    BY <1>2, <2>1, <2>2, SameArrived DEF dvars, DInv, InTransfer
  <2> QED
    BY <1>2, <2>1, <2>3, SameArrived DEF dvars, DInv
<1> QED
  BY <1>1, <1>2 DEF IInv, TypeOK

\* A command for a sector the driver's registers can name is for that sector.
LEMMA ReadSectorDInv ==
  ASSUME IInv, DInv, ReadSector
  PROVE  DInv'
<1>1. /\ pc = "next" /\ pc' = "bsy" /\ op = "read" /\ kind = "disk"
      /\ UNCHANGED <<op, word, call, data>> /\ clean' = clean \cup {call.i}
  BY DEF ReadSector, Go, IInv, DInv
<1>2. disk # "busy"
  BY <1>1 DEF ReadSector, BsyClear, Status
<1>3. Command("read", SectorRegs(Lba))
  BY DEF ReadSector, SectorRegs
<1>4. /\ disk' = "busy" \/ (disk' = "latent" /\ faults # {})
      /\ job' = "read" /\ pos' = 0 /\ serving' = Address(SectorRegs(Lba))
      /\ UNCHANGED <<kind, faults>>
  BY <1>1, <1>2, <1>3 DEF Command
<1>5. Lba \in Nat /\ Lba = Sector(call.i)
  BY LbaType DEF IInv, Lba, Sector
<1>6. \A i : Sector(i)' = Sector(i) /\ (Named(i) <=> Named(i)')
  BY <1>1 DEF Sector, Named
<1>7. \A i, len : Arrived(i, len)' <=> Arrived(i, len)
  BY <1>1 DEF Arrived, Sector, Named
<1>8. Named(call.i) => serving' = Sector(call.i)
  BY <1>4, <1>5, AddressOfRegisters DEF Named
<1>9. InTransfer'
  BY <1>1, <1>4, <1>6, <1>8 DEF InTransfer
<1>10. \A i \in Nat : i < call.i =>
         (faults = {} => i \in clean') /\ (i \in clean' => Arrived(i, Size)')
  <2> TAKE i \in Nat
  <2> HAVE i < call.i
  <2>1. i # call.i
    BY DEF IInv, TypeOK
  <2> QED
    BY <1>1, <1>7, <2>1 DEF DInv
<1> QED
  BY <1>1, <1>4, <1>9, <1>10 DEF DInv

\* One word more: both halves come to their places behind those that are there,
\* and other sectors' places are left alone.
LEMMA ReadWordDInv ==
  ASSUME IInv, DInv, ReadWord, op = "read"
  PROVE  DInv'
<1> DEFINE x == Size * call.i + 2 * word
<1>1. /\ pc = "words" /\ kind = "disk" /\ UNCHANGED <<op, kind, faults, job, serving>>
      /\ call.i \in Nat /\ call.i < call.size /\ call.i < MaxSize
      /\ word \in 0 .. SectorWords - 1 /\ SectorWords \in Nat \ {0}
  BY SizeAssumption DEF ReadWord, ReadData, IInv, TypeOK, DInv
<1>2. /\ x \in Cells /\ x + 1 \in Cells
      /\ x = Size * call.i + 2 * word /\ x + 1 = Size * call.i + (2 * word + 1)
      /\ 2 * word \in 0 .. Size - 1 /\ 2 * word + 1 \in 0 .. Size - 1 /\ Size \in Nat
      /\ Size * call.i \in Nat
  <2>1. 2 * word \in 0 .. Size - 1 /\ 2 * word + 1 \in 0 .. Size - 1 /\ Size \in Nat
    BY <1>1 DEF Size
  <2>2. Size * call.i \in Nat
    BY <1>1, <2>1
  <2>3. x + 1 = Size * call.i + (2 * word + 1)
    BY <1>1, <2>2
  <2> QED
    BY <1>1, <2>1, <2>2, <2>3, Place
<1> HIDE DEF x
<1>3. /\ data' = [data EXCEPT ![x] = Half(0), ![x + 1] = Half(1)]
      /\ data = [c \in Cells |-> data[c]]
  BY DEF ReadWord, x, DInv
<1>4. /\ data' = [c \in Cells |-> data'[c]]
      /\ data'[x] = Half(0) /\ data'[x + 1] = Half(1)
      /\ \A c \in Cells : c # x /\ c # x + 1 => data'[c] = data[c]
  <2>1. x # x + 1
    BY <1>2
  <2> QED
    BY <1>2, <1>3, <2>1
<1>5. /\ call' = [call EXCEPT !.i = call'.i] /\ call'.i \in {call.i, call.i + 1}
      /\ UNCHANGED <<call.offset, call.size>>
  BY <1>1 DEF ReadWord, IInv, TypeOK
<1>6. \A i : Sector(i)' = Sector(i) /\ (Named(i) <=> Named(i)')
  BY <1>5 DEF Sector, Named
<1>7. /\ clean' = IF disk = "data" THEN clean ELSE clean \ {call.i}
      /\ pos' = IF disk = "data" THEN pos + 1 ELSE pos
      /\ disk' = IF disk = "data" /\ pos' = SectorWords THEN "idle" ELSE disk
  BY DEF ReadWord, ReadData
<1>8. ASSUME NEW i \in Nat, i < call.i, i \in clean'
      PROVE  Arrived(i, Size)'
  <2>1. Arrived(i, Size)
    BY <1>7, <1>8 DEF DInv
  <2>2. \A n \in 0 .. Size - 1 : data'[Size * i + n] = data[Size * i + n]
    <3> TAKE n \in 0 .. Size - 1
    <3>1. Size * i + n # x /\ Size * i + n # x + 1
      BY <1>1, <1>2, <1>8, Apart
    <3>2. Size * i + n \in Cells
      BY <1>1, <1>8, SizeAssumption, Place
    <3> QED
      BY <1>4, <3>1, <3>2
  <2> QED
    BY <1>6, <2>1, <2>2 DEF Arrived, Size
<1>9. ASSUME call.i \in clean'
      PROVE  /\ disk = "data" /\ pos = word
             /\ Named(call.i) => \A n \in 0 .. 2 * (word + 1) - 1 :
                  data'[Size * call.i + n] = Byte(Sector(call.i), n \div 2, n % 2)
  <2>1. disk = "data" /\ call.i \in clean
    BY <1>7, <1>9
  <2>2. pos = word /\ Arrived(call.i, 2 * word)
    BY <1>1, <2>1 DEF DInv, InTransfer
  <2>3. ASSUME Named(call.i), NEW n \in 0 .. 2 * (word + 1) - 1
        PROVE  data'[Size * call.i + n] = Byte(Sector(call.i), n \div 2, n % 2)
    <3>1. CASE n < 2 * word
      <4>1. n \in 0 .. 2 * word - 1 /\ n \in 0 .. Size - 1
        BY <1>1, <1>2, <3>1
      <4>2. data[Size * call.i + n] = Byte(Sector(call.i), n \div 2, n % 2)
        BY <2>2, <2>3, <4>1 DEF Arrived
      <4>3. Size * call.i + n \in Cells
        BY <1>1, <4>1, Place
      <4>4. Size * call.i + n # x /\ Size * call.i + n # x + 1
        BY <1>1, <1>2, <3>1
      <4> QED
        BY <1>4, <4>2, <4>3, <4>4
    <3>2. CASE n = 2 * word
      <4>1. n \div 2 = word /\ n % 2 = 0
        BY <1>1, <3>2
      <4> QED
        BY <1>1, <1>2, <1>4, <2>1, <2>2, <2>3, <3>2, <4>1 DEF Half, DInv, InTransfer
    <3>3. CASE n = 2 * word + 1
      <4>1. n \div 2 = word /\ n % 2 = 1
        BY <1>1, <3>3
      <4> QED
        BY <1>1, <1>2, <1>4, <2>1, <2>2, <2>3, <3>3, <4>1 DEF Half, DInv, InTransfer
    <3> QED
      BY <1>1, <3>1, <3>2, <3>3
  <2> QED
    BY <2>1, <2>2, <2>3
<1>10. faults = {} => call.i \in clean'
  BY <1>1, <1>7 DEF DInv, InTransfer
<1>11. CASE word < SectorWords - 1
  <2>1. pc' = "words" /\ call' = call /\ word' = word + 1
    <3>1. (word + 1) % SectorWords = word + 1
      BY <1>1, <1>11
    <3> QED
      BY <1>1, <1>11, <3>1 DEF ReadWord
  <2>3. call.i \in clean' => Arrived(call.i, 2 * word)'
    BY <1>6, <1>9, <2>1 DEF Arrived
  <2>4. call.i \in clean' => pos' = word' /\ disk' = "data"
    <3>1. word + 1 # SectorWords
      BY <1>1, <1>11
    <3> QED
      BY <1>7, <1>9, <2>1, <3>1
  <2>5. InTransfer'
    BY <1>1, <1>6, <1>10, <2>1, <2>3, <2>4 DEF DInv, InTransfer
  <2>6. \A i \in Nat : i < call'.i =>
          (faults' = {} => i \in clean') /\ (i \in clean' => Arrived(i, Size)')
    <3> TAKE i \in Nat
    <3> HAVE i < call'.i
    <3>1. i # call.i
      BY <1>1, <2>1
    <3> QED
      BY <1>1, <1>7, <1>8, <2>1, <3>1 DEF DInv
  <2> QED
    BY <1>1, <1>4, <2>1, <2>5, <2>6 DEF DInv
<1>12. CASE word = SectorWords - 1
  <2>1. pc' = "next" /\ call'.i = call.i + 1
    BY <1>1, <1>12 DEF ReadWord, IInv, TypeOK
  <2>2. 2 * (word + 1) = Size
    BY <1>1, <1>12 DEF Size
  <2>3. \A i \in Nat : i < call'.i =>
          (faults' = {} => i \in clean') /\ (i \in clean' => Arrived(i, Size)')
    <3> TAKE i \in Nat
    <3> HAVE i < call'.i
    <3>1. CASE i = call.i
      <4>1. i \in clean' => (Named(i) => \A n \in 0 .. Size - 1 :
              data'[Size * i + n] = Byte(Sector(i), n \div 2, n % 2))
        BY <1>9, <2>2, <3>1
      <4>2. i \in clean' => Arrived(i, Size)'
        BY <1>6, <4>1 DEF Arrived, Size
      <4> QED
        BY <1>1, <1>10, <3>1, <4>2
    <3>2. CASE i # call.i
      <4>1. i < call.i
        BY <1>1, <2>1, <3>2
      <4> QED
        BY <1>1, <1>7, <1>8, <4>1 DEF DInv
    <3> QED
      BY <3>1, <3>2
  <2> QED
    BY <1>1, <1>4, <2>1, <2>3 DEF DInv, InTransfer
<1> QED
  BY <1>1, <1>11, <1>12

LEMMA DriverDInv ==
  ASSUME IInv, DInv, Driver
  PROVE  DInv'
<1> USE DEF Go
<1>1. CASE Reset \/ Identify \/ ReadStatus \/ Delay \/ CheckSignature
  <2>1. /\ op = "identify" /\ UNCHANGED <<op, call, data>> /\ pc' # "idle"
    BY <1>1 DEF Reset, Identify, ReadStatus, Delay, CheckSignature, IInv, Early
  <2> QED
    BY <2>1, IdentifyDInv
<1>2. CASE ReadWord
  <2>1. CASE op = "identify"
    <3>1. kind = "disk" /\ UNCHANGED <<op, kind, call, data>> /\ pc' \in {"words", "idle"}
      BY <1>2, <2>1 DEF ReadWord, ReadData, IInv
    <3>2. call.i = call.size
      BY <2>1, SizeAssumption DEF DInv, IInv, TypeOK
    <3> QED
      BY <2>1, <3>1, <3>2, IdentifyDInv
  <2> QED
    BY <1>2, <2>1, ReadWordDInv DEF IInv, TypeOK
<1>3. CASE Return
  <2>1. /\ pc = "next" /\ pc' = "idle" /\ op = "read" /\ call.i = call.size
        /\ UNCHANGED <<dvars, op, word, call, data, clean>>
    BY <1>3 DEF Return, IInv
  <2> QED
    BY <2>1, SameArrived DEF dvars, DInv, InTransfer
<1> QED
  BY <1>1, <1>2, <1>3, WaitBsyDInv, WaitDrqDInv, ReadSectorDInv DEF Driver

LEMMA NextDInv ==
  ASSUME IInv, DInv, [Next]_vars
  PROVE  DInv'
<1>1. CASE UNCHANGED vars
  BY <1>1, SameArrived DEF vars, dvars, DInv, InTransfer
<1>2. CASE Poll \/ Panic
  BY <1>1, <1>2 DEF Poll, Panic
<1>3. ASSUME NEW offset \in Offsets, NEW size \in 0 .. MaxSize, Call(offset, size)
      PROVE  DInv'
  <2>1. kind' = "disk" /\ op' = "read" /\ pc' = "next" /\ call'.i = 0
        /\ data' = [c \in Cells |-> Garbage]
    BY <1>3 DEF Call, Go, dvars, DInv
  <2> QED
    BY <2>1 DEF DInv, InTransfer
<1> QED
  BY <1>1, <1>2, <1>3, DiskDInv, DriverDInv DEF Next

\* Every sector that a call asks for arrives whole and is the one asked for, as
\* far as a number of 28 bits can name it: from a prompt disk without errors all
\* of them, and from any other those during whose transfer it had data.
THEOREM SectorsArrive == Spec => []DeliversSectors
<1>1. IInv /\ DInv => DeliversSectors
  <2> SUFFICES ASSUME IInv, DInv, pc = "idle", NEW i \in 0 .. call.size - 1,
                      faults = {} \/ i \in clean, Named(i)
               PROVE  \A n \in 0 .. Size - 1 :
                        data[Size * i + n] = Byte(Sector(i), n \div 2, n % 2)
    BY DEF DeliversSectors, Named, Sector
  <2>1. op = "read" /\ i \in Nat /\ i < call.i
    BY DEF DInv, IInv, TypeOK
  <2>2. Arrived(i, Size)
    BY <2>1 DEF DInv
  <2> QED
    BY <2>2 DEF Arrived
<1> QED
  BY <1>1, InitInv, NextInv, InitDInv, NextDInv, PTL DEF Spec

=============================================================================
