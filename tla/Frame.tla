-------------------------------- MODULE Frame --------------------------------
(***************************************************************************)
(* The physical frame allocator, kernel/frame.c: a bitmap of frames, a     *)
(* scan for the first run of free bits, and a count of allocated frames.   *)
(*                                                                         *)
(* The two nested loops of frame_frist_free are one loop over the bit      *)
(* number k = 32*i + j, one step per bit.  The callers are owners that     *)
(* hold at most one block each: paging.c asks for one frame at a time,     *)
(* elf.c for three.  The allocator is only called from the main thread, or *)
(* from a system call that the main thread makes.                          *)
(***************************************************************************)
EXTENDS Integers

CONSTANTS
  WordBits,    \* bits in a word of the bitmap: 32
  ByteBits,    \* frames per byte of the bitmap, FRAME_BLOCKS_PER_BYTE
  FramesMax,   \* frames_max: the frames below the end of the memory
  Requests,    \* the block lengths that are asked for
  Owners       \* the callers

ASSUME WordAssumption    == WordBits \in Nat \ {0} /\ ByteBits \in Nat \ {0}
ASSUME MaxAssumption     == FramesMax \in Nat
ASSUME RequestAssumption == Requests \subseteq Nat \ {0}

\* The frames frame_frist_free looks at: whole words only.
Scanned == WordBits * (FramesMax \div WordBits)

\* The frames whose bits frame_init clears: whole bytes only.
Cleared == ByteBits * (FramesMax \div ByteBits)

VARIABLES
  used,             \* the set bits of the bitmap
  alloced_frames,   \* the allocator's count
  held,             \* what each owner holds: [at, len], len = 0 for nothing
  pc,               \* "idle", "scan" inside frame_alloc_ex, "panic"
  who, blocks_num,  \* the caller and its argument
  k, cnt, bi, bj    \* the scan's variables

vars == <<used, alloced_frames, held, pc, who, blocks_num, k, cnt, bi, bj>>

Nothing == [at |-> 0, len |-> 0]

Range(b) == b.at .. b.at + b.len - 1

\* frame_init: memset clears the bitmap, but for the bits of a broken byte,
\* which keep what the memory held.
Init ==
  /\ used \in SUBSET (Cleared .. FramesMax - 1)
  /\ alloced_frames = 0
  /\ held = [o \in Owners |-> Nothing]
  /\ pc = "idle"
  /\ who \in Owners /\ blocks_num = 0
  /\ k = 0 /\ cnt = 0 /\ bi = 0 /\ bj = 0

\* The entry of frame_alloc_ex, and of the scan.
Alloc(o, n) ==
  /\ pc = "idle"
  /\ held[o] = Nothing
  /\ pc' = "scan"
  /\ who' = o /\ blocks_num' = n
  /\ k' = 0 /\ cnt' = 0 /\ bi' = 0 /\ bj' = 0
  /\ UNCHANGED <<used, alloced_frames, held>>

\* (mutant: continue without ++j)
ScanUsedStays ==
  /\ pc = "scan" /\ k < Scanned
  /\ k \in used
  /\ cnt' = 0
  /\ UNCHANGED <<used, alloced_frames, held, pc, who, blocks_num, k, bi, bj>>

\* A set bit ends the run.
ScanUsed ==
  /\ pc = "scan" /\ k < Scanned
  /\ k \in used
  /\ cnt' = 0
  /\ k' = k + 1
  /\ UNCHANGED <<used, alloced_frames, held, pc, who, blocks_num, bi, bj>>

\* (mutant: bi follows the run)
WordOfLast == k \div WordBits

\* bi after a clear bit: the word in which the run begins.
WordOfRun == IF cnt = 0 THEN k \div WordBits ELSE bi

\* bj after a clear bit: the if without braces guards bi = i only, so bj is the
\* bit of the clear bit itself.
BitInWord == k % WordBits

\* A clear bit.
SeeFree ==
  /\ pc = "scan" /\ k < Scanned
  /\ k \notin used
  /\ bi' = WordOfRun
  /\ bj' = BitInWord
  /\ cnt' = cnt + 1

\* (mutant: one frame more is asked for)
MoreThanEnough(c) == c > blocks_num

\* Whether a run of c clear bits is long enough.
Enough(c) == c >= blocks_num

\* The run goes on.
ScanFree ==
  /\ SeeFree
  /\ ~Enough(cnt')
  /\ k' = k + 1
  /\ UNCHANGED <<used, alloced_frames, held, pc, who, blocks_num>>

\* The run is long enough: frame_frist_free returns and frame_alloc_ex takes
\* blocks_num frames from the index it returned.
Found ==
  /\ SeeFree
  /\ Enough(cnt')
  /\ LET b == [at |-> bi' * WordBits + bj', len |-> blocks_num]
     IN  /\ used' = used \cup Range(b)
         /\ held' = [held EXCEPT ![who] = b]
  /\ alloced_frames' = alloced_frames + blocks_num
  /\ pc' = "idle"
  /\ UNCHANGED <<who, blocks_num, k>>

\* The scan returns -1 and frame_alloc_ex panics.
OutOfFrames ==
  /\ pc = "scan" /\ k >= Scanned
  /\ pc' = "panic"
  /\ UNCHANGED <<used, alloced_frames, held, who, blocks_num, k, cnt, bi, bj>>

\* (mutant: the index is stepped before it is used)
ClearedNext(b) == {b.at + 1}

\* The frames whose bits frame_free_ex clears: its loop clears the bit of the
\* first frame every time.
ClearedBy(b) == {b.at}

\* frame_free_ex.
Free(o) ==
  /\ pc = "idle"
  /\ held[o] # Nothing
  /\ used' = used \ ClearedBy(held[o])
  /\ alloced_frames' = alloced_frames - held[o].len
  /\ held' = [held EXCEPT ![o] = Nothing]
  /\ UNCHANGED <<pc, who, blocks_num, k, cnt, bi, bj>>

\* panic() halts the machine.
Halted == pc = "panic" /\ UNCHANGED vars

Scan == ScanUsed \/ ScanFree \/ Found \/ OutOfFrames

Next ==
  \/ \E o \in Owners, n \in Requests : Alloc(o, n)
  \/ \E o \in Owners : Free(o)
  \/ Scan
  \/ Halted

Spec == Init /\ [][Next]_vars

\* The loop runs on once it is entered.
FairSpec == Spec /\ WF_vars(Scan)

-----------------------------------------------------------------------------
(* Properties *)

\* The types of the variables; every block that is held starts at a frame that
\* the scan covers.
TypeOK ==
  /\ used \subseteq Nat
  /\ alloced_frames \in Int
  /\ held \in [Owners -> [at : Nat, len : Requests \cup {0}]]
  /\ pc \in {"idle", "scan", "panic"}
  /\ who \in Owners
  /\ blocks_num \in Requests \cup {0}
  /\ k \in 0 .. Scanned
  /\ cnt \in Nat /\ bi \in Nat /\ bj \in 0 .. WordBits - 1
  /\ \A o \in Owners : held[o] # Nothing => held[o].at < Scanned

\* No frame belongs to two owners, and every frame of an owner is marked, so
\* that no later scan hands it out.
Exclusive ==
  /\ \A o \in Owners : Range(held[o]) \subseteq used
  /\ \A o, p \in Owners : o # p => Range(held[o]) \cap Range(held[p]) = {}

\* As long as no caller asks for more than one frame, through any history of
\* allocations and frees, no frame is shared.
OneAtATime == blocks_num <= 1
SinglesAreExclusive == []OneAtATime => []Exclusive

\* n free frames in a row from s on, among the frames that are scanned.
FreeRun(s, n) ==
  /\ s + n <= Scanned
  /\ s .. s + n - 1 \subseteq 0 .. Scanned - 1
  /\ (s .. s + n - 1) \cap used = {}

\* frame_alloc_ex panics only when the scanned frames have no free run of the
\* length asked for: the run counter survives word boundaries and is reset by
\* every set bit, so the scan overlooks none.
PanicOnlyWhenNoRun ==
  pc = "panic" => \A s \in 0 .. Scanned : ~FreeRun(s, blocks_num)

\* The index the scan returns, for any length: the word in which the first free
\* run begins, with the bit at which it ends.  For one frame that is the lowest
\* free frame.
ReturnsWordAndLastBit ==
  [][pc = "scan" /\ held' # held =>
       \E s \in 0 .. Scanned :
         LET last == s + blocks_num - 1
         IN  /\ FreeRun(s, blocks_num)
             /\ \A t \in 0 .. s - 1 : ~FreeRun(t, blocks_num)
             /\ held'[who].at =
                  WordBits * (s \div WordBits) + (last % WordBits)]_vars

\* Every call of frame_alloc_ex ends, in a block or in a panic.
AllocEnds == pc = "scan" ~> pc # "scan"

=============================================================================
