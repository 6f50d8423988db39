------------------------------- MODULE Paging -------------------------------
(***************************************************************************)
(* Paging and the program loader, kernel/paging.c and utils/elf.c, with    *)
(* the bitmap of frames they allocate from.                                *)
(*                                                                         *)
(* The three live in one memory.  The allocator's bitmap lies at address   *)
(* 0x400, in frame 0.  Frame 0 is the first one it hands out, and becomes  *)
(* the first page table: word w of the bitmap IS entry Bitmap + w of that  *)
(* table, the page of kernel code that a virtual address of 1 MB leads to. *)
(* What the allocator marks changes that entry, and what the processor     *)
(* notes in the entry (accessed, dirty) marks a frame.                     *)
(*                                                                         *)
(* A word is the set of its bits that are 1.  A virtual page is a pair of  *)
(* a directory index and a table index.  The scan of the bitmap is one     *)
(* step here; Frame has it bit by bit.                                     *)
(***************************************************************************)
EXTENDS Integers, Sequences, FiniteSets

CONSTANTS
  WordBits,     \* bits in a word: 32
  Flags,        \* bits of an entry below the frame's number: 12
  Words,        \* words of the bitmap that are scanned: frames_max / 32
  Bitmap,       \* the entry under the bitmap's first word: 0x400 / 4
  KernelPages,  \* bound: the pages of the kernel that are followed
  Written,      \* those of them that the kernel writes to
  Programs      \* the programs: for each loadable segment its virtual page

ASSUME WordAssumption   == WordBits \in Nat /\ Flags \in 8 .. WordBits - 2 /\ Words \in Nat
ASSUME BitmapAssumption == Bitmap \in Nat /\ Bitmap .. Bitmap + Words - 1 \subseteq KernelPages
\* An entry's field for the frame's number holds the number of every page.
ASSUME PagesAssumption  == /\ KernelPages \subseteq Nat
                           /\ \A p \in KernelPages : p < 2 ^ (WordBits - Flags - 1)
\* linker.ld puts the code in front of all that is written.
ASSUME WrittenAssumption == Written \subseteq KernelPages /\ Bitmap \notin Written

\* Programs are linked to pages whose table index is none of the kernel's.
ASSUME ProgramsAssumption == Programs \subseteq Seq(Nat \X (Nat \ KernelPages))

Segments == UNION {{f[n] : n \in DOMAIN f} : f \in Programs}
Pages    == KernelPages \cup {v[2] : v \in Segments}
Regions  == {0} \cup {v[1] : v \in Segments}

\* The bits the code and the processor set in an entry.
PRESENT  == 0
WRITABLE == 1
ACCESSED == 5
DIRTY    == 6

VARIABLES
  table,      \* the entries of the page table in frame 0, the bitmap among them
  dir,        \* the entries of current_page_dir
  pdir,       \* the frame that the directory is in
  newtab,     \* the frame taken as the table of each further region, or 0
  pc,         \* "boot", "filled", "idle", "load", "run"
  segs,       \* the segments still to be mapped
  phys_loc,   \* the first frame of the program's block
  booted      \* the frames that were marked when the kernel had started

vars == <<table, dir, pdir, newtab, pc, segs, phys_loc, booted>>

Bits == 0 .. WordBits - 1

\* The frame's place in an entry (PTE_FRAME leaves the highest bit out), and a
\* frame's number there.
FrameField == Flags .. WordBits - 2
FrameBits(f) == {b \in FrameField : (f \div 2 ^ (b - Flags)) % 2 = 1}

\* frame_init has cleared the bitmap; the rest of frame 0 is filled below.
Init ==
  /\ table = [p \in Pages |-> {}]
  /\ dir = [r \in Regions |-> {}]
  /\ pdir = 0 /\ newtab = [r \in Regions |-> 0]
  /\ pc = "boot"
  /\ segs = <<>> /\ phys_loc = 0
  /\ booted = {}

-----------------------------------------------------------------------------
(* The frame allocator, in the memory of the first page table *)

Frames == 0 .. WordBits * Words - 1

\* The marked frames of the bitmap t.
Marked(t) == {f \in Frames : f % WordBits \in t[Bitmap + (f \div WordBits)]}

\* Those of them that the processor's notes do not account for.
Allocated(t) == {f \in Marked(t) : f % WordBits \notin {ACCESSED, DIRTY}}

\* frame_set for a set of frames.
Mark(t, F) ==
  [p \in Pages |-> t[p] \cup {f % WordBits : f \in {g \in F : Bitmap + (g \div WordBits) = p}}]

\* frame_clear for a set of frames.
Clear(t, F) ==
  [p \in Pages |-> t[p] \ {f % WordBits : f \in {g \in F : Bitmap + (g \div WordBits) = p}}]

\* Where the first free run of n frames begins.  If there is none the code
\* panics; TLC would stop at the CHOOSE, so the runs show that it never does.
FirstRun(t, n) ==
  LET runs == {s \in Frames : s .. s + n - 1 \subseteq Frames \ Marked(t)}
  IN  CHOOSE s \in runs : \A r \in runs : s <= r

\* (mutant: the address of the run for its number)
AddressOfRun(t, n) == 2 ^ Flags * FirstRun(t, n)

\* What frame_frist_free returns for n frames: the word in which the first free
\* run begins, with the bit at which it ends.
frist_free(t, n) ==
  LET s == FirstRun(t, n)
  IN  WordBits * (s \div WordBits) + ((s + n - 1) % WordBits)

\* The frames that frame_alloc_ex marks.
Taken(f, n) == f .. f + n - 1

\* (mutant: nothing is cleared)
FreedNone(f) == {}

\* The frames whose bits frame_free_ex clears, whatever the length.
Freed(f) == {f}

-----------------------------------------------------------------------------
(* paging_init *)

\* paging_dir_new, the first table: every page is mapped to the frame of its
\* number, and the bitmap under the table is written over.
FillTable ==
  /\ pc = "boot"
  /\ frist_free(table, 1) = 0
  /\ table' = [p \in Pages |-> {PRESENT} \cup FrameBits(p)]
  /\ pc' = "filled"
  /\ UNCHANGED <<dir, pdir, newtab, segs, phys_loc, booted>>

\* The directory, whose first entry leads to the table, and the switch to it.
NewDirectory ==
  /\ pc = "filled"
  /\ LET f == frist_free(table, 3)
     IN  /\ pdir' = f
         /\ table' = Mark(table, Taken(f, 3))
  /\ dir' = [r \in Regions |-> IF r = 0 THEN {PRESENT, WRITABLE} ELSE {WRITABLE}]
  /\ booted' = Allocated(table')
  /\ pc' = "idle"
  /\ UNCHANGED <<newtab, segs, phys_loc>>

\* The processor notes in an entry that its page was used.
Touch(p) ==
  /\ pc \in {"idle", "load", "run"}
  /\ \E bits \in {{ACCESSED}} \cup (IF p \in Written THEN {{ACCESSED, DIRTY}} ELSE {}) :
       table' = [table EXCEPT ![p] = @ \cup bits]
  /\ UNCHANGED <<dir, pdir, newtab, pc, segs, phys_loc, booted>>

-----------------------------------------------------------------------------
(* elf_stat *)

\* A program with these segments is run from the shell: it gets three frames.  A
\* file that elf_probe or the test of its type refuses changes nothing.
Start(prog) ==
  /\ pc = "idle"
  /\ phys_loc' = frist_free(table, 3)
  /\ table' = Mark(table, Taken(phys_loc', 3))
  /\ segs' = prog
  /\ pc' = "load"
  /\ UNCHANGED <<dir, pdir, newtab, booted>>

\* (mutant: a table is allocated whether the region has one or not)
AbsentAlways(r) == r # 0

\* The test in front of paging_map's allocation.
Absent(r) == PRESENT \notin dir[r]

\* SET_FRAME.
WithFrame(entry, f) == (entry \ FrameField) \cup FrameBits(f)

\* paging_map, and the copying of the segment.  A region that is used for the
\* first time gets a frame for its table, which is cleared; its address is not
\* stored, so that the table in use is the one the entry's frame, 0, leads to.
\* The early return for a frame 0 is never taken: bit 0 of the bitmap is the
\* PRESENT of the page under it.
MapSegment ==
  /\ pc = "load" /\ segs # <<>>
  /\ LET r == Head(segs)[1]
         p == Head(segs)[2]
         f == frist_free(table, 1)
         t == IF Absent(r) THEN Mark(table, Taken(f, 1)) ELSE table
     IN  /\ dir' = [dir EXCEPT ![r] = IF Absent(r) THEN @ \cup {PRESENT, WRITABLE} ELSE @]
         /\ newtab' = [newtab EXCEPT ![r] = IF Absent(r) THEN f ELSE @]
         /\ table' = [t EXCEPT ![p] = WithFrame(@ \cup {PRESENT}, phys_loc)]
  /\ segs' = Tail(segs)
  /\ UNCHANGED <<pdir, pc, phys_loc, booted>>

\* Every segment is mapped: the program runs.
Run ==
  /\ pc = "load" /\ segs = <<>>
  /\ pc' = "run"
  /\ UNCHANGED <<table, dir, pdir, newtab, segs, phys_loc, booted>>

\* The program returns, and its frames are freed.
Exit ==
  /\ pc = "run"
  /\ table' = Clear(table, Freed(phys_loc))
  /\ phys_loc' = 0
  /\ pc' = "idle"
  /\ UNCHANGED <<dir, pdir, newtab, segs, booted>>

Next ==
  \/ FillTable \/ NewDirectory
  \/ \E p \in KernelPages : Touch(p)
  \/ \E f \in Programs : Start(f)
  \/ MapSegment \/ Run \/ Exit

Spec == Init /\ [][Next]_vars

-----------------------------------------------------------------------------
(* Properties *)

\* The types of the variables.
TypeOK ==
  /\ table \in [Pages -> SUBSET Bits]
  /\ dir \in [Regions -> SUBSET Bits]
  /\ pdir \in Frames /\ phys_loc \in Frames
  /\ newtab \in [Regions -> Frames]
  /\ pc \in {"boot", "filled", "idle", "load", "run"}
  /\ booted \subseteq Frames

\* Paging is on: the kernel's own pages stay where they are.  The entries of
\* its code are also the bitmap, so this holds only while no frame is allocated
\* whose bit lies in the frame's field of an entry; that the loader leaks two
\* frames, once, and finds the same place again is what keeps it so.
KernelInPlace ==
  pc \in {"idle", "load", "run"} =>
    \A p \in KernelPages : PRESENT \in table[p] /\ table[p] \cap FrameField = FrameBits(p)

\* The frame a program is loaded into is not the one of a table, of the
\* directory, or of the kernel, and no two tables share one.
OwnFrames ==
  /\ pc \in {"load", "run"} =>
       phys_loc \notin KernelPages \cup {0, pdir} \cup {newtab[r] : r \in Regions}
  /\ \A r \in Regions : newtab[r] # 0 =>
       /\ newtab[r] \notin KernelPages \cup {0, pdir}
       /\ \A s \in Regions \ {r} : newtab[r] # newtab[s]

\* Programs do not drain the memory, though each gives back one of its three
\* frames: between programs, all that is allocated beyond the kernel's own and
\* the tables' frames is the two that the first program to run has left.
FramesComeBack ==
  pc = "idle" =>
    Cardinality(Allocated(table) \ (booted \cup {newtab[r] : r \in Regions})) <= 2

\* Every frame has one use, and those of programs have it again.
FramesAccounted == OwnFrames /\ FramesComeBack

\* Nothing flushes the processor's cache of translations: a page that once led to
\* a program's frame must lead there for good, whichever programs follow.
NeverMoved ==
  [][\A p \in Pages \ KernelPages :
       LET frame == table[p] \cap FrameField
       IN  frame \notin {{}, FrameBits(p)} => table'[p] \cap FrameField = frame]_vars

=============================================================================
