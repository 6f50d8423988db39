---------------------------- MODULE Paging_proofs ----------------------------
(***************************************************************************)
(* Proofs about paging and the program loader of Paging.tla, with the      *)
(* sizes of the machine: for every memory, every choice of kernel pages,   *)
(* and every set of programs that between them use at most two regions of  *)
(* 4 MB behind the first.  A third region's table breaks the properties    *)
(* (see the README): the hypothesis is what makes them true.               *)
(*                                                                         *)
(* The argument is the value of one word.  The first word of the bitmap,   *)
(* which is also the entry of the page under it, has the entry's own bits, *)
(* those of the boot, those of the tables and those of the program: the    *)
(* allocator's choices, and with them the place of every program, follow.  *)
(***************************************************************************)
EXTENDS Paging, FiniteSetTheorems, SequenceTheorems, TLAPS

\* The processor's words and entries.
Machine == WordBits = 32 /\ Flags = 12 /\ Words # 0

\* The tables of two regions are all that the bitmap's first word can bear.
FewRegions == \E r1, r2 : Regions \subseteq {0, r1, r2}

\* linker.ld puts the kernel at 1 MB; below it, it has the directory's page and
\* those that were allocated with it.
LinkedHigh == KernelPages \cap 1 .. 10 \subseteq 3 .. 5

USE DEF PRESENT, WRITABLE, ACCESSED, DIRTY

-----------------------------------------------------------------------------
(* The operators *)

LEMMA SizeFacts ==
  ASSUME Machine
  PROVE  /\ Bits = 0 .. 31 /\ FrameField = 12 .. 30
         /\ Words \in Nat /\ Words # 0 /\ Frames = 0 .. 32 * Words - 1
<1>1. Words \in Nat /\ Words # 0
  BY WordAssumption DEF Machine
<1> QED
  BY <1>1 DEF Bits, FrameField, Frames, Machine

LEMMA FirstFrames ==
  ASSUME Machine, NEW q \in 0 .. 31
  PROVE  q \in Frames
  BY SizeFacts

LEMMA PageFacts ==
  ASSUME Machine
  PROVE  /\ Bitmap \in KernelPages /\ Bitmap \in Nat /\ Bitmap \in Pages
         /\ KernelPages \subseteq Pages /\ Bitmap \notin Written
<1>1. Words \in Nat /\ Words # 0
  BY SizeFacts
<1>2. Bitmap \in KernelPages
  BY <1>1, BitmapAssumption
<1> QED
  BY <1>2, BitmapAssumption, WrittenAssumption DEF Pages

\* The words of the bitmap are entries of kernel pages.
LEMMA WordPages ==
  ASSUME Machine, NEW f \in Frames
  PROVE  Bitmap + (f \div 32) \in KernelPages
<1>1. f \div 32 \in 0 .. Words - 1
  BY SizeFacts
<1> QED
  BY <1>1, SizeFacts, BitmapAssumption

\* The number of a frame is in the upper bits of an entry.
LEMMA FieldBits ==
  ASSUME Machine, NEW f, NEW b \in FrameBits(f)
  PROVE  b \in 12 .. 30
  BY SizeFacts DEF FrameBits

LEMMA FieldSubset ==
  ASSUME Machine, NEW f
  PROVE  FrameBits(f) \subseteq FrameField /\ FrameBits(f) \subseteq Bits
<1>1. FrameBits(f) \subseteq FrameField
  BY DEF FrameBits
<1>2. \A b \in 12 .. 30 : b \in 0 .. 31
  OBVIOUS
<1> QED
  BY <1>1, <1>2, SizeFacts

\* The first 32 frames have the bits of the first word.
LEMMA FirstWord ==
  ASSUME Machine, NEW f \in 0 .. 31
  PROVE  f % WordBits = f /\ f \div WordBits = 0 /\ Bitmap + (f \div WordBits) = Bitmap
<1>1. f % 32 = f /\ f \div 32 = 0
  OBVIOUS
<1>2. Bitmap \in Nat
  BY PageFacts
<1> QED
  BY <1>1, <1>2 DEF Machine

\* Marking and clearing some of them changes that word only.
FirstWordSet(t, w) == [p \in Pages |-> IF p = Bitmap THEN w ELSE t[p]]

LEMMA MarkFirst ==
  ASSUME Machine, NEW t, NEW F, F \subseteq 0 .. 31
  PROVE  /\ Mark(t, F) = FirstWordSet(t, t[Bitmap] \cup F)
         /\ Clear(t, F) = FirstWordSet(t, t[Bitmap] \ F)
<1> DEFINE G(p) == {f % WordBits : f \in {g \in F : Bitmap + (g \div WordBits) = p}}
<1>1. \A p : G(p) = IF p = Bitmap THEN F ELSE {}
  <2>1. \A g \in F : g % WordBits = g /\ Bitmap + (g \div WordBits) = Bitmap
    BY FirstWord
  <2> QED
    BY <2>1
<1>2. Mark(t, F) = [p \in Pages |-> t[p] \cup G(p)]
  BY DEF Mark
<1>3. Clear(t, F) = [p \in Pages |-> t[p] \ G(p)]
  BY DEF Clear
<1> HIDE DEF G
<1>4. Mark(t, F) = FirstWordSet(t, t[Bitmap] \cup F)
  BY <1>1, <1>2 DEF FirstWordSet
<1>5. Clear(t, F) = FirstWordSet(t, t[Bitmap] \ F)
  BY <1>1, <1>3 DEF FirstWordSet
<1> QED
  BY <1>4, <1>5

\* What the scan for n frames finds when the first word decides it.
LEMMA FirstRunIs ==
  ASSUME Machine, NEW t, NEW n \in 1 .. 3, NEW s \in 0 .. 8,
         \A q \in s .. s + n - 1 : q \notin t[Bitmap],
         \A r \in 0 .. s - 1 : \E q \in r .. r + n - 1 : q \in t[Bitmap]
  PROVE  frist_free(t, n) = s + n - 1
<1> DEFINE runs == {r \in Frames : r .. r + n - 1 \subseteq Frames \ Marked(t)}
<1>0. \A q \in 0 .. 31 : q \in Frames /\ (q \in Marked(t) <=> q \in t[Bitmap])
  <2> SUFFICES ASSUME NEW q \in 0 .. 31
               PROVE  q \in Frames /\ (q \in Marked(t) <=> q \in t[Bitmap])
    OBVIOUS
  <2>1. q \in Frames
    BY FirstFrames
  <2>2. q % WordBits = q /\ Bitmap + (q \div WordBits) = Bitmap
    BY FirstWord
  <2> QED
    BY <2>1, <2>2 DEF Marked
<1>1. s \in runs
  <2>1. \A q \in s .. s + n - 1 : q \in 0 .. 31 /\ q \in Frames /\ q \notin Marked(t)
    BY <1>0
  <2> QED
    BY <1>0, <2>1
<1>2. \A r \in runs : s <= r
  <2> SUFFICES ASSUME NEW r \in Frames, r .. r + n - 1 \subseteq Frames \ Marked(t), ~(s <= r)
               PROVE  FALSE
    OBVIOUS
  <2>0. r \in Int /\ 0 <= r
    BY SizeFacts
  <2>1. r \in 0 .. s - 1
    BY <2>0
  <2>2. PICK q \in r .. r + n - 1 : q \in t[Bitmap]
    BY <2>1
  <2>3. q \in 0 .. 31
    BY <2>1
  <2> QED
    BY <1>0, <2>2, <2>3
<1>3. \A r \in runs : r \in Int
  BY SizeFacts
<1>4. FirstRun(t, n) = s
  <2>1. FirstRun(t, n) = CHOOSE u \in runs : \A r \in runs : u <= r
    BY DEF FirstRun
  <2>2. \A u \in runs : (\A r \in runs : u <= r) => u = s
    <3> SUFFICES ASSUME NEW u \in runs, \A r \in runs : u <= r PROVE u = s
      OBVIOUS
    <3>1. u <= s /\ s <= u /\ u \in Int
      BY <1>1, <1>2, <1>3
    <3> QED
      BY <3>1
  <2> HIDE DEF runs
  <2> QED
    BY <1>1, <1>2, <2>1, <2>2
<1>5. s \div 32 = 0 /\ (s + n - 1) % 32 = s + n - 1
  OBVIOUS
<1> QED
  BY <1>4, <1>5 DEF frist_free, Machine

-----------------------------------------------------------------------------
(* The invariant *)

Running == pc \in {"idle", "load", "run"}

Tables == {newtab[r] : r \in Regions}

\* The first word of the bitmap, apart from what the last program has marked:
\* PRESENT, the boot's three frames, the tables and the entry's own frame.
Word == {0, 3, 4, 5} \cup Tables \cup FrameBits(Bitmap)

\* The regions get frame 1 and frame 2, in the order of their first use, and a
\* region is present from then on.
TablesInOrder ==
  /\ \/ \A r \in Regions : newtab[r] = 0
     \/ \E a \in Regions \ {0} :
          newtab[a] = 1 /\ \A r \in Regions \ {a} : newtab[r] = 0
     \/ \E a \in Regions \ {0}, b \in Regions \ {0} :
          a # b /\ newtab[a] = 1 /\ newtab[b] = 2
            /\ \A r \in Regions \ {a, b} : newtab[r] = 0
  /\ ~Running => \A r \in Regions : newtab[r] = 0
  /\ Running => \A r \in Regions : PRESENT \in dir[r] <=> r = 0 \/ newtab[r] # 0

\* Programs are always put in frames 8 to 10, and leave the last two marked.
FirstWordIs ==
  /\ pc = "idle" => table[Bitmap] = Word \/ table[Bitmap] = Word \cup {9, 10}
  /\ pc \in {"load", "run"} => table[Bitmap] = Word \cup {8, 9, 10} /\ phys_loc = 8

\* The other entries: the kernel's change in the processor's notes only, and a
\* page that a program is mapped to leads to frame 8.
Entries ==
  /\ pc = "boot" => table = [p \in Pages |-> {}]
  /\ pc = "filled" => table = [p \in Pages |-> {PRESENT} \cup FrameBits(p)]
  /\ Running =>
       /\ \A p \in KernelPages \ {Bitmap} :
            table[p] \ {ACCESSED, DIRTY} = {PRESENT} \cup FrameBits(p)
       /\ \A p \in Pages \ KernelPages :
            table[p] \cap FrameField \in {FrameBits(p), FrameBits(8)}

\* What was marked at the boot: in the words behind the first, their entries.
BootedIs ==
  Running =>
    /\ pdir = 3
    /\ \A f \in Frames : f >= 32 /\ f % 32 \in {0} \cup FrameBits(Bitmap + (f \div 32)) =>
         f \in booted
    /\ {0, 3, 4} \cup FrameBits(Bitmap) \subseteq booted

PInv ==
  /\ TypeOK /\ segs \in Seq(Segments)
  /\ TablesInOrder /\ FirstWordIs /\ Entries /\ BootedIs

\* The lower half of the first word.
LEMMA WordBelow ==
  ASSUME Machine, NEW q \in 0 .. 11
  PROVE  q \in Word <=> q \in {0, 3, 4, 5} \cup Tables
<1>1. q \notin FrameBits(Bitmap)
  <2>1. q \notin 12 .. 30
    OBVIOUS
  <2> QED
    BY <2>1, FieldBits
<1> QED
  BY <1>1 DEF Word

LEMMA ConstantFacts ==
  /\ Programs \subseteq Seq(Segments)
  /\ \A v \in Segments : v[1] \in Regions /\ v[2] \in Pages \ KernelPages
  /\ 0 \in Regions
<1>1. ASSUME NEW f \in Programs
      PROVE  f \in Seq(Segments) /\ \A n \in DOMAIN f : f[n] \in Nat \X (Nat \ KernelPages)
  <2>1. f \in Seq(Nat \X (Nat \ KernelPages))
    BY ProgramsAssumption
  <2>2. \A n \in DOMAIN f : f[n] \in Segments
    BY DEF Segments
  <2>3. f \in [1 .. Len(f) -> Nat \X (Nat \ KernelPages)] /\ Len(f) \in Nat
    BY <2>1
  <2>4. f \in [1 .. Len(f) -> Segments]
    BY <2>2, <2>3
  <2>5. f \in Seq(Segments)
    BY <2>3, <2>4, SeqDef
  <2> QED
    BY <2>3, <2>5
<1>2. ASSUME NEW v \in Segments
      PROVE  v \in Nat \X (Nat \ KernelPages)
  <2>1. PICK f \in Programs : \E n \in DOMAIN f : v = f[n]
    BY DEF Segments
  <2> QED
    BY <1>1, <2>1
<1>3. ASSUME NEW v \in Segments
      PROVE  v[1] \in Regions /\ v[2] \in Pages \ KernelPages
  BY <1>2 DEF Regions, Pages
<1> QED
  BY <1>1, <1>3 DEF Regions

\* The frames of the tables.
LEMMA TablesAre ==
  ASSUME TablesInOrder
  PROVE  Tables \in {{0}, {0, 1}, {0, 1, 2}}
<1>0. 0 \in Regions
  BY ConstantFacts
<1>1. CASE \A r \in Regions : newtab[r] = 0
  BY <1>0, <1>1 DEF Tables
<1>2. CASE \E a \in Regions \ {0} :
             newtab[a] = 1 /\ \A r \in Regions \ {a} : newtab[r] = 0
  BY <1>0, <1>2 DEF Tables
<1>3. CASE \E a \in Regions \ {0}, b \in Regions \ {0} :
             a # b /\ newtab[a] = 1 /\ newtab[b] = 2
               /\ \A r \in Regions \ {a, b} : newtab[r] = 0
  BY <1>0, <1>3 DEF Tables
<1> QED
  BY <1>1, <1>2, <1>3 DEF TablesInOrder

LEMMA InitInv ==
  ASSUME Machine, Init
  PROVE  PInv
<1>1. /\ table = [p \in Pages |-> {}] /\ dir = [r \in Regions |-> {}]
      /\ pdir = 0 /\ newtab = [r \in Regions |-> 0]
      /\ pc = "boot" /\ segs = <<>> /\ phys_loc = 0 /\ booted = {}
  BY DEF Init
<1>2. 0 \in Frames
  BY FirstFrames
<1>3. TypeOK
  BY <1>1, <1>2 DEF TypeOK
<1>4. TablesInOrder /\ FirstWordIs /\ Entries /\ BootedIs
  BY <1>1 DEF TablesInOrder, FirstWordIs, Entries, BootedIs, Running
<1> QED
  BY <1>1, <1>3, <1>4 DEF PInv

LEMMA FillTableInv ==
  ASSUME Machine, PInv, FillTable
  PROVE  PInv'
<1>1. /\ pc = "boot" /\ pc' = "filled"
      /\ table' = [p \in Pages |-> {PRESENT} \cup FrameBits(p)]
      /\ UNCHANGED <<dir, pdir, newtab, segs, phys_loc, booted>>
  BY DEF FillTable
<1>2. TypeOK'
  <2>0. 0 \in Bits
    BY SizeFacts
  <2>1. \A p \in Pages : {PRESENT} \cup FrameBits(p) \in SUBSET Bits
    BY <2>0, FieldSubset
  <2>2. table' \in [Pages -> SUBSET Bits]
    BY <1>1, <2>1
  <2> QED
    BY <1>1, <2>2 DEF TypeOK, PInv
<1>3. TablesInOrder' /\ FirstWordIs' /\ Entries' /\ BootedIs'
  BY <1>1 DEF TablesInOrder, FirstWordIs, Entries, BootedIs, Running, PInv
<1> QED
  BY <1>1, <1>2, <1>3 DEF PInv

LEMMA NewDirectoryInv ==
  ASSUME Machine, PInv, NewDirectory
  PROVE  PInv'
<1>1. /\ pc = "filled" /\ pc' = "idle"
      /\ table = [p \in Pages |-> {0} \cup FrameBits(p)]
      /\ \A r \in Regions : newtab[r] = 0
      /\ UNCHANGED <<newtab, segs, phys_loc>>
  BY DEF NewDirectory, PInv, Entries, TablesInOrder, Running
<1>2. Bitmap \in Pages /\ table[Bitmap] = {0} \cup FrameBits(Bitmap)
  BY <1>1, PageFacts
<1>3. frist_free(table, 3) = 3
  <2>1. \A q \in 1 .. 3 : q \notin table[Bitmap]
    <3> SUFFICES ASSUME NEW q \in 1 .. 3 PROVE q \notin FrameBits(Bitmap)
      BY <1>2
    <3>1. q \notin 12 .. 30
      OBVIOUS
    <3> QED
      BY <3>1, FieldBits
  <2>2. \A r \in 0 .. 0 : \E q \in r .. r + 2 : q \in table[Bitmap]
    BY <1>2
  <2>3. 3 \in 1 .. 3 /\ 1 \in 0 .. 8 /\ 1 + 3 - 1 = 3 /\ 1 - 1 = 0
        /\ \A r \in 0 .. 0 : r + 3 - 1 = r + 2
    OBVIOUS
  <2> QED
    BY <2>1, <2>2, <2>3, FirstRunIs
<1>4. pdir' = 3 /\ table' = Mark(table, {3, 4, 5})
  <2>1. Taken(3, 3) = {3, 4, 5}
    BY DEF Taken
  <2> QED
    BY <1>3, <2>1 DEF NewDirectory
<1>5. table' = FirstWordSet(table, table[Bitmap] \cup {3, 4, 5})
  <2>1. {3, 4, 5} \subseteq 0 .. 31
    OBVIOUS
  <2> QED
    BY <1>4, <2>1, MarkFirst
<1>6. \A p \in Pages : table'[p] = IF p = Bitmap THEN {0, 3, 4, 5} \cup FrameBits(p)
                                   ELSE {0} \cup FrameBits(p)
  BY <1>1, <1>2, <1>5 DEF FirstWordSet
<1>7. dir' = [r \in Regions |-> IF r = 0 THEN {0, 1} ELSE {1}]
  BY DEF NewDirectory
<1>8. booted' = Allocated(table')
  BY DEF NewDirectory
<1>9. TypeOK'
  <2>1. \A p \in Pages : table'[p] \in SUBSET Bits
    <3>1. {0, 3, 4, 5} \subseteq Bits
      BY SizeFacts
    <3> QED
      BY <1>6, <3>1, FieldSubset
  <2>2. table' \in [Pages -> SUBSET Bits]
    BY <1>5, <2>1 DEF FirstWordSet
  <2>3. dir' \in [Regions -> SUBSET Bits]
    <3>1. {0, 1} \subseteq Bits
      BY SizeFacts
    <3> QED
      BY <1>7, <3>1
  <2>4. booted' \subseteq Frames
    BY <1>8 DEF Allocated, Marked
  <2>5. 3 \in Frames
    BY FirstFrames
  <2> QED
    BY <1>1, <1>4, <2>2, <2>3, <2>4, <2>5 DEF TypeOK, PInv
<1>10. TablesInOrder'
  BY <1>1, <1>7 DEF TablesInOrder, Running
<1>11. FirstWordIs'
  <2>1. Tables' = {0}
    BY <1>1, ConstantFacts DEF Tables
  <2> QED
    BY <1>1, <1>2, <1>6, <2>1 DEF FirstWordIs, Word
<1>12. Entries'
  <2>1. ASSUME NEW p \in KernelPages \ {Bitmap}
        PROVE  table'[p] \ {5, 6} = {0} \cup FrameBits(p)
    <3>1. table'[p] = {0} \cup FrameBits(p)
      BY <1>6, <2>1, PageFacts
    <3>2. 5 \notin FrameBits(p) /\ 6 \notin FrameBits(p)
      <4>1. 5 \notin 12 .. 30 /\ 6 \notin 12 .. 30
        OBVIOUS
      <4> QED
        BY <4>1, FieldBits
    <3> QED
      BY <3>1, <3>2
  <2>2. ASSUME NEW p \in Pages \ KernelPages
        PROVE  table'[p] \cap FrameField = FrameBits(p)
    <3>1. table'[p] = {0} \cup FrameBits(p)
      BY <1>6, <2>2, PageFacts
    <3>2. 0 \notin FrameField
      <4>1. 0 \notin 12 .. 30
        OBVIOUS
      <4> QED
        BY <4>1, SizeFacts
    <3>3. FrameBits(p) \subseteq FrameField
      BY FieldSubset
    <3> QED
      BY <3>1, <3>2, <3>3
  <2> QED
    BY <1>1, <2>1, <2>2 DEF Entries, Running
<1>13. BootedIs'
  <2>1. ASSUME NEW f \in Frames, f >= 32, f % 32 \in {0} \cup FrameBits(Bitmap + (f \div 32))
        PROVE  f \in booted'
    <3>1. Bitmap + (f \div 32) \in Pages
      BY <2>1, WordPages, PageFacts
    <3>2. f % 32 \in table'[Bitmap + (f \div 32)]
      BY <1>6, <2>1, <3>1
    <3>3. f % 32 \notin {5, 6}
      <4>1. f % 32 = 0 \/ f % 32 \in 12 .. 30
        BY <2>1, FieldBits
      <4> QED
        BY <4>1
    <3> QED
      BY <1>8, <3>2, <3>3 DEF Allocated, Marked, Machine
  <2>2. ASSUME NEW f \in {0, 3, 4} \cup FrameBits(Bitmap)
        PROVE  f \in booted'
    <3>1. f \in 0 .. 31 /\ f \in Frames /\ f \notin {5, 6}
      <4>1. f \in {0, 3, 4} \/ f \in 12 .. 30
        BY FieldBits
      <4>2. f \in 0 .. 31 /\ f \notin {5, 6}
        BY <4>1
      <4> QED
        BY <4>2, FirstFrames
    <3>2. f \in table'[Bitmap]
      BY <1>2, <1>6
    <3>3. f % WordBits = f /\ Bitmap + (f \div WordBits) = Bitmap
      BY <3>1, FirstWord
    <3> QED
      BY <1>8, <3>1, <3>2, <3>3 DEF Allocated, Marked
  <2> QED
    BY <1>4, <2>1, <2>2 DEF BootedIs
<1> QED
  BY <1>1, <1>9, <1>10, <1>11, <1>12, <1>13 DEF PInv

LEMMA TouchInv ==
  ASSUME Machine, PInv, NEW p \in KernelPages, Touch(p)
  PROVE  PInv'
<1>1. /\ Running /\ UNCHANGED <<dir, pdir, newtab, pc, segs, phys_loc, booted>>
      /\ table \in [Pages -> SUBSET Bits]
  BY DEF Touch, Running, PInv, TypeOK
<1>2. PICK bits \in {{5}} \cup (IF p \in Written THEN {{5, 6}} ELSE {}) :
        table' = [table EXCEPT ![p] = @ \cup bits]
  BY DEF Touch
<1>3. bits \subseteq {5, 6} /\ (p = Bitmap => bits = {5}) /\ p \in Pages
  BY <1>2, PageFacts
<1>4. table'[Bitmap] = table[Bitmap]
  <2>1. 5 \in table[Bitmap]
    BY <1>1 DEF PInv, FirstWordIs, Word, Running
  <2> QED
    BY <1>1, <1>2, <1>3, <2>1
<1>5. /\ \A q \in Pages : table'[q] \ {5, 6} = table[q] \ {5, 6}
      /\ \A q \in Pages \ KernelPages : table'[q] = table[q]
  BY <1>1, <1>2, <1>3
<1>6. TypeOK'
  <2>1. {5, 6} \subseteq Bits
    BY SizeFacts
  <2>2. table' \in [Pages -> SUBSET Bits]
    BY <1>1, <1>2, <1>3, <2>1
  <2> QED
    BY <1>1, <2>2 DEF TypeOK, PInv
<1>7. Tables' = Tables /\ Running' = Running
  BY <1>1 DEF Tables, Running
<1>8. FirstWordIs'
  BY <1>1, <1>4, <1>7 DEF PInv, FirstWordIs, Word
<1>9. Entries'
  BY <1>1, <1>5, <1>7, PageFacts DEF PInv, Entries, Running
<1>10. TablesInOrder' /\ BootedIs'
  BY <1>1, <1>7 DEF PInv, TablesInOrder, BootedIs
<1> QED
  BY <1>1, <1>6, <1>8, <1>9, <1>10 DEF PInv

LEMMA StartInv ==
  ASSUME Machine, PInv, NEW f \in Programs, Start(f)
  PROVE  PInv'
<1>1. /\ pc = "idle" /\ pc' = "load" /\ segs' = f
      /\ UNCHANGED <<dir, pdir, newtab, booted>>
      /\ table \in [Pages -> SUBSET Bits]
  BY DEF Start, PInv, TypeOK
<1>2. table[Bitmap] = Word \/ table[Bitmap] = Word \cup {9, 10}
  BY <1>1 DEF PInv, FirstWordIs
<1>3. Tables \subseteq {0, 1, 2}
  BY TablesAre DEF PInv
<1>4. frist_free(table, 3) = 8
  <2>1. \A q \in {6, 7, 8} : q \notin table[Bitmap]
    <3>1. \A q \in {6, 7, 8} : q \in 0 .. 11 /\ q \notin {0, 1, 2, 3, 4, 5}
      OBVIOUS
    <3>2. \A q \in {6, 7, 8} : q \notin Word
      BY <1>3, <3>1, WordBelow
    <3> QED
      BY <1>2, <3>2
  <2>2. {0, 3, 4, 5} \subseteq table[Bitmap]
    BY <1>2 DEF Word
  <2>3. \A r \in 0 .. 5 : \E q \in {0, 3, 4, 5} : q \in r .. r + 2
    <3> TAKE r \in 0 .. 5
    <3>1. CASE r = 0
      BY <3>1
    <3>2. CASE r \in 1 .. 3
      BY <3>2
    <3>3. CASE r \in 4 .. 5
      BY <3>3
    <3> QED
      BY <3>1, <3>2, <3>3
  <2>4. \A r \in 0 .. 5 : \E q \in r .. r + 2 : q \in table[Bitmap]
    BY <2>2, <2>3
  <2>5. \A q \in 6 .. 8 : q \notin table[Bitmap]
    BY <2>1
  <2>6. 3 \in 1 .. 3 /\ 6 \in 0 .. 8 /\ 6 + 3 - 1 = 8 /\ 6 - 1 = 5
        /\ \A r \in 0 .. 5 : r + 3 - 1 = r + 2
    OBVIOUS
  <2> QED
    BY <2>4, <2>5, <2>6, FirstRunIs
<1>5. phys_loc' = 8 /\ table' = Mark(table, {8, 9, 10})
  <2>1. Taken(8, 3) = {8, 9, 10}
    BY DEF Taken
  <2> QED
    BY <1>4, <2>1 DEF Start
<1>6. table' = FirstWordSet(table, table[Bitmap] \cup {8, 9, 10})
  <2>1. {8, 9, 10} \subseteq 0 .. 31
    OBVIOUS
  <2> QED
    BY <1>5, <2>1, MarkFirst
<1>7. TypeOK'
  <2>1. {8, 9, 10} \subseteq Bits /\ 8 \in Frames
    BY SizeFacts
  <2>2. table' \in [Pages -> SUBSET Bits]
    BY <1>1, <1>6, <2>1 DEF FirstWordSet
  <2> QED
    BY <1>1, <1>5, <2>1, <2>2 DEF TypeOK, PInv
<1>8. segs' \in Seq(Segments)
  BY <1>1, ConstantFacts
<1>9. Tables' = Tables /\ Running /\ Running'
  BY <1>1 DEF Tables, Running
<1>10. FirstWordIs'
  <2>1. table'[Bitmap] = table[Bitmap] \cup {8, 9, 10}
    BY <1>6, PageFacts DEF FirstWordSet
  <2> QED
    BY <1>1, <1>2, <1>5, <1>9, <2>1 DEF FirstWordIs, Word
<1>11. Entries'
  <2>1. \A p \in Pages : p # Bitmap => table'[p] = table[p]
    BY <1>6 DEF FirstWordSet
  <2> QED
    BY <1>1, <1>9, <2>1, PageFacts DEF PInv, Entries
<1>12. TablesInOrder' /\ BootedIs'
  BY <1>1, <1>9 DEF PInv, TablesInOrder, BootedIs
<1> QED
  BY <1>7, <1>8, <1>10, <1>11, <1>12 DEF PInv

\* A further region's table gets the frame that is its number.
LEMMA NextTable ==
  ASSUME Machine, FewRegions, PInv, pc = "load", NEW r \in Regions, Absent(r)
  PROVE  /\ r # 0
         /\ \/ /\ frist_free(table, 1) = 1
               /\ \A s \in Regions : newtab[s] = 0
            \/ /\ frist_free(table, 1) = 2
               /\ \E a \in Regions \ {0, r} :
                    newtab[a] = 1 /\ \A s \in Regions \ {a} : newtab[s] = 0
<1>1. r # 0 /\ newtab[r] = 0
  BY DEF Absent, PInv, TablesInOrder, Running
<1>2. table[Bitmap] = Word \cup {8, 9, 10}
  BY DEF PInv, FirstWordIs
<1>3. ASSUME NEW s \in 0 .. 8, s \notin table[Bitmap],
             \A q \in 0 .. s - 1 : q \in table[Bitmap]
      PROVE  frist_free(table, 1) = s
  <2>1. \A q \in s .. s + 1 - 1 : q \notin table[Bitmap]
    BY <1>3
  <2>2. \A u \in 0 .. s - 1 : u \in u .. u + 1 - 1
    OBVIOUS
  <2>3. \A u \in 0 .. s - 1 : \E q \in u .. u + 1 - 1 : q \in table[Bitmap]
    BY <1>3, <2>2
  <2>4. 1 \in 1 .. 3 /\ s + 1 - 1 = s
    OBVIOUS
  <2> QED
    BY <2>1, <2>3, <2>4, FirstRunIs
<1>4. CASE \A s \in Regions : newtab[s] = 0
  <2>1. Tables = {0}
    BY <1>4, ConstantFacts DEF Tables
  <2>2. 1 \notin table[Bitmap] /\ 0 \in table[Bitmap]
    BY <1>2, <2>1, WordBelow
  <2>3. 1 \in 0 .. 8 /\ \A q \in 0 .. 1 - 1 : q = 0
    OBVIOUS
  <2> QED
    BY <1>1, <1>3, <1>4, <2>2, <2>3
<1>5. ASSUME NEW a \in Regions \ {0}, newtab[a] = 1, \A s \in Regions \ {a} : newtab[s] = 0
      PROVE  frist_free(table, 1) = 2 /\ a # r
  <2>1. Tables = {0, 1}
    BY <1>5, ConstantFacts DEF Tables
  <2>2. 2 \notin table[Bitmap] /\ 0 \in table[Bitmap] /\ 1 \in table[Bitmap]
    BY <1>2, <2>1, WordBelow
  <2>3. 2 \in 0 .. 8 /\ \A q \in 0 .. 2 - 1 : q = 0 \/ q = 1
    OBVIOUS
  <2>4. frist_free(table, 1) = 2
    BY <1>3, <2>2, <2>3
  <2> QED
    BY <1>1, <1>5, <2>4
<1>6. ASSUME NEW a \in Regions \ {0}, NEW b \in Regions \ {0}, a # b,
             newtab[a] = 1, newtab[b] = 2
      PROVE  FALSE
  <2>1. a # r /\ b # r
    BY <1>1, <1>6
  <2> QED
    BY <1>1, <1>6, <2>1 DEF FewRegions
<1> QED
  BY <1>1, <1>4, <1>5, <1>6 DEF PInv, TablesInOrder

LEMMA MapSegmentInv ==
  ASSUME Machine, FewRegions, PInv, MapSegment
  PROVE  PInv'
<1> DEFINE r == Head(segs)[1]
           p == Head(segs)[2]
           f == frist_free(table, 1)
           t == IF Absent(r) THEN Mark(table, Taken(f, 1)) ELSE table
           entry == WithFrame(t[p] \cup {PRESENT}, phys_loc)
<1>1. /\ pc = "load" /\ pc' = "load" /\ segs # <<>> /\ segs' = Tail(segs)
      /\ UNCHANGED <<pdir, phys_loc, booted>> /\ phys_loc = 8
      /\ table \in [Pages -> SUBSET Bits]
      /\ dir \in [Regions -> SUBSET Bits]
      /\ newtab \in [Regions -> Frames]
      /\ segs \in Seq(Segments)
      /\ table[Bitmap] = Word \cup {8, 9, 10}
  BY DEF MapSegment, PInv, TypeOK, FirstWordIs
<1>2. Head(segs) \in Segments /\ Tail(segs) \in Seq(Segments)
  BY <1>1
<1>3. r \in Regions /\ p \in Pages \ KernelPages
  BY <1>2, ConstantFacts
<1>4. /\ dir' = [dir EXCEPT ![r] = IF Absent(r) THEN @ \cup {PRESENT, WRITABLE} ELSE @]
      /\ newtab' = [newtab EXCEPT ![r] = IF Absent(r) THEN f ELSE @]
      /\ table' = [t EXCEPT ![p] = entry]
  BY DEF MapSegment
<1> HIDE DEF r, p, f, entry
<1>5. Absent(r) => /\ r # 0 /\ f \in {1, 2} /\ newtab[r] = 0
                   /\ t = FirstWordSet(table, table[Bitmap] \cup {f})
  <2> SUFFICES ASSUME Absent(r)
               PROVE  /\ r # 0 /\ f \in {1, 2} /\ newtab[r] = 0
                      /\ t = FirstWordSet(table, table[Bitmap] \cup {f})
    OBVIOUS
  <2>1. r # 0 /\ f \in {1, 2}
    BY <1>1, <1>3, NextTable DEF f
  <2>2. newtab[r] = 0
    BY <1>1, <1>3 DEF Absent, PInv, TablesInOrder, Running
  <2>3. Taken(f, 1) = {f}
    BY <2>1 DEF Taken
  <2>4. {f} \subseteq 0 .. 31
    BY <2>1
  <2> QED
    BY <2>1, <2>2, <2>3, <2>4, MarkFirst
<1>6. /\ t \in [Pages -> SUBSET Bits]
      /\ \A q \in Pages : q # Bitmap => t[q] = table[q]
      /\ t[Bitmap] = IF Absent(r) THEN table[Bitmap] \cup {f} ELSE table[Bitmap]
  <2>1. CASE Absent(r)
    <3>1. f \in Bits
      BY <1>5, <2>1, SizeFacts
    <3> HIDE DEF t
    <3> QED
      BY <1>1, <1>5, <2>1, <3>1, PageFacts DEF FirstWordSet
  <2>2. CASE ~Absent(r)
    BY <1>1, <2>2
  <2> QED
    BY <2>1, <2>2
<1> HIDE DEF t
<1>7. entry \in SUBSET Bits /\ entry \cap FrameField = FrameBits(8)
  <2>1. entry = ((t[p] \cup {0}) \ FrameField) \cup FrameBits(8)
    BY <1>1 DEF entry, WithFrame
  <2>2. FrameBits(8) \subseteq FrameField /\ FrameBits(8) \subseteq Bits
    BY FieldSubset
  <2>3. 0 \in Bits
    BY SizeFacts
  <2>4. t[p] \subseteq Bits
    BY <1>3, <1>6
  <2> QED
    BY <2>1, <2>2, <2>3, <2>4
<1>8. table' \in [Pages -> SUBSET Bits]
  BY <1>3, <1>4, <1>6, <1>7
<1>9. TypeOK' /\ segs' \in Seq(Segments)
  <2>1. dir' \in [Regions -> SUBSET Bits]
    <3>1. {0, 1} \subseteq Bits
      BY SizeFacts
    <3> QED
      BY <1>1, <1>3, <1>4, <3>1
  <2>2. newtab' \in [Regions -> Frames]
    <3>1. Absent(r) => f \in Frames
      BY <1>5, FirstFrames
    <3> QED
      BY <1>1, <1>3, <1>4, <3>1
  <2> QED
    BY <1>1, <1>2, <1>8, <2>1, <2>2 DEF TypeOK, PInv
<1>10. /\ table'[Bitmap] = t[Bitmap]
       /\ \A q \in KernelPages \ {Bitmap} : table'[q] = table[q]
       /\ \A q \in Pages \ KernelPages :
            table'[q] = IF q = p THEN entry ELSE table[q]
  BY <1>3, <1>4, <1>6, PageFacts
<1>11. Running /\ Running'
  BY <1>1 DEF Running
<1>12. Entries'
  BY <1>1, <1>7, <1>10, <1>11 DEF PInv, Entries
<1>13. TablesInOrder' /\ Tables' = IF Absent(r) THEN Tables \cup {f} ELSE Tables
  <2>1. CASE ~Absent(r)
    <3>1. dir' = dir /\ newtab' = newtab
      BY <1>1, <1>3, <1>4, <2>1
    <3> QED
      BY <1>11, <2>1, <3>1 DEF PInv, TablesInOrder, Tables
  <2>2. CASE Absent(r)
    <3>1. /\ newtab'[r] = f /\ \A s \in Regions : s # r => newtab'[s] = newtab[s]
          /\ 0 \in dir'[r] /\ \A s \in Regions : s # r => dir'[s] = dir[s]
      BY <1>1, <1>3, <1>4, <2>2
    <3>2. r # 0 /\ f \in {1, 2} /\ newtab[r] = 0
      BY <1>5, <2>2
    <3>3. \A s \in Regions : PRESENT \in dir'[s] <=> s = 0 \/ newtab'[s] # 0
      BY <1>11, <3>1, <3>2 DEF PInv, TablesInOrder
    <3>4. \/ /\ f = 1
             /\ \A s \in Regions : newtab[s] = 0
          \/ /\ f = 2
             /\ \E a \in Regions \ {0, r} :
                  newtab[a] = 1 /\ \A s \in Regions \ {a} : newtab[s] = 0
      BY <1>1, <1>3, <2>2, NextTable DEF f
    <3>5. \/ \E a \in Regions \ {0} :
               newtab'[a] = 1 /\ \A s \in Regions \ {a} : newtab'[s] = 0
          \/ \E a \in Regions \ {0}, b \in Regions \ {0} :
               a # b /\ newtab'[a] = 1 /\ newtab'[b] = 2
                 /\ \A s \in Regions \ {a, b} : newtab'[s] = 0
      <4>1. CASE f = 1 /\ \A s \in Regions : newtab[s] = 0
        BY <1>3, <3>1, <3>2, <4>1
      <4>2. ASSUME f = 2, NEW a \in Regions \ {0, r}, newtab[a] = 1,
                   \A s \in Regions \ {a} : newtab[s] = 0
            PROVE  /\ a # r /\ newtab'[a] = 1 /\ newtab'[r] = 2
                   /\ \A s \in Regions \ {a, r} : newtab'[s] = 0
        BY <1>3, <3>1, <3>2, <4>2
      <4> QED
        BY <1>3, <3>2, <3>4, <4>1, <4>2
    <3>6. TablesInOrder'
      BY <1>11, <3>3, <3>5 DEF TablesInOrder
    <3>7. Tables' = Tables \cup {f}
      <4>1. Tables' \subseteq Tables \cup {f}
        BY <3>1 DEF Tables
      <4>2. ASSUME NEW s \in Regions PROVE newtab[s] \in Tables'
        <5>1. CASE s = r
          <6>1. newtab'[0] = 0 /\ 0 \in Regions
            BY <1>11, <3>1, <3>2, ConstantFacts, <3>4
          <6> QED
            BY <3>2, <5>1, <6>1 DEF Tables
        <5>2. CASE s # r
          BY <3>1, <5>2 DEF Tables
        <5> QED
          BY <5>1, <5>2
      <4>3. f \in Tables'
        BY <1>3, <3>1 DEF Tables
      <4> QED
        BY <4>1, <4>2, <4>3 DEF Tables
    <3> QED
      BY <2>2, <3>6, <3>7
  <2> QED
    BY <2>1, <2>2
<1>14. FirstWordIs'
  <2>1. table'[Bitmap] = Word' \cup {8, 9, 10}
    BY <1>1, <1>6, <1>10, <1>13 DEF Word
  <2> QED
    BY <1>1, <2>1 DEF FirstWordIs
<1>15. BootedIs'
  BY <1>1, <1>11 DEF PInv, BootedIs
<1> QED
  BY <1>9, <1>12, <1>13, <1>14, <1>15 DEF PInv

LEMMA RunInv ==
  ASSUME Machine, PInv, Run
  PROVE  PInv'
<1>1. /\ pc = "load" /\ pc' = "run"
      /\ UNCHANGED <<table, dir, pdir, newtab, segs, phys_loc, booted>>
  BY DEF Run
<1>2. Tables' = Tables /\ Running /\ Running'
  BY <1>1 DEF Tables, Running
<1>3. TypeOK' /\ segs' \in Seq(Segments)
  BY <1>1 DEF TypeOK, PInv
<1>4. TablesInOrder' /\ Entries' /\ BootedIs'
  BY <1>1, <1>2 DEF PInv, TablesInOrder, Entries, BootedIs
<1>5. FirstWordIs'
  BY <1>1, <1>2 DEF PInv, FirstWordIs, Word
<1> QED
  BY <1>3, <1>4, <1>5 DEF PInv

LEMMA ExitInv ==
  ASSUME Machine, PInv, Exit
  PROVE  PInv'
<1>1. /\ pc = "run" /\ pc' = "idle" /\ phys_loc = 8 /\ phys_loc' = 0
      /\ UNCHANGED <<dir, pdir, newtab, segs, booted>>
      /\ table \in [Pages -> SUBSET Bits]
      /\ table[Bitmap] = Word \cup {8, 9, 10}
      /\ table' = Clear(table, {8})
  BY DEF Exit, PInv, TypeOK, FirstWordIs, Freed
<1>2. table' = FirstWordSet(table, table[Bitmap] \ {8})
  <2>1. {8} \subseteq 0 .. 31
    OBVIOUS
  <2> QED
    BY <1>1, <2>1, MarkFirst
<1>3. Tables' = Tables /\ Running /\ Running'
  BY <1>1 DEF Tables, Running
<1>4. TypeOK' /\ segs' \in Seq(Segments)
  <2>1. table' \in [Pages -> SUBSET Bits]
    BY <1>1, <1>2 DEF FirstWordSet
  <2>2. 0 \in Frames
    BY FirstFrames
  <2> QED
    BY <1>1, <2>1, <2>2 DEF TypeOK, PInv
<1>5. FirstWordIs'
  <2>1. table'[Bitmap] = table[Bitmap] \ {8}
    BY <1>2, PageFacts DEF FirstWordSet
  <2>2. 8 \notin Word
    <3>1. Tables \subseteq {0, 1, 2}
      BY TablesAre DEF PInv
    <3> QED
      BY <3>1, WordBelow
  <2>3. table'[Bitmap] = Word \cup {9, 10}
    BY <1>1, <2>1, <2>2
  <2> QED
    BY <1>1, <1>3, <2>3 DEF FirstWordIs, Word
<1>6. Entries'
  <2>1. \A p \in Pages : p # Bitmap => table'[p] = table[p]
    BY <1>2 DEF FirstWordSet
  <2> QED
    BY <1>1, <1>3, <2>1, PageFacts DEF PInv, Entries
<1>7. TablesInOrder' /\ BootedIs'
  BY <1>1, <1>3 DEF PInv, TablesInOrder, BootedIs
<1> QED
  BY <1>4, <1>5, <1>6, <1>7 DEF PInv

LEMMA NextInv ==
  ASSUME Machine, FewRegions, PInv, [Next]_vars
  PROVE  PInv'
<1>1. ASSUME NEW p \in KernelPages, Touch(p)
      PROVE  PInv'
  BY <1>1, TouchInv
<1>2. ASSUME NEW f \in Programs, Start(f)
      PROVE  PInv'
  BY <1>2, StartInv
<1>3. CASE UNCHANGED vars
  BY <1>3 DEF vars, PInv, TypeOK, TablesInOrder, FirstWordIs, Entries, BootedIs,
              Running, Word, Tables
<1> QED
  BY <1>1, <1>2, <1>3, FillTableInv, NewDirectoryInv, MapSegmentInv, RunInv, ExitInv
     DEF Next

\* What the first word of the bitmap is worth, at every step of the boot, of the
\* loader and of the processor.
THEOREM PagingInvariance ==
  ASSUME Machine, FewRegions
  PROVE  Spec => []PInv
<1>1. Init => PInv
  BY InitInv
<1>2. PInv /\ [Next]_vars => PInv'
  BY NextInv
<1> QED
  BY <1>1, <1>2, PTL DEF Spec

-----------------------------------------------------------------------------
(* The properties *)

\* The loader and paging_map keep the types: above all, every frame number is
\* one that the bitmap has.
THEOREM PagingTypeCorrect ==
  ASSUME Machine, FewRegions
  PROVE  Spec => []TypeOK
<1>1. PInv => TypeOK
  BY DEF PInv
<1> QED
  BY PagingInvariance, <1>1, PTL

LEMMA InPlace ==
  ASSUME Machine, PInv
  PROVE  KernelInPlace
<1> SUFFICES ASSUME Running, NEW p \in KernelPages
             PROVE  0 \in table[p] /\ table[p] \cap FrameField = FrameBits(p)
  BY DEF KernelInPlace, Running
<1>1. FrameField = 12 .. 30 /\ FrameBits(p) \subseteq FrameField
  BY SizeFacts, FieldSubset
<1>2. CASE p = Bitmap
  <2>1. PICK X \in {{}, {9, 10}, {8, 9, 10}} : table[p] = Word \cup X
    BY <1>2 DEF PInv, FirstWordIs, Running
  <2>2. Tables \subseteq {0, 1, 2}
    BY TablesAre DEF PInv
  <2>3. \A q \in {0, 1, 2, 3, 4, 5, 8, 9, 10} : q \notin 12 .. 30
    OBVIOUS
  <2> QED
    BY <1>1, <1>2, <2>1, <2>2, <2>3 DEF Word
<1>3. CASE p # Bitmap
  <2>1. table[p] \ {5, 6} = {0} \cup FrameBits(p)
    BY <1>3 DEF PInv, Entries
  <2>2. \A q \in {0, 5, 6} : q \notin 12 .. 30
    OBVIOUS
  <2> QED
    BY <1>1, <2>1, <2>2
<1> QED
  BY <1>2, <1>3

\* The kernel's own pages are never moved by what the allocator marks in the
\* entries under its bitmap: the programs of two regions and their leaks leave
\* the frame's field of every such entry alone.
THEOREM KernelStaysInPlace ==
  ASSUME Machine, FewRegions
  PROVE  Spec => []KernelInPlace
<1>1. PInv => KernelInPlace
  BY InPlace
<1> QED
  BY PagingInvariance, <1>1, PTL

LEMMA Own ==
  ASSUME Machine, LinkedHigh, PInv
  PROVE  OwnFrames
<1>1. /\ \A q \in {1, 2, 8} : q \notin KernelPages
      /\ \A r \in Regions : newtab[r] \in {0, 1, 2}
  <2>1. \A q \in {1, 2, 8} : q \in 1 .. 10 /\ q \notin 3 .. 5
    OBVIOUS
  <2>2. \A r \in Regions : newtab[r] \in Tables
    BY DEF Tables
  <2>3. Tables \subseteq {0, 1, 2}
    BY TablesAre DEF PInv
  <2> QED
    BY <2>1, <2>2, <2>3 DEF LinkedHigh
<1>2. /\ pc \in {"load", "run"} => phys_loc = 8 /\ pdir = 3
      /\ \A r \in Regions : newtab[r] # 0 => pdir = 3
  <2>1. Running => pdir = 3
    BY DEF PInv, BootedIs
  <2>2. ~Running => \A r \in Regions : newtab[r] = 0
    BY DEF PInv, TablesInOrder
  <2> QED
    BY <2>1, <2>2 DEF PInv, FirstWordIs, Running
<1>3. \A r \in Regions : newtab[r] # 0 =>
        \A s \in Regions \ {r} : newtab[r] # newtab[s]
  BY DEF PInv, TablesInOrder
<1> QED
  BY <1>1, <1>2, <1>3 DEF OwnFrames

LEMMA ComeBack ==
  ASSUME Machine, PInv
  PROVE  FramesComeBack
<1> SUFFICES ASSUME pc = "idle"
             PROVE  Cardinality(Allocated(table) \ (booted \cup Tables)) <= 2
  BY DEF FramesComeBack, Tables
<1>1. Allocated(table) \ (booted \cup Tables) \subseteq {9, 10}
  <2> SUFFICES ASSUME NEW f \in Allocated(table), f \notin booted, f \notin Tables
               PROVE  f \in {9, 10}
    OBVIOUS
  <2>1. /\ f \in Frames /\ f % 32 \in table[Bitmap + (f \div 32)]
        /\ f % 32 \notin {5, 6}
    BY DEF Allocated, Marked, Machine
  <2>2. f \in Nat
    BY <2>1, SizeFacts
  <2>3. CASE f >= 32
    <3>1. Bitmap + (f \div 32) \in KernelPages \ {Bitmap}
      <4>1. f \div 32 # 0 /\ f \div 32 \in Nat
        BY <2>2, <2>3
      <4>2. Bitmap + (f \div 32) # Bitmap
        BY <4>1, PageFacts
      <4> QED
        BY <2>1, <4>2, WordPages
    <3>2. f % 32 \in {0} \cup FrameBits(Bitmap + (f \div 32))
      BY <2>1, <3>1 DEF PInv, Entries, Running
    <3> QED
      BY <2>1, <2>3, <3>2 DEF PInv, BootedIs, Running
  <2>4. CASE f \in 0 .. 31
    <3>1. f \in table[Bitmap] /\ f # 5
      <4>1. f % 32 = f /\ Bitmap + (f \div 32) = Bitmap
        BY <2>4, FirstWord DEF Machine
      <4> QED
        BY <2>1, <4>1
    <3>2. f \in Word \cup {9, 10}
      BY <3>1 DEF PInv, FirstWordIs
    <3> QED
      BY <3>1, <3>2 DEF Word, PInv, BootedIs, Running
  <2> QED
    BY <2>2, <2>3, <2>4
<1>2. IsFiniteSet({9, 10}) /\ Cardinality({9, 10}) = 2
  <2>1. IsFiniteSet({9}) /\ Cardinality({9}) = 1
    BY FS_Singleton
  <2>2. {9, 10} = {9} \cup {10} /\ 10 \notin {9}
    OBVIOUS
  <2> QED
    BY <2>1, <2>2, FS_AddElement
<1> HIDE DEF Tables
<1>3. /\ IsFiniteSet(Allocated(table) \ (booted \cup Tables))
      /\ Cardinality(Allocated(table) \ (booted \cup Tables)) <= Cardinality({9, 10})
  BY <1>1, <1>2, FS_Subset
<1> QED
  BY <1>2, <1>3

\* A program's frames are neither a table's, nor the directory's, nor the
\* kernel's, no two regions share a table, and though the loader gives back one
\* frame of three, programs never have more than two marked between them.
THEOREM FramesStayAccounted ==
  ASSUME Machine, FewRegions, LinkedHigh
  PROVE  Spec => []FramesAccounted
<1>1. PInv => FramesAccounted
  BY Own, ComeBack DEF FramesAccounted
<1> QED
  BY PagingInvariance, <1>1, PTL

LEMMA NoMove ==
  ASSUME Machine, FewRegions, PInv, PInv', [Next]_vars,
         NEW p \in Pages \ KernelPages,
         table[p] \cap FrameField \notin {{}, FrameBits(p)}
  PROVE  table'[p] \cap FrameField = table[p] \cap FrameField
<1>1. table[p] \cap FrameField = FrameBits(8) /\ Running
  <2>1. CASE pc = "boot"
    BY <2>1 DEF PInv, Entries
  <2>2. CASE pc = "filled"
    <3>1. table[p] = {0} \cup FrameBits(p)
      BY <2>2 DEF PInv, Entries
    <3>2. FrameBits(p) \subseteq FrameField
      BY FieldSubset
    <3>3. FrameField = 12 .. 30 /\ 0 \notin 12 .. 30
      BY SizeFacts
    <3> QED
      BY <3>1, <3>2, <3>3
  <2>3. CASE Running
    BY <2>3 DEF PInv, Entries
  <2> QED
    BY <2>1, <2>2, <2>3 DEF PInv, TypeOK, Running
<1>2. p # Bitmap /\ p \in Pages
  BY PageFacts
<1>3. table \in [Pages -> SUBSET Bits]
  BY DEF PInv, TypeOK
<1>4. ASSUME NEW F, F \subseteq 0 .. 31, table' = Mark(table, F) \/ table' = Clear(table, F)
      PROVE  table'[p] = table[p]
  <2>1. PICK w : table' = FirstWordSet(table, w)
    <3>1. CASE table' = Mark(table, F)
      BY <1>4, <3>1, MarkFirst
    <3>2. CASE table' = Clear(table, F)
      BY <1>4, <3>2, MarkFirst
    <3> QED
      BY <1>4, <3>1, <3>2
  <2> QED
    BY <1>2, <2>1 DEF FirstWordSet
<1>5. ASSUME NEW q \in KernelPages, Touch(q)
      PROVE  table'[p] = table[p]
  BY <1>2, <1>3, <1>5 DEF Touch
<1>6. ASSUME NEW f \in Programs, Start(f)
      PROVE  table'[p] = table[p]
  <2>1. phys_loc' = 8
    BY <1>6 DEF PInv, FirstWordIs, Start
  <2>2. Taken(8, 3) \subseteq 0 .. 31
    BY DEF Taken
  <2> QED
    BY <1>4, <1>6, <2>1, <2>2 DEF Start
<1>7. CASE MapSegment
  <2> DEFINE r == Head(segs)[1]
             s == Head(segs)[2]
             f == frist_free(table, 1)
             t == IF Absent(r) THEN Mark(table, Taken(f, 1)) ELSE table
             entry == WithFrame(t[s] \cup {PRESENT}, phys_loc)
  <2>1. table' = [t EXCEPT ![s] = entry] /\ phys_loc = 8 /\ pc = "load" /\ segs # <<>>
    BY <1>7 DEF MapSegment, PInv, FirstWordIs
  <2>2. r \in Regions
    BY <2>1, ConstantFacts DEF PInv
  <2>3. p \in DOMAIN t /\ t[p] = table[p]
    <3>1. CASE Absent(r)
      <4>1. f \in {1, 2}
        BY <2>1, <2>2, <3>1, NextTable
      <4>2. Taken(f, 1) \subseteq 0 .. 31
        BY <4>1 DEF Taken
      <4> QED
        BY <1>2, <3>1, <4>2, MarkFirst DEF FirstWordSet
    <3>2. CASE ~Absent(r)
      BY <1>2, <1>3, <3>2
    <3> QED
      BY <3>1, <3>2
  <2>4. entry \cap FrameField = FrameBits(8)
    <3>1. FrameBits(8) \subseteq FrameField
      BY FieldSubset
    <3> QED
      BY <2>1, <3>1 DEF WithFrame
  <2> HIDE DEF entry, t, s
  <2> QED
    BY <1>1, <2>1, <2>3, <2>4
<1>8. CASE Exit
  <2>1. table' = Clear(table, {8})
    BY <1>8 DEF Exit, PInv, FirstWordIs, Freed
  <2> QED
    BY <1>1, <1>4, <2>1
<1>9. CASE Run \/ UNCHANGED vars
  BY <1>1, <1>9 DEF Run, vars
<1>10. ~FillTable /\ ~NewDirectory
  BY <1>1 DEF Running, FillTable, NewDirectory
<1> QED
  BY <1>1, <1>5, <1>6, <1>7, <1>8, <1>9, <1>10 DEF Next

\* A page that once led to a program's frame leads there for good, so that a
\* translation the processor keeps is never a stale one.
THEOREM PagesNeverMove ==
  ASSUME Machine, FewRegions
  PROVE  Spec => NeverMoved
<1>1. PInv /\ PInv' /\ [Next]_vars =>
        [\A p \in Pages \ KernelPages :
           LET frame == table[p] \cap FrameField
           IN  frame \notin {{}, FrameBits(p)} => table'[p] \cap FrameField = frame]_vars
  BY NoMove
<1> QED
  BY PagingInvariance, <1>1, PTL DEF Spec, NeverMoved

=============================================================================
