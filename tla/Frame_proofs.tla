---------------------------- MODULE Frame_proofs ----------------------------
(***************************************************************************)
(* Proofs about the frame allocator of Frame.tla, for every bitmap, every  *)
(* word size and, but for the last theorem, every set of requests.         *)
(***************************************************************************)
EXTENDS Frame, TLAPS

USE WordAssumption, MaxAssumption, RequestAssumption

\* What frame_frist_free's loops know in front of bit k: the cnt bits behind it
\* are clear, the one behind those is not, bi is the word they begin in, and no
\* run long enough lies entirely behind k.
ScanLoop ==
  /\ pc = "scan" =>
       /\ blocks_num \in Requests
       /\ cnt < blocks_num /\ cnt <= k
       /\ \A x \in 0 .. Scanned : k - cnt <= x /\ x < k => x \notin used
       /\ cnt < k => k - cnt - 1 \in used
       /\ cnt > 0 => bi = (k - cnt) \div WordBits
       /\ \A s \in Nat : s + blocks_num <= k =>
            \E x \in used : s <= x /\ x < s + blocks_num
  /\ pc = "panic" => \A s \in 0 .. Scanned : ~FreeRun(s, blocks_num)

IInv == TypeOK /\ ScanLoop

-----------------------------------------------------------------------------

\* A frame number is the word of its bit and the bit's place in the word.
LEMMA WordAndBit ==
  ASSUME NEW x \in Nat
  PROVE  /\ x \div WordBits \in Nat
         /\ x % WordBits \in 0 .. WordBits - 1
         /\ x = WordBits * (x \div WordBits) + (x % WordBits)
  BY SMT

LEMMA ScannedWords ==
  /\ FramesMax \div WordBits \in Nat
  /\ Scanned \in Nat
  /\ Scanned <= FramesMax
  /\ \A q, r \in Nat : r < WordBits =>
       (WordBits * q + r < Scanned <=> q < FramesMax \div WordBits)
  BY SMT DEF Scanned

LEMMA BelowScanned ==
  ASSUME NEW x \in Nat, x < Scanned, NEW r \in 0 .. WordBits - 1
  PROVE  WordBits * (x \div WordBits) + r < Scanned
<1> DEFINE q == x \div WordBits
           y == x % WordBits
           words == FramesMax \div WordBits
<1>1. q \in Nat /\ y \in Nat /\ y < WordBits /\ x = WordBits * q + y
  BY WordAndBit
<1>2. words \in Nat /\ \A a, b \in Nat : b < WordBits =>
                         (WordBits * a + b < Scanned <=> a < words)
  BY ScannedWords
<1>3. r \in Nat /\ r < WordBits
  OBVIOUS
<1> HIDE DEF q, y, words
<1>4. q < words
  BY <1>1, <1>2
<1>5. WordBits * q + r < Scanned
  BY <1>1, <1>2, <1>3, <1>4
<1> QED
  BY <1>5 DEF q

LEMMA InitInv == Init => IInv
  BY ScannedWords DEF Init, IInv, TypeOK, ScanLoop, Nothing, Cleared

LEMMA AllocInv ==
  ASSUME IInv, NEW o \in Owners, NEW n \in Requests, Alloc(o, n)
  PROVE  IInv'
<1> USE DEF IInv, Alloc
<1>1. TypeOK'
  BY ScannedWords DEF TypeOK
<1>2. ScanLoop'
  BY DEF ScanLoop
<1> QED
  BY <1>1, <1>2

\* What the loop invariant says, with the types it needs.
LEMMA InScan ==
  ASSUME IInv, pc = "scan"
  PROVE  /\ blocks_num \in Nat /\ blocks_num > 0 /\ k \in Nat /\ k <= Scanned
         /\ cnt \in Nat /\ bi \in Nat /\ bj \in 0 .. WordBits - 1
         /\ Scanned \in Nat /\ used \subseteq Nat
         /\ cnt < blocks_num /\ cnt <= k
         /\ \A x \in 0 .. Scanned : k - cnt <= x /\ x < k => x \notin used
         /\ cnt < k => k - cnt - 1 \in used
         /\ cnt > 0 => bi = (k - cnt) \div WordBits
         /\ \A s \in Nat : s + blocks_num <= k =>
              \E x \in used : s <= x /\ x < s + blocks_num
  BY ScannedWords DEF IInv, TypeOK, ScanLoop

LEMMA ScanUsedInv ==
  ASSUME IInv, ScanUsed
  PROVE  IInv'
<1>1. pc = "scan" /\ k < Scanned /\ k \in used
  BY DEF ScanUsed
<1>2. /\ k' = k + 1 /\ cnt' = 0 /\ pc' = "scan" /\ used' = used
      /\ blocks_num' = blocks_num /\ bi' = bi /\ bj' = bj
      /\ held' = held /\ alloced_frames' = alloced_frames /\ who' = who
  BY <1>1 DEF ScanUsed
<1>3. TypeOK'
  BY <1>1, <1>2, InScan DEF IInv, TypeOK
<1>4. \A s \in Nat : s + blocks_num <= k + 1 =>
        \E x \in used : s <= x /\ x < s + blocks_num
  <2> SUFFICES ASSUME NEW s \in Nat, s + blocks_num = k + 1
               PROVE  s <= k /\ k < s + blocks_num
    BY <1>1, InScan
  <2> QED
    BY <1>1, InScan
<1>5. ScanLoop'
  BY <1>1, <1>2, <1>4, InScan DEF IInv, ScanLoop
<1> QED
  BY <1>3, <1>5 DEF IInv

\* What a clear bit does to the scan's variables.
LEMMA SeeFreeFacts ==
  ASSUME IInv, SeeFree
  PROVE  /\ pc = "scan" /\ k < Scanned /\ k \notin used
         /\ cnt' = cnt + 1 /\ bi' \in Nat /\ bj' \in 0 .. WordBits - 1
         /\ bi' = (k - cnt) \div WordBits /\ bj' = k % WordBits
<1>1. pc = "scan" /\ k < Scanned /\ k \notin used
  BY DEF SeeFree
<1>2. k - cnt \in Nat /\ (cnt = 0 => k - cnt = k)
  BY <1>1, InScan
<1>3. bi' = (k - cnt) \div WordBits
  BY <1>1, <1>2, InScan DEF SeeFree, WordOfRun
<1>4. bi' \in Nat
  BY <1>2, <1>3, WordAndBit
<1>5. k % WordBits \in 0 .. WordBits - 1
  BY <1>1, InScan, WordAndBit
<1> QED
  BY <1>1, <1>3, <1>4, <1>5 DEF SeeFree, BitInWord

LEMMA ScanFreeInv ==
  ASSUME IInv, ScanFree
  PROVE  IInv'
<1>1. SeeFree /\ cnt' < blocks_num
  BY InScan DEF ScanFree, SeeFree, Enough
<1>2. /\ pc = "scan" /\ k < Scanned /\ k \notin used
      /\ cnt' = cnt + 1 /\ bi' \in Nat /\ bj' \in 0 .. WordBits - 1
      /\ bi' = (k - cnt) \div WordBits
  BY <1>1, SeeFreeFacts
<1>3. /\ k' = k + 1 /\ pc' = "scan" /\ used' = used
      /\ blocks_num' = blocks_num
      /\ held' = held /\ alloced_frames' = alloced_frames /\ who' = who
  BY <1>2 DEF ScanFree
<1>4. TypeOK'
  BY <1>2, <1>3, InScan DEF IInv, TypeOK
<1>5. \A s \in Nat : s + blocks_num <= k + 1 =>
        \E x \in used : s <= x /\ x < s + blocks_num
  <2> SUFFICES ASSUME NEW s \in Nat, s + blocks_num = k + 1
               PROVE  \E x \in used : s <= x /\ x < s + blocks_num
    BY <1>2, InScan
  <2>1. cnt < k /\ k - cnt - 1 \in used
    BY <1>1, <1>2, InScan
  <2>2. s <= k - cnt - 1 /\ k - cnt - 1 < s + blocks_num
    BY <1>1, <1>2, InScan
  <2> QED
    BY <2>1, <2>2
<1>6. \A x \in 0 .. Scanned : k - cnt <= x /\ x < k + 1 => x \notin used
  <2> SUFFICES ASSUME NEW x \in 0 .. Scanned, k - cnt <= x, x < k + 1
               PROVE  x \notin used
    OBVIOUS
  <2>1. k \in Nat /\ x \in Int
    BY <1>2, InScan
  <2>2. x < k \/ x = k
    BY <2>1
  <2> QED
    BY <1>2, <2>2, InScan
<1>7. k' - cnt' = k - cnt /\ cnt' <= k'
  BY <1>2, <1>3, InScan
<1>8. ScanLoop'
  BY <1>1, <1>2, <1>3, <1>5, <1>6, <1>7, InScan DEF IInv, ScanLoop
<1> QED
  BY <1>4, <1>8 DEF IInv

\* The run that Found has found.
LEMMA FoundRun ==
  ASSUME IInv, Found
  PROVE  LET s == k - cnt
         IN  /\ s \in Nat /\ s <= k /\ s + blocks_num = k + 1
             /\ FreeRun(s, blocks_num)
             /\ \A t \in 0 .. s - 1 : ~FreeRun(t, blocks_num)
             /\ bi' = s \div WordBits /\ bj' = k % WordBits
<1> DEFINE s == k - cnt
<1>1. SeeFree /\ cnt' >= blocks_num
  BY DEF Found, Enough
<1>2. /\ pc = "scan" /\ k < Scanned /\ k \notin used
      /\ cnt' = cnt + 1 /\ bi' = s \div WordBits /\ bj' = k % WordBits
  BY <1>1, SeeFreeFacts
<1>3. s \in Nat /\ s <= k /\ s + blocks_num = k + 1
  BY <1>1, <1>2, InScan
<1>4. FreeRun(s, blocks_num)
  <2>1. s + blocks_num - 1 = k
    BY <1>2, <1>3, InScan
  <2>2. \A x \in s .. k : x \in 0 .. Scanned - 1 /\ x \notin used
    BY <1>2, <1>3, InScan
  <2>3. s + blocks_num <= Scanned
    BY <1>2, <1>3, InScan
  <2> HIDE DEF s
  <2> QED
    BY <2>1, <2>2, <2>3 DEF FreeRun
<1>5. \A t \in 0 .. s - 1 : ~FreeRun(t, blocks_num)
  <2> SUFFICES ASSUME NEW t \in 0 .. s - 1
               PROVE  \E x \in used : x \in t .. t + blocks_num - 1
    BY DEF FreeRun
  <2>1. CASE t + blocks_num <= k
    BY <1>2, <2>1, InScan
  <2>2. CASE t + blocks_num > k
    <3>1. k - cnt - 1 \in used
      BY <1>2, <1>3, InScan
    <3>2. k - cnt - 1 \in t .. t + blocks_num - 1
      BY <1>2, <1>3, <2>2, InScan
    <3> QED
      BY <3>1, <3>2
  <2> QED
    BY <1>2, <1>3, <2>1, <2>2, InScan
<1> QED
  BY <1>2, <1>3, <1>4, <1>5

LEMMA FoundInv ==
  ASSUME IInv, Found
  PROVE  IInv'
<1> DEFINE s == k - cnt
           at == bi' * WordBits + bj'
<1>1. SeeFree
  BY DEF Found
<1>2. /\ pc = "scan" /\ k < Scanned /\ cnt' = cnt + 1
      /\ bi' \in Nat /\ bj' \in 0 .. WordBits - 1
      /\ bi' = s \div WordBits /\ s \in Nat /\ s <= k
  BY <1>1, SeeFreeFacts, FoundRun
<1>3. at \in Nat /\ at < Scanned
  <2>1. s < Scanned
    BY <1>2, InScan
  <2>2. WordBits * (s \div WordBits) + bj' < Scanned
    BY <1>2, <2>1, BelowScanned
  <2>3. bi' * WordBits = WordBits * (s \div WordBits) /\ bi' * WordBits \in Nat
    BY <1>2
  <2>4. bj' \in Nat
    BY <1>2
  <2> HIDE DEF s
  <2> QED
    BY <2>2, <2>3, <2>4
<1>4. /\ used' = used \cup Range([at |-> at, len |-> blocks_num])
      /\ held' = [held EXCEPT ![who] = [at |-> at, len |-> blocks_num]]
      /\ alloced_frames' = alloced_frames + blocks_num
      /\ pc' = "idle" /\ who' = who /\ blocks_num' = blocks_num /\ k' = k
  BY DEF Found
<1> HIDE DEF at, s
<1>5. blocks_num \in Requests
  BY <1>2 DEF IInv, ScanLoop
<1>6. Range([at |-> at, len |-> blocks_num]) \subseteq Nat
  BY <1>3, <1>5 DEF Range
<1>7. held' \in [Owners -> [at : Nat, len : Requests \cup {0}]]
  BY <1>3, <1>4, <1>5 DEF IInv, TypeOK
<1>8. \A o \in Owners : held'[o] # Nothing => held'[o].at < Scanned
  BY <1>3, <1>4 DEF IInv, TypeOK
<1>9. used' \subseteq Nat /\ alloced_frames' \in Int
  <2>1. used \subseteq Nat /\ alloced_frames \in Int
    BY DEF IInv, TypeOK
  <2>2. used' \subseteq Nat
    BY <1>4, <1>6, <2>1
  <2>3. blocks_num \in Nat
    BY <1>2, InScan
  <2> QED
    BY <1>4, <2>1, <2>2, <2>3
<1>10. TypeOK'
  BY <1>2, <1>4, <1>7, <1>8, <1>9, InScan DEF IInv, TypeOK
<1>11. ScanLoop'
  BY <1>4 DEF ScanLoop
<1> QED
  BY <1>10, <1>11 DEF IInv

LEMMA OutOfFramesInv ==
  ASSUME IInv, OutOfFrames
  PROVE  IInv'
<1>1. /\ pc = "scan" /\ k = Scanned /\ pc' = "panic"
      /\ UNCHANGED <<used, alloced_frames, held, who, blocks_num, k, cnt, bi, bj>>
  BY InScan DEF OutOfFrames
<1>2. TypeOK'
  BY <1>1 DEF IInv, TypeOK
<1>3. \A s \in 0 .. Scanned : ~FreeRun(s, blocks_num)
  <2> SUFFICES ASSUME NEW s \in 0 .. Scanned, s + blocks_num <= Scanned
               PROVE  \E x \in used : x \in s .. s + blocks_num - 1
    BY DEF FreeRun
  <2>1. PICK x \in used : s <= x /\ x < s + blocks_num
    BY <1>1, InScan
  <2> QED
    BY <1>1, <2>1, InScan
<1>4. ScanLoop'
  BY <1>1, <1>3 DEF ScanLoop, FreeRun
<1> QED
  BY <1>2, <1>4 DEF IInv

LEMMA FreeInv ==
  ASSUME IInv, NEW o \in Owners, Free(o)
  PROVE  IInv'
<1>1. /\ pc = "idle" /\ pc' = "idle" /\ held[o] \in [at : Nat, len : Requests \cup {0}]
  BY DEF Free, IInv, TypeOK
<1>2. TypeOK'
  <2>1. held[o].len \in Requests \cup {0}
    BY <1>1
  <2>2. used' \subseteq Nat /\ alloced_frames' \in Int
    <3>1. used \subseteq Nat /\ alloced_frames \in Int
      BY DEF IInv, TypeOK
    <3>2. held[o].len \in Nat
      <4>1. Requests \cup {0} \subseteq Nat
        OBVIOUS
      <4> HIDE RequestAssumption
      <4> QED
        BY <2>1, <4>1
    <3>3. used' \subseteq used /\ alloced_frames' = alloced_frames - held[o].len
      BY DEF Free
    <3>4. alloced_frames' \in Int
      BY <3>1, <3>2, <3>3
    <3> QED
      BY <3>1, <3>3, <3>4
  <2>3. /\ held' \in [Owners -> [at : Nat, len : Requests \cup {0}]]
        /\ \A p \in Owners : held'[p] # Nothing => held'[p].at < Scanned
    BY DEF Free, IInv, TypeOK, Nothing
  <2> QED
    BY <1>1, <2>2, <2>3 DEF Free, IInv, TypeOK
<1>3. ScanLoop'
  BY <1>1 DEF ScanLoop
<1> QED
  BY <1>2, <1>3 DEF IInv

LEMMA NextInv ==
  ASSUME IInv, [Next]_vars
  PROVE  IInv'
<1>1. ASSUME NEW o \in Owners, NEW n \in Requests, Alloc(o, n)
      PROVE  IInv'
  BY <1>1, AllocInv
<1>2. ASSUME NEW o \in Owners, Free(o)
      PROVE  IInv'
  BY <1>2, FreeInv
<1>3. CASE Scan
  BY <1>3, ScanUsedInv, ScanFreeInv, FoundInv, OutOfFramesInv DEF Scan
<1>4. CASE UNCHANGED vars
  BY <1>4 DEF vars, IInv, TypeOK, ScanLoop, FreeRun
<1> QED
  BY <1>1, <1>2, <1>3, <1>4 DEF Next, Halted

\* The types of the allocator, with what the scan knows at every bit.
THEOREM Invariance == Spec => []IInv
  BY InitInv, NextInv, PTL DEF Spec

-----------------------------------------------------------------------------

\* The variables of frame.c keep their types, and no block starts at a frame
\* beyond those that are scanned, for any word size and memory.
THEOREM TypeCorrect == Spec => []TypeOK
<1>1. IInv => TypeOK
  BY DEF IInv
<1> QED
  BY Invariance, <1>1, PTL

\* frame_alloc_ex panics only when no free run of the length asked for lies
\* among the scanned frames.
THEOREM PanicIsJustified == Spec => []PanicOnlyWhenNoRun
<1>1. IInv => PanicOnlyWhenNoRun
  BY DEF IInv, ScanLoop, PanicOnlyWhenNoRun
<1> QED
  BY Invariance, <1>1, PTL

\* frame_frist_free returns, for every bitmap and length, the word in which the
\* first free run begins and the bit at which it ends.
THEOREM ScanResult == Spec => ReturnsWordAndLastBit
<1> DEFINE Result == \E s \in 0 .. Scanned :
                       LET last == s + blocks_num - 1
                       IN  /\ FreeRun(s, blocks_num)
                           /\ \A t \in 0 .. s - 1 : ~FreeRun(t, blocks_num)
                           /\ held'[who].at =
                                WordBits * (s \div WordBits) + (last % WordBits)
<1>1. ASSUME IInv, Next, pc = "scan", held' # held
      PROVE  Result
  <2>1. Found
    BY <1>1 DEF Next, Scan, Halted, Alloc, Free, ScanUsed, ScanFree, OutOfFrames, vars
  <2> DEFINE s == k - cnt
  <2>2. /\ s \in Nat /\ s <= k /\ s + blocks_num = k + 1
        /\ FreeRun(s, blocks_num)
        /\ \A t \in 0 .. s - 1 : ~FreeRun(t, blocks_num)
        /\ bi' = s \div WordBits /\ bj' = k % WordBits
    BY <1>1, <2>1, FoundRun
  <2>3. k \in Nat /\ k <= Scanned /\ Scanned \in Nat /\ blocks_num \in Nat
    BY <1>1, InScan
  <2>4. s \in 0 .. Scanned /\ s + blocks_num - 1 = k
    BY <2>2, <2>3
  <2>5. held'[who].at = bi' * WordBits + bj'
    BY <1>1, <2>1 DEF Found, IInv, TypeOK
  <2>6. s \div WordBits \in Nat
    BY <2>2, WordAndBit
  <2>7. (s \div WordBits) * WordBits = WordBits * (s \div WordBits)
    BY <2>6
  <2> HIDE DEF s
  <2> QED
    BY <2>2, <2>4, <2>5, <2>7
<1>2. IInv /\ [Next]_vars => [pc = "scan" /\ held' # held => Result]_vars
  BY <1>1
<1> QED
  BY Invariance, <1>2, PTL DEF Spec, ReturnsWordAndLastBit

-----------------------------------------------------------------------------
(* Callers that take one frame at a time *)

\* Exclusive, block by block: a caller in the middle of a request holds nothing.
OneFrame ==
  /\ \A o \in Owners : held[o] = Nothing \/ held[o].len = 1
  /\ \A o \in Owners : held[o] # Nothing => held[o].at \in used
  /\ \A o, p \in Owners :
       o # p /\ held[o] # Nothing /\ held[p] # Nothing => held[o].at # held[p].at
  /\ pc = "scan" => held[who] = Nothing /\ blocks_num = 1

LEMMA OneFrameExclusive ==
  ASSUME IInv, OneFrame
  PROVE  Exclusive
<1>1. \A o \in Owners : Range(held[o]) =
        IF held[o] = Nothing THEN {} ELSE {held[o].at}
  <2> SUFFICES ASSUME NEW o \in Owners
               PROVE  Range(held[o]) = IF held[o] = Nothing THEN {} ELSE {held[o].at}
    OBVIOUS
  <2>1. held[o].at \in Nat
    BY DEF IInv, TypeOK
  <2>2. CASE held[o] = Nothing
    BY <2>2 DEF Range, Nothing
  <2>3. CASE held[o] # Nothing
    <3>1. held[o].len = 1
      BY <2>3 DEF OneFrame
    <3> QED
      BY <2>1, <2>3, <3>1 DEF Range
  <2> QED
    BY <2>2, <2>3
<1>2. \A o \in Owners : Range(held[o]) \subseteq used
  BY <1>1 DEF OneFrame
<1>3. ASSUME NEW o \in Owners, NEW p \in Owners, o # p
      PROVE  Range(held[o]) \cap Range(held[p]) = {}
  <2>1. held[o] # Nothing /\ held[p] # Nothing => held[o].at # held[p].at
    BY <1>3 DEF OneFrame
  <2> QED
    BY <1>1, <2>1
<1> QED
  BY <1>2, <1>3 DEF Exclusive

LEMMA OneFrameNext ==
  ASSUME IInv, OneFrame, OneAtATime', [Next]_vars
  PROVE  OneFrame'
<1>1. ASSUME NEW o \in Owners, NEW n \in Requests, Alloc(o, n)
      PROVE  OneFrame'
  <2>1. n = 1
    BY <1>1 DEF Alloc, OneAtATime
  <2> QED
    BY <1>1, <2>1 DEF Alloc, OneFrame
<1>2. ASSUME NEW o \in Owners, Free(o)
      PROVE  OneFrame'
  <2>1. /\ \A p \in Owners : held'[p] = IF p = o THEN Nothing ELSE held[p]
        /\ used' = used \ {held[o].at} /\ held[o] # Nothing
        /\ pc' = "idle"
    BY <1>2 DEF Free, ClearedBy, IInv, TypeOK
  <2> QED
    BY <2>1 DEF OneFrame
<1>3. CASE Found
  <2>1. pc = "scan" /\ pc' = "idle" /\ blocks_num = 1 /\ held[who] = Nothing
    BY <1>3 DEF Found, SeeFree, OneFrame
  <2>2. /\ k \in Nat /\ cnt \in Nat /\ k - cnt \in Nat /\ k - cnt + blocks_num = k + 1
        /\ bi' = (k - cnt) \div WordBits /\ bj' = k % WordBits
    BY <1>3, <2>1, FoundRun, InScan
  <2>3. bi' * WordBits + bj' = k
    <3>1. k - cnt = k
      BY <2>1, <2>2
    <3>2. k \div WordBits \in Nat /\ k = WordBits * (k \div WordBits) + (k % WordBits)
      BY <2>2, WordAndBit
    <3> QED
      BY <2>2, <3>1, <3>2
  <2>4. k \notin used
    BY <1>3 DEF Found, SeeFree
  <2>5. /\ used' = used \cup {k}
        /\ held' = [held EXCEPT ![who] = [at |-> k, len |-> 1]]
    <3>1. Range([at |-> k, len |-> 1]) = {k}
      BY <2>2 DEF Range
    <3>2. /\ used' = used \cup Range([at |-> bi' * WordBits + bj', len |-> blocks_num])
          /\ held' = [held EXCEPT ![who] = [at |-> bi' * WordBits + bj', len |-> blocks_num]]
      BY <1>3 DEF Found
    <3> QED
      BY <2>1, <2>3, <3>1, <3>2
  <2>6. \A p \in Owners : held'[p] = IF p = who THEN [at |-> k, len |-> 1] ELSE held[p]
    BY <2>5 DEF IInv, TypeOK
  <2> QED
    BY <2>1, <2>4, <2>5, <2>6 DEF OneFrame
<1>4. CASE ScanUsed \/ ScanFree \/ OutOfFrames
  BY <1>4 DEF ScanUsed, ScanFree, SeeFree, OutOfFrames, OneFrame
<1>5. CASE UNCHANGED vars
  BY <1>5 DEF vars, OneFrame
<1> QED
  BY <1>1, <1>2, <1>3, <1>4, <1>5 DEF Next, Scan, Halted

\* As long as no caller asks for more than one frame, as frame_alloc's callers in
\* paging.c do not, no frame has two owners and every frame that has one is marked.
THEOREM SingleFramesAreExclusive == Spec => SinglesAreExclusive
<1>1. Init => OneFrame
  BY DEF Init, OneFrame
<1>2. IInv /\ OneFrame /\ OneAtATime' /\ [Next]_vars => OneFrame'
  BY OneFrameNext
<1>3. IInv /\ OneFrame => Exclusive
  BY OneFrameExclusive
<1> QED
  BY Invariance, <1>1, <1>2, <1>3, PTL DEF Spec, SinglesAreExclusive

=============================================================================
