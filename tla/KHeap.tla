-------------------------------- MODULE KHeap --------------------------------
(***************************************************************************)
(* The kernel heap, kernel/kheap.c: a list of headers, each directly in    *)
(* front of its block, that malloc() searches first-fit and splits, that   *)
(* free() merges, and that grows upwards from the end of the kernel image. *)
(*                                                                         *)
(* The three loops of the code (the search of _find_good_block, the walk   *)
(* of _merge_free_blocks, and the do/while around each) take one step per  *)
(* iteration.  Addresses are the code's: a header at address a covers      *)
(* a .. a+HeaderSize-1 and its block the hdr[a].size bytes after that.     *)
(*                                                                         *)
(* The heap is only called from the main thread of the kernel (no          *)
(* interrupt handler allocates), so one call runs at a time.  A page fault *)
(* is the machine's last step: exception_page_fault panics, and panic halts.*)
(***************************************************************************)
EXTENDS Integers, FiniteSets

CONSTANTS
  HeaderSize,   \* sizeof(KheapHeader)
  PtrScale,     \* sizeof(uint32_t): what curr_addr += n advances by, per unit
  KrnlEnd,      \* the address of krnl_end, where the heap starts
  MapEnd,       \* the first address that paging_dir_new did not map
  Sizes         \* the lengths callers ask for

ASSUME HeaderAssumption == HeaderSize \in Nat \ {0}
ASSUME ScaleAssumption  == PtrScale \in Nat \ {0}
ASSUME LayoutAssumption == KrnlEnd \in Nat \ {0} /\ MapEnd \in Nat
ASSUME SizesAssumption  == Sizes \subseteq Nat

Null  == 0
NoReq == -1

VARIABLES
  hdr,        \* the headers of the list: address -> [size, freed, next]
  frist_hh,   \* the first header of the list (the code's spelling)
  last_hh,    \* the last one
  curr_addr,  \* where the next fresh block goes
  pc,         \* the step of the call in progress, "idle" between calls
  req,        \* the size of the request being served, NoReq when there is none
  next,       \* the loop variable of the search and of the merge; then the
              \* header of the block malloc() returns to realloc()
  current,    \* the free header that _merge_free_blocks is growing, or Null
  old         \* the header realloc() has still to free, or Null

vars == <<hdr, frist_hh, last_hh, curr_addr, pc, req, next, current, old>>

Headers == DOMAIN hdr

\* The header list with one header written at address a.
Put(list, a, h) ==
  [x \in DOMAIN list \cup {a} |-> IF x = a THEN h ELSE list[x]]

\* _new_header.
_new_header(size, nxt) == [size |-> size, freed |-> FALSE, next |-> nxt]

\* (mutant: a block of exactly the size asked for is passed over)
FitsStrict(a, n) == hdr[a].freed /\ hdr[a].size > n

\* The test of _find_good_block's loop body.
Fits(a, n) == hdr[a].freed /\ hdr[a].size >= n

Init ==
  /\ hdr = [a \in {} |-> _new_header(0, Null)]
  /\ frist_hh = Null /\ last_hh = Null
  /\ curr_addr = KrnlEnd
  /\ pc = "idle" /\ req = NoReq
  /\ next = Null /\ current = Null /\ old = Null

-----------------------------------------------------------------------------
(* malloc *)

\* The entry of malloc: search the list when there is one.
malloc(n) ==
  /\ req' = n
  /\ IF frist_hh # Null
     THEN pc' = "search" /\ next' = frist_hh
     ELSE pc' = "extend" /\ next' = Null

Malloc(n) ==
  /\ pc = "idle"
  /\ malloc(n)
  /\ UNCHANGED <<hdr, frist_hh, last_hh, curr_addr, current, old>>

\* malloc has its block, with header h: it returns to its caller, or to realloc,
\* which goes on to copy.
Granted(h) ==
  IF old = Null THEN pc' = "idle" /\ req' = NoReq /\ next' = Null
                ELSE pc' = "copy" /\ req' = req /\ next' = h

\* One iteration of _find_good_block that passes over a header.
SearchSkip ==
  /\ pc = "search"
  /\ ~Fits(next, req)
  /\ next' = hdr[next].next
  /\ pc' = IF next' = Null THEN "extend" ELSE "search"
  /\ UNCHANGED <<hdr, frist_hh, last_hh, curr_addr, req, current, old>>

\* (mutant: the remainder's own header is forgotten)
RemainderWithHeader == hdr[next].size - req

\* new_size of _split_block, before its test for being positive.
Remainder == hdr[next].size - req - HeaderSize

\* (mutant: the flag is not reset)
NotTaken == hdr

\* The list once the header found is no longer free.
Taken == [hdr EXCEPT ![next].freed = FALSE]

\* The header fits and _split_block leaves it whole.
SearchTake ==
  /\ pc = "search"
  /\ Fits(next, req)
  /\ Remainder <= 0
  /\ hdr' = Taken
  /\ Granted(next)
  /\ UNCHANGED <<frist_hh, last_hh, curr_addr, current, old>>

\* Where _split_block puts the header of the remainder.
SplitAt == next + HeaderSize + req

\* (mutant: last_hh stays where it was)
LastKept == last_hh

\* The last header once the remainder is in the list.
LastAfterSplit == IF hdr[next].next = Null THEN SplitAt ELSE last_hh

\* The header fits and _split_block cuts the rest off it.
SearchSplit ==
  /\ pc = "search"
  /\ Fits(next, req)
  /\ Remainder > 0
  /\ SplitAt + HeaderSize <= MapEnd
  /\ hdr' = Put(Put(hdr, next, _new_header(req, SplitAt)),
                SplitAt,
                [size |-> Remainder, freed |-> TRUE, next |-> hdr[next].next])
  /\ last_hh' = LastAfterSplit
  /\ Granted(next)
  /\ UNCHANGED <<frist_hh, curr_addr, current, old>>

\* Writing the header of the remainder faults: the block reaches beyond the
\* mapped memory.  Its freed flag has been cleared already.
SplitFault ==
  /\ pc = "search"
  /\ Fits(next, req)
  /\ Remainder > 0
  /\ SplitAt + HeaderSize > MapEnd
  /\ hdr' = Taken
  /\ pc' = "panic"
  /\ UNCHANGED <<frist_hh, last_hh, curr_addr, req, next, current, old>>

\* The bytes curr_addr advances by for a block of n bytes: curr_addr is a
\* uint32_t*, so each byte of header and block moves it by PtrScale.
Growth(n) == PtrScale * (n + HeaderSize)

\* No header fits: a fresh block at curr_addr.
Extend ==
  /\ pc = "extend"
  /\ curr_addr + HeaderSize <= MapEnd
  /\ LET linked == IF frist_hh = Null
                   THEN hdr
                   ELSE [hdr EXCEPT ![last_hh].next = curr_addr]
     IN  hdr' = Put(linked, curr_addr, _new_header(req, Null))
  /\ frist_hh' = IF frist_hh = Null THEN curr_addr ELSE frist_hh
  /\ last_hh' = curr_addr
  /\ curr_addr' = curr_addr + Growth(req)
  /\ Granted(curr_addr)
  /\ UNCHANGED <<current, old>>

\* Writing the fresh header faults.
ExtendFault ==
  /\ pc = "extend"
  /\ curr_addr + HeaderSize > MapEnd
  /\ pc' = "panic"
  /\ UNCHANGED <<hdr, frist_hh, last_hh, curr_addr, req, next, current, old>>

-----------------------------------------------------------------------------
(* free *)

\* free() of the header at a: mark it, and start the merge.
free(a) ==
  /\ hdr' = [hdr EXCEPT ![a].freed = TRUE]
  /\ pc' = "merge"
  /\ next' = frist_hh
  /\ current' = Null

\* A caller frees a block.  The block may be free already: free() then says
\* "double free detected!" and goes on.
Free(a) ==
  /\ pc = "idle"
  /\ free(a)
  /\ UNCHANGED <<frist_hh, last_hh, curr_addr, req, old>>

\* The end of an iteration of _merge_free_blocks, cur being the new value of
\* current: on to the header nxt, or, behind the last one, out of the loop.
Advance(nxt, cur) ==
  IF nxt # Null
  THEN /\ next' = nxt
       /\ current' = cur
       /\ UNCHANGED <<pc, last_hh>>
  ELSE /\ last_hh' = IF cur # Null THEN cur ELSE last_hh
       /\ pc' = "idle"
       /\ next' = Null
       /\ current' = Null

\* (mutant: continue skips next = next->next)
MergeUsedStays ==
  /\ pc = "merge"
  /\ ~hdr[next].freed
  /\ Advance(next, Null)
  /\ UNCHANGED <<hdr, frist_hh, curr_addr, req, old>>

\* One iteration over a header in use, which ends the run of free ones.
MergeUsed ==
  /\ pc = "merge"
  /\ ~hdr[next].freed
  /\ Advance(hdr[next].next, Null)
  /\ UNCHANGED <<hdr, frist_hh, curr_addr, req, old>>

\* One iteration over the first header of a run of free ones.
MergeFirst ==
  /\ pc = "merge"
  /\ hdr[next].freed /\ current = Null
  /\ Advance(hdr[next].next, next)
  /\ UNCHANGED <<hdr, frist_hh, curr_addr, req, old>>

\* current grown by the header next and its block; the header drops out of the
\* list, and the loop goes on from it through the link it still holds.
Absorb ==
  [x \in Headers \ {next} |->
     IF x = current
     THEN [size  |-> hdr[x].size + hdr[next].size + HeaderSize,
           freed |-> hdr[x].freed,
           next  |-> hdr[next].next]
     ELSE hdr[x]]

\* One iteration over a further header of a run of free ones.
MergeAbsorb ==
  /\ pc = "merge"
  /\ hdr[next].freed /\ current # Null
  /\ hdr' = Absorb
  /\ Advance(hdr[next].next, current)
  /\ UNCHANGED <<frist_hh, curr_addr, req, old>>

-----------------------------------------------------------------------------
(* realloc: malloc, memcpy, free *)

\* Callers pass realloc a block in use.
Realloc(a, n) ==
  /\ pc = "idle"
  /\ ~hdr[a].freed
  /\ old' = a
  /\ malloc(n)
  /\ UNCHANGED <<hdr, frist_hh, last_hh, curr_addr, current>>

\* memcpy reads and writes req bytes, whatever the length of the old block.
CopyMapped ==
  \A a \in {old, next} : req > 0 => a + HeaderSize + req <= MapEnd

CopyAndFree ==
  /\ pc = "copy"
  /\ CopyMapped
  /\ free(old)
  /\ old' = Null
  /\ req' = NoReq
  /\ UNCHANGED <<frist_hh, last_hh, curr_addr>>

CopyFault ==
  /\ pc = "copy"
  /\ ~CopyMapped
  /\ pc' = "panic"
  /\ req' = NoReq
  /\ UNCHANGED <<hdr, frist_hh, last_hh, curr_addr, next, current, old>>

-----------------------------------------------------------------------------

\* panic() ends in cli; hlt.
Halted == pc = "panic" /\ UNCHANGED vars

\* The steps of a call in progress.
Internal ==
  \/ SearchSkip \/ SearchTake \/ SearchSplit \/ SplitFault
  \/ Extend \/ ExtendFault
  \/ MergeUsed \/ MergeFirst \/ MergeAbsorb
  \/ CopyAndFree \/ CopyFault

Next ==
  \/ \E n \in Sizes : Malloc(n)
  \/ \E a \in Headers : Free(a)
  \/ \E a \in Headers, n \in Sizes : Realloc(a, n)
  \/ Internal
  \/ Halted

Spec == Init /\ [][Next]_vars

\* A call runs on once it has started: nothing blocks in kheap.c.
FairSpec == Spec /\ WF_vars(Internal)

-----------------------------------------------------------------------------
(* Properties *)

\* The types of the variables.  A cursor that is followed is always a header.
TypeOK ==
  /\ Headers \subseteq Nat \ {Null}
  /\ hdr \in [Headers -> [size : Nat, freed : BOOLEAN, next : Headers \cup {Null}]]
  /\ {frist_hh, last_hh, current, old, next} \subseteq Headers \cup {Null}
  /\ curr_addr \in Nat \ {Null}
  /\ pc \in {"idle", "search", "extend", "merge", "copy", "panic"}
  /\ req \in Sizes \cup {NoReq}

\* Following next from frist_hh visits every header, in address order, and ends
\* at last_hh: what malloc's search, the merge and the linking of a fresh block
\* (last_hh->next = ...) all rely on, and what splitting the last block,
\* absorbing it, and growing the heap must each keep true.
ListComplete ==
  /\ (frist_hh = Null) <=> (Headers = {})
  /\ frist_hh # Null => /\ {frist_hh, last_hh} \subseteq Headers
                        /\ \A a \in Headers : frist_hh <= a /\ a <= last_hh
  /\ \A a \in Headers :
       LET nxt == hdr[a].next
       IN  IF nxt = Null
           THEN a = last_hh
           ELSE /\ nxt \in Headers
                /\ a < nxt
                /\ \A b \in Headers : b <= a \/ nxt <= b

\* No block reaches into the next header or past curr_addr, where the next
\* fresh header is written: splits, merges and the grown heap never overlap.
NoOverlap ==
  \A a \in Headers :
    a + HeaderSize + hdr[a].size <=
      IF hdr[a].next = Null THEN curr_addr ELSE hdr[a].next

\* The headers and their blocks follow one another in memory as in the list, in
\* the middle of every call too.
HeapTiled == ListComplete /\ NoOverlap

\* Outside the merge itself no two neighbours of the list are both free: one
\* pass of _merge_free_blocks, from the start, is enough after every free, and
\* no split leaves a free block in front of another.
Coalesced ==
  pc # "merge" =>
    \A a \in Headers :
      hdr[a].freed /\ hdr[a].next # Null => ~hdr[hdr[a].next].freed

\* Whatever is split, merged and grown, in whatever order, and whether a block is
\* freed once or twice, the list is whole and merged.
ListInOrder == HeapTiled /\ Coalesced

\* malloc grows the heap only when no free block of the list is long enough:
\* the search misses none, and what follows it does not make one.
GrowsOnlyWhenFull ==
  [][curr_addr' # curr_addr =>
       \A a \in Headers : hdr[a].freed => hdr[a].size < req]_vars

\* The bytes of the headers and blocks from the header at a to the end of the
\* list.
BytesFrom[a \in Headers \cup {Null}] ==
  IF a = Null THEN 0
  ELSE HeaderSize + hdr[a].size + BytesFrom[hdr[a].next]

\* The bytes of the headers and blocks that the list reaches are, times PtrScale,
\* the bytes the heap has taken: splitting and merging neither lose nor invent a
\* byte.
BytesAccounted ==
  PtrScale * BytesFrom[frist_hh] = curr_addr - KrnlEnd

\* Every call of malloc, free or realloc returns or panics: the list never
\* becomes a cycle for the do/while loops to run round.
CallsEnd == pc # "idle" ~> pc \in {"idle", "panic"}

\* kheap.c as an allocator: a block is in use when its header is not freed,
\* except for the one whose split faulted, which was never returned.
Live ==
  {a \in Headers : ~hdr[a].freed /\ ~(pc = "panic" /\ req # NoReq /\ a = next)}

LiveBlocks == {[base |-> a + HeaderSize, len |-> hdr[a].size] : a \in Live}

Want == IF pc = "copy" THEN NoReq ELSE req

Abs == INSTANCE Allocator WITH live <- LiveBlocks, want <- Want

\* The list of headers implements the allocator: first-fit, splitting, merging
\* and realloc never hand out a byte that is in use, never hand out less than
\* was asked for, and never move or resize a block in use.
ImplementsAllocator == Abs!Spec

=============================================================================
