---------------------------- MODULE KHeap_proofs ----------------------------
(***************************************************************************)
(* Proofs about the kernel heap of KHeap.tla, for every header size, every *)
(* memory and every set of request sizes.                                  *)
(*                                                                         *)
(* The properties of the list (ListComplete, NoOverlap, Coalesced) hold    *)
(* together with what the two loops know at each iteration: IInv below.    *)
(* The sum of the list's bytes needs each of them (Bytes, at the end): a   *)
(* step changes the sums by exhibiting those of the new list, and a list   *)
(* whose links lead upwards has one solution of BytesFrom's equation.      *)
(***************************************************************************)
EXTENDS KHeap, WellFoundedInduction, TLAPS

USE HeaderAssumption, ScaleAssumption, LayoutAssumption, SizesAssumption
    DEF Null, NoReq

\* What _find_good_block's loop knows: it is at a header of the list, and none
\* of the headers behind it fits the request.
SearchLoop ==
  /\ pc = "search" =>
       /\ next \in Headers
       /\ req \in Sizes
       /\ \A b \in Headers : b < next => ~Fits(b, req)
  /\ pc = "extend" =>
       /\ req \in Sizes
       /\ next = Null
       /\ \A b \in Headers : ~Fits(b, req)

\* What _merge_free_blocks' loop knows: current is the free header in front of
\* next, if that one is free, and everything behind next is merged.
MergeLoop ==
  pc = "merge" =>
    /\ next \in Headers
    /\ req = NoReq
    /\ current # Null => hdr[current].freed /\ hdr[current].next = next
    /\ current = Null =>
         \A a \in Headers : hdr[a].next = next => ~hdr[a].freed
    /\ \A a \in Headers :
         hdr[a].freed /\ hdr[a].next # Null /\ hdr[a].next < next =>
           ~hdr[hdr[a].next].freed

\* What a call leaves behind for its own later steps.
CallState ==
  /\ pc = "idle" => req = NoReq
  /\ pc \in {"idle", "merge"} => old = Null
  /\ pc \in {"search", "extend", "copy"} /\ old # Null => ~hdr[old].freed
  /\ pc = "copy" => old # Null /\ next # Null /\ req \in Sizes

IInv ==
  /\ TypeOK /\ ListComplete /\ NoOverlap /\ Coalesced
  /\ SearchLoop /\ MergeLoop /\ CallState

-----------------------------------------------------------------------------

\* Taking PtrScale bytes for each byte of a block takes at least the block.
LEMMA ScaleGrows ==
  ASSUME NEW x \in Nat
  PROVE  PtrScale * x \in Nat /\ x <= PtrScale * x
<1>1. PICK k \in Nat : PtrScale = k + 1
  BY PtrScale - 1 \in Nat, PtrScale = (PtrScale - 1) + 1
<1>2. (k + 1) * x = k * x + x /\ k * x \in Nat
  BY SMT
<1> QED
  BY <1>1, <1>2

LEMMA InitInv == Init => IInv
  BY DEF Init, IInv, TypeOK, ListComplete, NoOverlap, Coalesced, SearchLoop,
         MergeLoop, CallState, Headers, _new_header

LEMMA MallocInv ==
  ASSUME IInv, NEW n \in Sizes, Malloc(n)
  PROVE  IInv'
<1> USE DEF IInv, Malloc, malloc, Headers
<1>1. TypeOK'
  BY DEF TypeOK, ListComplete
<1>2. ListComplete'
  BY DEF ListComplete, TypeOK
<1>3. NoOverlap' /\ Coalesced'
  BY DEF NoOverlap, Coalesced
<1>4. SearchLoop'
  BY DEF SearchLoop, ListComplete, TypeOK, Fits
<1>5. MergeLoop' /\ CallState'
  BY DEF MergeLoop, CallState
<1> QED
  BY <1>1, <1>2, <1>3, <1>4, <1>5

LEMMA SearchSkipInv ==
  ASSUME IInv, SearchSkip
  PROVE  IInv'
<1> USE DEF IInv, SearchSkip, Headers
<1>1. TypeOK'
  BY DEF TypeOK, SearchLoop
<1>2. ListComplete'
  BY DEF ListComplete
<1>3. NoOverlap' /\ Coalesced'
  BY DEF NoOverlap, Coalesced
<1>4. SearchLoop'
  BY DEF SearchLoop, ListComplete, TypeOK, Fits
<1>5. MergeLoop' /\ CallState'
  BY DEF MergeLoop, CallState
<1> QED
  BY <1>1, <1>2, <1>3, <1>4, <1>5

\* A step that changes no link and no length keeps the list as it is laid out.
SameList ==
  /\ Headers' = Headers
  /\ \A x \in Headers : hdr'[x].next = hdr[x].next /\ hdr'[x].size = hdr[x].size
  /\ \A x \in Headers : hdr[x].next \in Headers \cup {Null}
  /\ UNCHANGED <<frist_hh, last_hh, curr_addr>>

LEMMA SameTiling ==
  ASSUME SameList, ListComplete, NoOverlap
  PROVE  ListComplete' /\ NoOverlap'
<1>1. ListComplete'
  BY DEF SameList, ListComplete
<1>2. NoOverlap'
  BY DEF SameList, NoOverlap
<1> QED
  BY <1>1, <1>2

LEMMA SearchTakeInv ==
  ASSUME IInv, SearchTake
  PROVE  IInv'
<1> USE DEF IInv, SearchTake, Headers, Granted, Taken
<1>0. next \in Headers /\ req \in Sizes
  BY DEF SearchLoop
<1>1. TypeOK'
  <2>1. /\ Headers' = Headers
        /\ hdr' \in [Headers -> [size : Nat, freed : BOOLEAN, next : Headers \cup {Null}]]
    BY <1>0 DEF TypeOK
  <2>2. /\ UNCHANGED <<frist_hh, last_hh, curr_addr, current, old>>
        /\ pc' \in {"idle", "copy"} /\ req' \in {req, NoReq} /\ next' \in {next, Null}
    OBVIOUS
  <2> QED
    BY <1>0, <2>1, <2>2 DEF TypeOK
<1>2. SameList
  <2>1. \A x \in Headers : hdr[x].next \in Headers \cup {Null}
    BY DEF TypeOK
  <2> QED
    BY <1>0, <2>1 DEF SameList, TypeOK
<1>3. ListComplete' /\ NoOverlap'
  BY <1>2, SameTiling
<1>4. Coalesced'
  <2>1. \A x \in Headers : hdr'[x].freed => hdr[x].freed
    BY <1>0 DEF TypeOK
  <2>2. pc # "merge"
    OBVIOUS
  <2> QED
    BY <1>2, <2>1, <2>2 DEF Coalesced, SameList
<1>5. SearchLoop' /\ MergeLoop'
  BY DEF SearchLoop, MergeLoop
<1>6. CallState'
  BY <1>0 DEF CallState, TypeOK
<1> QED
  BY <1>1, <1>3, <1>4, <1>5, <1>6

\* TypeOK, header by header.
LEMMA HeaderTypes ==
  ASSUME TypeOK
  PROVE  \A x \in Headers :
           /\ x \in Nat /\ x # Null
           /\ hdr[x].size \in Nat /\ hdr[x].freed \in BOOLEAN
           /\ hdr[x].next \in Headers \cup {Null}
           /\ hdr[x] = [size |-> hdr[x].size, freed |-> hdr[x].freed,
                        next |-> hdr[x].next]
  BY DEF TypeOK

\* ListComplete, header by header: only the last header has no next, and it
\* ends in front of curr_addr.
LEMMA ListLinks ==
  ASSUME TypeOK, ListComplete, NoOverlap
  PROVE  /\ \A a \in Headers :
              /\ hdr[a].next = Null <=> a = last_hh
              /\ a # last_hh =>
                   /\ hdr[a].next \in Headers /\ a < hdr[a].next
                   /\ a + HeaderSize + hdr[a].size <= hdr[a].next
                   /\ \A b \in Headers : b <= a \/ hdr[a].next <= b
              /\ frist_hh <= a /\ a <= last_hh
              /\ a < curr_addr
         /\ Headers # {} =>
              /\ frist_hh \in Headers /\ last_hh \in Headers
              /\ last_hh + HeaderSize + hdr[last_hh].size <= curr_addr
<1>1. \A a \in Headers :
        /\ hdr[a].next = Null => a = last_hh
        /\ hdr[a].next # Null =>
             /\ hdr[a].next \in Headers /\ a < hdr[a].next
             /\ a + HeaderSize + hdr[a].size <= hdr[a].next
             /\ \A b \in Headers : b <= a \/ hdr[a].next <= b
  BY DEF ListComplete, NoOverlap
<1>2. Headers # {} =>
        /\ frist_hh \in Headers /\ last_hh \in Headers
        /\ \A a \in Headers : frist_hh <= a /\ a <= last_hh
  BY DEF ListComplete
<1>3. last_hh \in Headers => hdr[last_hh].next = Null
  <2> SUFFICES ASSUME last_hh \in Headers, hdr[last_hh].next # Null
               PROVE  FALSE
    OBVIOUS
  <2> DEFINE nxt == hdr[last_hh].next
  <2>1. nxt \in Headers /\ last_hh < nxt /\ nxt <= last_hh
    BY <1>1, <1>2
  <2>2. nxt \in Nat /\ last_hh \in Nat
    BY <2>1, HeaderTypes
  <2> HIDE DEF nxt
  <2> QED
    BY <2>1, <2>2
<1>4. last_hh \in Headers => last_hh + HeaderSize + hdr[last_hh].size <= curr_addr
  BY <1>3 DEF NoOverlap
<1>5. last_hh \in Headers => last_hh < curr_addr
  BY <1>4, HeaderTypes DEF TypeOK
<1>6. \A a \in Headers : a < curr_addr
  <2> SUFFICES ASSUME NEW a \in Headers
               PROVE  a < curr_addr
    OBVIOUS
  <2>1. a <= last_hh /\ last_hh < curr_addr /\ last_hh \in Headers
    BY <1>2, <1>5
  <2>2. a \in Nat /\ last_hh \in Nat /\ curr_addr \in Nat
    BY <2>1, HeaderTypes DEF TypeOK
  <2> QED
    BY <2>1, <2>2
<1> QED
  BY <1>1, <1>2, <1>3, <1>4, <1>6

\* Two headers of the list, with their blocks, share no byte.
LEMMA Apart ==
  ASSUME IInv, NEW a \in Headers, NEW b \in Headers, a < b
  PROVE  a + HeaderSize + hdr[a].size <= b
<1> USE DEF IInv
<1>1. a \in Nat /\ b \in Nat /\ hdr[a].size \in Nat
  BY HeaderTypes
<1>2. a # last_hh
  <2>1. b <= last_hh
    BY ListLinks
  <2> QED
    BY <1>1, <2>1
<1>3. /\ hdr[a].next \in Headers
      /\ a + HeaderSize + hdr[a].size <= hdr[a].next
      /\ b <= a \/ hdr[a].next <= b
  BY <1>2, ListLinks
<1>4. hdr[a].next \in Nat
  BY <1>3, HeaderTypes
<1> QED
  BY <1>1, <1>3, <1>4

\* Splitting: the remainder's header lies strictly between its block and the
\* header that followed.
LEMMA SplitInv ==
  ASSUME IInv, SearchSplit
  PROVE  IInv'
<1> DEFINE h0 == _new_header(req, SplitAt)
           h1 == [size |-> Remainder, freed |-> TRUE, next |-> hdr[next].next]
<1>0. \A b \in Headers : next < b => next + HeaderSize + hdr[next].size <= b
  BY Apart DEF IInv, SearchLoop, SearchSplit
<1> USE DEF IInv, Headers
<1>1. /\ next \in Headers /\ req \in Sizes /\ hdr[next].freed
      /\ hdr[next].size \in Nat /\ next \in Nat
      /\ hdr[next].next \in Headers \cup {Null}
  BY DEF SearchLoop, SearchSplit, Fits, TypeOK
<1>2. /\ SplitAt \in Nat /\ Remainder \in Nat
      /\ next + HeaderSize <= SplitAt
      /\ SplitAt + HeaderSize + Remainder = next + HeaderSize + hdr[next].size
      /\ Remainder > 0
  BY <1>1 DEF SearchSplit, SplitAt, Remainder
<1>3. \A b \in Headers : b <= next \/ SplitAt < b
  <2> SUFFICES ASSUME NEW b \in Headers, ~(b <= next) PROVE SplitAt < b
    OBVIOUS
  <2>1. b \in Nat
    BY HeaderTypes
  <2>2. next + HeaderSize + hdr[next].size <= b
    BY <1>0, <1>1, <2>1
  <2>3. SplitAt < next + HeaderSize + hdr[next].size
    BY <1>1, <1>2
  <2> HIDE DEF IInv, Headers
  <2> QED
    BY <1>1, <1>2, <2>1, <2>2, <2>3
<1>4. SplitAt \notin Headers /\ SplitAt # next
  BY <1>1, <1>2, <1>3
<1>5. /\ Headers' = Headers \cup {SplitAt}
      /\ hdr'[SplitAt] = h1
      /\ hdr'[next] = h0
      /\ \A x \in Headers : x # next => hdr'[x] = hdr[x]
  <2>1. hdr' = Put(Put(hdr, next, h0), SplitAt, h1)
    BY DEF SearchSplit
  <2>2. Headers \cup {next} = Headers
    BY <1>1
  <2> HIDE DEF h0, h1
  <2> QED
    BY <1>1, <1>4, <2>1, <2>2 DEF Put
<1>6. hdr' = [x \in Headers' |-> hdr'[x]]
  BY DEF SearchSplit, Put
<1>7. /\ h0 = [size |-> req, freed |-> FALSE, next |-> SplitAt]
      /\ h0 \in [size : Nat, freed : BOOLEAN, next : Headers' \cup {Null}]
      /\ h1 \in [size : Nat, freed : BOOLEAN, next : Headers' \cup {Null}]
  BY <1>1, <1>2, <1>5 DEF _new_header
<1>8. /\ frist_hh' = frist_hh /\ curr_addr' = curr_addr
      /\ current' = current /\ old' = old
      /\ last_hh' = IF hdr[next].next = Null THEN SplitAt ELSE last_hh
      /\ \/ old = Null /\ pc' = "idle" /\ req' = NoReq /\ next' = Null
         \/ old # Null /\ pc' = "copy" /\ req' = req /\ next' = next
  BY DEF SearchSplit, Granted, LastAfterSplit
<1>9. pc = "search"
  BY DEF SearchSplit
<1>10. TypeOK'
  <2>1. hdr' \in [Headers' -> [size : Nat, freed : BOOLEAN, next : Headers' \cup {Null}]]
    <3>1. \A x \in Headers : hdr[x] \in
            [size : Nat, freed : BOOLEAN, next : Headers' \cup {Null}]
      BY <1>5, HeaderTypes
    <3>2. \A x \in Headers' : hdr'[x] \in
            [size : Nat, freed : BOOLEAN, next : Headers' \cup {Null}]
      BY <1>5, <1>7, <3>1
    <3> QED
      BY <1>6, <3>2
  <2>2. Headers' \subseteq Nat \ {Null}
    BY <1>1, <1>2, <1>5 DEF TypeOK
  <2>3. {frist_hh, last_hh, current, old, next}' \subseteq Headers' \cup {Null}
    BY <1>1, <1>5, <1>8 DEF TypeOK
  <2> QED
    BY <1>1, <1>8, <2>1, <2>2, <2>3 DEF TypeOK
<1> HIDE DEF h1
<1>11. hdr'[SplitAt].next = hdr[next].next /\ hdr'[SplitAt].freed = TRUE
       /\ hdr'[SplitAt].size = Remainder
       /\ hdr'[next].next = SplitAt /\ hdr'[next].freed = FALSE
       /\ hdr'[next].size = req
  BY <1>5, <1>7 DEF h1
<1>12. ListComplete'
  <2>1. /\ frist_hh # Null /\ frist_hh \in Headers /\ last_hh \in Headers
        /\ \A a \in Headers : frist_hh <= a /\ a <= last_hh
    BY <1>1, HeaderTypes, ListLinks
  <2>2. last_hh' \in Headers' /\ \A a \in Headers' : a <= last_hh'
    <3>1. CASE hdr[next].next = Null
      <4>1. last_hh = next
        BY <1>1, <3>1, ListLinks
      <4> QED
        BY <1>1, <1>2, <1>5, <1>8, <2>1, <3>1, <4>1, HeaderTypes
    <3>2. CASE hdr[next].next # Null
      <4>1. SplitAt <= hdr[next].next /\ hdr[next].next <= last_hh
        BY <1>1, <1>2, <2>1, <3>2, HeaderTypes DEF NoOverlap
      <4> QED
        BY <1>1, <1>2, <1>5, <1>8, <2>1, <3>2, <4>1, HeaderTypes
    <3> QED
      BY <3>1, <3>2
  <2>3. \A a \in Headers' : frist_hh <= a
    BY <1>1, <1>2, <1>5, <2>1, HeaderTypes
  <2>4. ASSUME NEW a \in Headers', hdr'[a].next = Null
        PROVE  a = last_hh'
    BY <1>1, <1>2, <1>5, <1>8, <1>11, <2>1, <2>4, HeaderTypes, ListLinks
  <2>5. ASSUME NEW a \in Headers', hdr'[a].next # Null
        PROVE  /\ hdr'[a].next \in Headers'
               /\ a < hdr'[a].next
               /\ \A b \in Headers' : b <= a \/ hdr'[a].next <= b
    <3>1. CASE a = next
      BY <1>1, <1>2, <1>3, <1>5, <1>11, <3>1, HeaderTypes
    <3>2. CASE a = SplitAt
      <4>1. /\ hdr'[a].next = hdr[next].next /\ hdr[next].next \in Headers
            /\ next + HeaderSize + hdr[next].size <= hdr[next].next
            /\ \A b \in Headers : b <= next \/ hdr[next].next <= b
        BY <1>1, <1>11, <2>5, <3>2, HeaderTypes, ListLinks
      <4>2. a < hdr[next].next /\ next < a
        BY <1>1, <1>2, <3>2, <4>1, HeaderTypes
      <4> QED
        BY <1>1, <1>2, <1>5, <3>2, <4>1, <4>2, HeaderTypes
    <3>3. CASE a \in Headers \ {next}
      <4>1. /\ hdr[a].next \in Headers /\ a < hdr[a].next /\ hdr'[a] = hdr[a]
            /\ \A b \in Headers : b <= a \/ hdr[a].next <= b
        BY <1>5, <2>5, <3>3, HeaderTypes, ListLinks
      <4>2. SplitAt <= a \/ hdr[a].next <= SplitAt
        BY <1>1, <1>2, <1>3, <3>3, <4>1, HeaderTypes
      <4> QED
        BY <1>5, <4>1, <4>2
    <3> QED
      BY <1>5, <3>1, <3>2, <3>3
  <2> QED
    BY <1>5, <1>8, <2>1, <2>2, <2>3, <2>4, <2>5 DEF ListComplete
<1>13. NoOverlap'
  <2> SUFFICES ASSUME NEW a \in Headers'
               PROVE  a + HeaderSize + hdr'[a].size <=
                        IF hdr'[a].next = Null THEN curr_addr ELSE hdr'[a].next
    BY <1>8 DEF NoOverlap
  <2>1. CASE a = next
    BY <1>1, <1>2, <1>11, <2>1 DEF SplitAt
  <2>2. CASE a = SplitAt
    BY <1>1, <1>2, <1>11, <2>2 DEF NoOverlap
  <2>3. CASE a \in Headers \ {next}
    BY <1>5, <2>3 DEF NoOverlap
  <2> QED
    BY <1>5, <2>1, <2>2, <2>3
<1>14. Coalesced'
  <2> SUFFICES ASSUME NEW a \in Headers', hdr'[a].freed, hdr'[a].next # Null
               PROVE  ~hdr'[hdr'[a].next].freed
    BY DEF Coalesced
  <2>1. CASE a = SplitAt
    BY <1>1, <1>5, <1>9, <1>11, <2>1, HeaderTypes DEF Coalesced, ListComplete
  <2>2. CASE a \in Headers \ {next}
    BY <1>1, <1>5, <1>9, <1>11, <2>2, HeaderTypes DEF Coalesced
  <2> QED
    BY <1>5, <1>11, <2>1, <2>2
<1>15. SearchLoop' /\ MergeLoop'
  BY <1>8 DEF SearchLoop, MergeLoop
<1>16. CallState'
  BY <1>1, <1>5, <1>8, <1>9, <1>11 DEF CallState, TypeOK
<1> QED
  BY <1>10, <1>12, <1>13, <1>14, <1>15, <1>16

LEMMA SplitFaultInv ==
  ASSUME IInv, SplitFault
  PROVE  IInv'
<1> USE DEF IInv, SplitFault, Headers, Taken
<1>0. next \in Headers
  BY DEF SearchLoop
<1>1. TypeOK'
  BY <1>0 DEF TypeOK
<1>2. ListComplete'
  BY <1>0 DEF ListComplete, TypeOK
<1>3. NoOverlap' /\ Coalesced'
  BY <1>0 DEF NoOverlap, Coalesced, TypeOK
<1>4. SearchLoop' /\ MergeLoop' /\ CallState'
  BY DEF SearchLoop, MergeLoop, CallState
<1> QED
  BY <1>1, <1>2, <1>3, <1>4

\* Growing: the fresh header lies behind every block of the list.
LEMMA ExtendInv ==
  ASSUME IInv, Extend
  PROVE  IInv'
<1> DEFINE linked == IF frist_hh = Null THEN hdr
                     ELSE [hdr EXCEPT ![last_hh].next = curr_addr]
           h0 == _new_header(req, Null)
<1> USE DEF IInv, Headers
<1>1. pc = "extend" /\ req \in Sizes /\ req \in Nat
  BY DEF Extend, SearchLoop
<1>2. \A b \in Headers : b < curr_addr
  BY ListLinks
<1>3. /\ curr_addr' \in Nat
      /\ curr_addr + HeaderSize + req <= curr_addr'
  <2>1. req + HeaderSize \in Nat
    BY <1>1
  <2> QED
    BY <1>1, <2>1, ScaleGrows DEF Extend, Growth, TypeOK
<1>4. DOMAIN linked = Headers
  OBVIOUS
<1>5. /\ Headers' = Headers \cup {curr_addr}
      /\ hdr'[curr_addr] = h0
      /\ \A x \in Headers : hdr'[x] = linked[x]
      /\ hdr' = [x \in Headers' |-> hdr'[x]]
  <2>1. hdr' = Put(linked, curr_addr, h0)
    BY DEF Extend
  <2>2. curr_addr \notin Headers
    BY <1>2 DEF TypeOK
  <2> HIDE DEF linked, h0
  <2> QED
    BY <1>4, <2>1, <2>2 DEF Put
<1>6. h0 = [size |-> req, freed |-> FALSE, next |-> Null]
  BY DEF _new_header
<1>7. \A x \in Headers : /\ linked[x].size = hdr[x].size
                         /\ linked[x].freed = hdr[x].freed
                         /\ linked[x].next = IF x = last_hh THEN curr_addr
                                             ELSE hdr[x].next
                         /\ linked[x] \in [size : Nat, freed : BOOLEAN,
                                           next : Headers' \cup {Null}]
  <2>1. CASE frist_hh = Null
    BY <2>1 DEF ListComplete
  <2>2. CASE frist_hh # Null
    <3>1. linked = [hdr EXCEPT ![last_hh].next = curr_addr]
      BY <2>2
    <3>2. last_hh \in Headers
      BY <2>2 DEF ListComplete
    <3> HIDE DEF linked
    <3> QED
      BY <1>5, <3>1, <3>2 DEF TypeOK
  <2> QED
    BY <2>1, <2>2
<1>8. /\ frist_hh' = IF frist_hh = Null THEN curr_addr ELSE frist_hh
      /\ last_hh' = curr_addr
      /\ current' = current /\ old' = old
      /\ \/ old = Null /\ pc' = "idle" /\ req' = NoReq /\ next' = Null
         \/ old # Null /\ pc' = "copy" /\ req' = req /\ next' = curr_addr
  BY DEF Extend, Granted
<1> HIDE DEF linked, h0
<1>9. /\ hdr'[curr_addr].size = req
      /\ hdr'[curr_addr].freed = FALSE
      /\ hdr'[curr_addr].next = Null
      /\ hdr'[curr_addr] \in [size : Nat, freed : BOOLEAN,
                              next : Headers' \cup {Null}]
  BY <1>1, <1>5, <1>6
<1>10. TypeOK'
  <2>1. curr_addr \in Nat \ {Null} /\ Headers \subseteq Nat \ {Null}
        /\ {frist_hh, last_hh, current, old, next} \subseteq Headers \cup {Null}
    BY DEF TypeOK
  <2>2. Headers' \subseteq Nat \ {Null}
    BY <1>5, <2>1
  <2>3. \A x \in Headers' : hdr'[x] \in [size : Nat, freed : BOOLEAN,
                                         next : Headers' \cup {Null}]
    <3> SUFFICES ASSUME NEW x \in Headers
                 PROVE  hdr'[x] \in [size : Nat, freed : BOOLEAN,
                                     next : Headers' \cup {Null}]
      BY <1>5, <1>9
    <3> QED
      BY <1>5, <1>7
  <2>4. hdr' \in [Headers' -> [size : Nat, freed : BOOLEAN,
                              next : Headers' \cup {Null}]]
    BY <1>5, <2>3
  <2>5. /\ {frist_hh', last_hh', current', old', next'} \subseteq Headers' \cup {Null}
        /\ pc' \in {"idle", "copy"} /\ req' \in Sizes \cup {NoReq}
    BY <1>1, <1>5, <1>8, <2>1
  <2>6. curr_addr' \in Nat \ {Null}
    BY <1>1, <1>3, <2>1
  <2> QED
    BY <2>2, <2>4, <2>5, <2>6 DEF TypeOK
<1>11. ListComplete'
  <2>1. /\ curr_addr \in Nat /\ curr_addr # Null
        /\ \A x \in Headers : x \in Nat /\ x # Null
    BY DEF TypeOK
  <2>2. (frist_hh' = Null) <=> (Headers' = {})
    BY <1>5, <1>8, <2>1 DEF ListComplete
  <2>3. /\ {frist_hh', last_hh'} \subseteq Headers'
        /\ \A a \in Headers' : frist_hh' <= a /\ a <= last_hh'
    BY <1>2, <1>5, <1>8, <2>1 DEF ListComplete
  <2>4. ASSUME NEW a \in Headers'
        PROVE  IF hdr'[a].next = Null
               THEN a = last_hh'
               ELSE /\ hdr'[a].next \in Headers'
                    /\ a < hdr'[a].next
                    /\ \A b \in Headers' : b <= a \/ hdr'[a].next <= b
    <3>1. CASE a = curr_addr
      BY <1>8, <1>9, <3>1
    <3>2. CASE a \in Headers /\ a = last_hh
      <4>1. hdr'[a].next = curr_addr
        BY <1>5, <1>7, <3>2
      <4>2. \A b \in Headers : b <= a
        BY <3>2 DEF ListComplete
      <4> QED
        BY <1>2, <1>5, <2>1, <3>2, <4>1, <4>2
    <3>3. CASE a \in Headers /\ a # last_hh
      <4>1. hdr'[a].next = hdr[a].next
        BY <1>5, <1>7, <3>3
      <4>2. /\ hdr[a].next \in Headers
            /\ a < hdr[a].next
            /\ \A b \in Headers : b <= a \/ hdr[a].next <= b
        BY <3>3 DEF ListComplete
      <4>3. hdr[a].next <= curr_addr
        BY <1>2, <2>1, <4>2
      <4> QED
        BY <1>5, <2>1, <4>1, <4>2, <4>3
    <3> QED
      BY <1>5, <3>1, <3>2, <3>3
  <2> QED
    BY <2>2, <2>3, <2>4 DEF ListComplete
<1>12. NoOverlap'
  <2> SUFFICES ASSUME NEW a \in Headers'
               PROVE  a + HeaderSize + hdr'[a].size <=
                        IF hdr'[a].next = Null THEN curr_addr' ELSE hdr'[a].next
    BY DEF NoOverlap
  <2>1. CASE a = curr_addr
    BY <1>3, <1>9, <2>1
  <2>2. CASE a \in Headers /\ a = last_hh
    BY <1>5, <1>7, <2>2, HeaderTypes, ListLinks DEF TypeOK
  <2>3. CASE a \in Headers /\ a # last_hh
    <3>1. hdr'[a].next = hdr[a].next /\ hdr'[a].size = hdr[a].size
      BY <1>5, <1>7, <2>3
    <3>2. hdr[a].next # Null
      BY <2>3 DEF ListComplete
    <3> QED
      BY <2>3, <3>1, <3>2 DEF NoOverlap
  <2> QED
    BY <1>5, <2>1, <2>2, <2>3
<1>13. Coalesced'
  <2> SUFFICES ASSUME NEW a \in Headers', hdr'[a].freed, hdr'[a].next # Null
               PROVE  ~hdr'[hdr'[a].next].freed
    BY DEF Coalesced
  <2>1. CASE a \in Headers /\ a = last_hh
    BY <1>5, <1>7, <1>9, <2>1
  <2>2. CASE a \in Headers /\ a # last_hh
    BY <1>1, <1>5, <1>7, <2>2, HeaderTypes DEF Coalesced, ListComplete
  <2> QED
    BY <1>5, <1>9, <2>1, <2>2
<1>14. SearchLoop' /\ MergeLoop'
  BY <1>8 DEF SearchLoop, MergeLoop
<1>15. CallState'
  BY <1>1, <1>5, <1>7, <1>8, <1>9 DEF CallState, TypeOK
<1> QED
  BY <1>10, <1>11, <1>12, <1>13, <1>14, <1>15

LEMMA ExtendFaultInv ==
  ASSUME IInv, ExtendFault
  PROVE  IInv'
<1> USE DEF IInv, ExtendFault, Headers
<1>1. TypeOK' /\ ListComplete'
  BY DEF TypeOK, ListComplete
<1>2. NoOverlap' /\ Coalesced'
  BY DEF NoOverlap, Coalesced
<1>3. SearchLoop' /\ MergeLoop' /\ CallState'
  BY DEF SearchLoop, MergeLoop, CallState
<1> QED
  BY <1>1, <1>2, <1>3

\* Marking a header free, for free() and for the free() of realloc().
LEMMA FreeInv ==
  ASSUME IInv, NEW a \in Headers, free(a),
         pc \in {"idle", "copy"}, req' = NoReq, old' = Null,
         UNCHANGED <<frist_hh, last_hh, curr_addr>>
  PROVE  IInv'
<1> USE DEF IInv, Headers, free
<1>1. frist_hh \in Headers /\ \A b \in Headers : frist_hh <= b
  BY ListLinks
<1>2. /\ Headers' = Headers
      /\ hdr'[a].freed
      /\ \A x \in Headers : /\ hdr'[x].size = hdr[x].size
                            /\ hdr'[x].next = hdr[x].next
                            /\ x # a => hdr'[x] = hdr[x]
  BY DEF TypeOK
<1>3. TypeOK'
  BY <1>1 DEF TypeOK
<1>4. ListComplete'
  BY <1>2 DEF ListComplete
<1>5. NoOverlap'
  BY <1>2 DEF NoOverlap
<1>6. Coalesced' /\ SearchLoop' /\ CallState'
  BY DEF Coalesced, SearchLoop, CallState
<1>7. MergeLoop'
  <2>1. \A b \in Headers : /\ hdr'[b].next # frist_hh
                           /\ ~(hdr'[b].next < frist_hh) \/ hdr'[b].next = Null
    <3> SUFFICES ASSUME NEW b \in Headers, hdr[b].next # Null
                 PROVE  ~(hdr[b].next <= frist_hh)
      BY <1>1, <1>2, HeaderTypes
    <3>1. hdr[b].next \in Headers /\ b < hdr[b].next /\ frist_hh <= b
      BY <1>1, HeaderTypes, ListLinks
    <3> QED
      BY <1>1, <3>1, HeaderTypes
  <2> QED
    BY <1>1, <1>2, <2>1 DEF MergeLoop
<1> QED
  BY <1>3, <1>4, <1>5, <1>6, <1>7

\* One iteration of the merge that leaves the list as it is: cur, the new
\* current, is next if next is free and Null if not.
LEMMA WalkInv ==
  ASSUME IInv, pc = "merge", current = Null \/ ~hdr[next].freed,
         Advance(hdr[next].next, IF hdr[next].freed THEN next ELSE Null),
         UNCHANGED <<hdr, frist_hh, curr_addr, req, old>>
  PROVE  IInv'
<1> DEFINE cur == IF hdr[next].freed THEN next ELSE Null
<1> USE DEF IInv, Headers
<1>1. /\ next \in Headers /\ next # Null
      /\ last_hh \in Headers
      /\ old = Null /\ req = NoReq
  BY HeaderTypes, ListLinks DEF MergeLoop, CallState
\* Behind next everything is merged, whatever next is.
<1>2. \A a \in Headers :
        hdr[a].freed /\ hdr[a].next # Null /\ hdr[a].next <= next =>
          ~hdr[hdr[a].next].freed
  <2> SUFFICES ASSUME NEW a \in Headers,
                      hdr[a].freed, hdr[a].next # Null, hdr[a].next <= next
               PROVE  ~hdr[hdr[a].next].freed
    OBVIOUS
  <2>1. CASE hdr[a].next = next
    BY <1>1, <2>1 DEF MergeLoop
  <2>2. CASE hdr[a].next # next
    BY <1>1, <2>2, HeaderTypes DEF MergeLoop
  <2> QED
    BY <2>1, <2>2
<1>3. CASE hdr[next].next = Null
  <2>1. next = last_hh
    BY <1>1, <1>3, ListLinks
  <2>2. /\ last_hh' = last_hh /\ pc' = "idle"
        /\ next' = Null /\ current' = Null
    BY <1>3, <2>1 DEF Advance
  <2>3. TypeOK' /\ ListComplete'
    BY <1>1, <2>2 DEF TypeOK, ListComplete
  <2>4. NoOverlap'
    BY DEF NoOverlap
  <2>5. Coalesced'
    <3> SUFFICES ASSUME NEW a \in Headers, hdr[a].freed, hdr[a].next # Null
                 PROVE  ~hdr[hdr[a].next].freed
      BY DEF Coalesced
    <3>1. hdr[a].next <= next
      BY <2>1, HeaderTypes, ListLinks
    <3> QED
      BY <1>2, <3>1
  <2>6. SearchLoop' /\ MergeLoop' /\ CallState'
    BY <1>1, <2>2 DEF SearchLoop, MergeLoop, CallState
  <2> QED
    BY <2>3, <2>4, <2>5, <2>6
<1>4. CASE hdr[next].next # Null
  <2>1. /\ next' = hdr[next].next /\ current' = cur
        /\ pc' = pc /\ last_hh' = last_hh
    BY <1>4 DEF Advance
  <2>2. next' \in Headers
    BY <1>1, <1>4, <2>1, HeaderTypes
  <2>3. TypeOK' /\ ListComplete'
    BY <1>1, <2>1, <2>2 DEF TypeOK, ListComplete
  <2>4. NoOverlap' /\ Coalesced' /\ SearchLoop' /\ CallState'
    BY <2>1 DEF NoOverlap, Coalesced, SearchLoop, CallState
  <2>5. current' # Null => hdr[current'].freed /\ hdr[current'].next = next'
    BY <1>1, <2>1
  <2>6. \A a \in Headers : hdr[a].next = next' => a = next
    <3> SUFFICES ASSUME NEW a \in Headers, hdr[a].next = next', a # next
                 PROVE  FALSE
      OBVIOUS
    <3>1. a < next' /\ next < next'
      BY <1>1, <1>4, <2>1, HeaderTypes, ListLinks
    <3>2. (next <= a \/ next' <= next) /\ (a <= next \/ next' <= a)
      BY <1>1, <1>4, <2>1, HeaderTypes, ListLinks
    <3> QED
      BY <1>1, <2>2, <3>1, <3>2, HeaderTypes
  <2>7. \A a \in Headers :
          hdr[a].next # Null /\ hdr[a].next < next' => hdr[a].next <= next
    BY <1>1, <1>4, <2>1, <2>2, HeaderTypes, ListLinks
  <2>8. MergeLoop'
    BY <1>1, <1>2, <2>1, <2>2, <2>5, <2>6, <2>7 DEF MergeLoop
  <2> QED
    BY <2>3, <2>4, <2>8
<1> QED
  BY <1>3, <1>4

\* One iteration of the merge that takes the header next out of the list.
LEMMA AbsorbInv ==
  ASSUME IInv, MergeAbsorb
  PROVE  IInv'
<1> DEFINE nxt == hdr[next].next
<1> USE DEF IInv, Headers
<1>1. /\ pc = "merge" /\ next \in Headers /\ current \in Headers
      /\ hdr[next].freed /\ hdr[current].freed
      /\ hdr[current].next = next
      /\ next # Null /\ current # Null
      /\ old = Null /\ req = NoReq
      /\ frist_hh' = frist_hh /\ curr_addr' = curr_addr
      /\ req' = req /\ old' = old
  BY HeaderTypes DEF MergeLoop, CallState, MergeAbsorb, TypeOK
<1>2. /\ current < next
      /\ current + HeaderSize + hdr[current].size <= next
      /\ \A b \in Headers : b <= current \/ next <= b
  BY <1>1, ListLinks
<1>3. /\ current \in Nat /\ next \in Nat
      /\ hdr[current].size \in Nat /\ hdr[next].size \in Nat
      /\ nxt \in Headers \cup {Null}
  BY <1>1, HeaderTypes
<1>4. nxt # Null => nxt \in Headers /\ next < nxt
  BY <1>1, HeaderTypes, ListLinks
<1>5. /\ Headers' = Headers \ {next}
      /\ hdr' = [x \in Headers' |-> hdr'[x]]
      /\ \A x \in Headers' : x # current => hdr'[x] = hdr[x]
      /\ hdr'[current] = [size  |-> hdr[current].size + hdr[next].size + HeaderSize,
                          freed |-> hdr[current].freed,
                          next  |-> nxt]
  <2>1. hdr' = Absorb /\ current # next
    BY <1>2, <1>3 DEF MergeAbsorb
  <2> QED
    BY <1>1, <2>1 DEF Absorb
<1>6. /\ current \in Headers'
      /\ hdr'[current].size = hdr[current].size + hdr[next].size + HeaderSize
      /\ hdr'[current].next = nxt
      /\ hdr'[current].freed
      /\ hdr'[current] \in [size : Nat, freed : BOOLEAN, next : Headers \cup {Null}]
  <2>1. hdr[current].freed \in BOOLEAN /\ current \in Headers'
    BY <1>1, <1>2, <1>3, <1>5, HeaderTypes
  <2> QED
    BY <1>1, <1>3, <1>5, <2>1
<1>7. \A x \in Headers' : x # current => hdr'[x].next # next
  <2> SUFFICES ASSUME NEW x \in Headers, x # next, x # current, hdr[x].next = next
               PROVE  FALSE
    BY <1>5
  <2>1. x # last_hh /\ x < next /\ \A b \in Headers : b <= x \/ next <= b
    BY <1>1, ListLinks
  <2>2. (current <= x \/ next <= current) /\ (x <= current \/ next <= x)
    BY <1>1, <1>2, <2>1
  <2> QED
    BY <1>2, <1>3, <2>1, <2>2, HeaderTypes
<1>8. frist_hh \in Headers' /\ last_hh \in Headers /\ nxt # next
  BY <1>1, <1>2, <1>3, <1>4, <1>5, HeaderTypes, ListLinks
<1>9. /\ nxt # Null => /\ next' = nxt /\ current' = current
                       /\ pc' = pc /\ last_hh' = last_hh
      /\ nxt = Null => /\ next' = Null /\ current' = Null
                       /\ pc' = "idle" /\ last_hh' = current
  BY <1>1 DEF MergeAbsorb, Advance
<1>10. nxt = Null <=> next = last_hh
  BY <1>1, ListLinks
<1> HIDE DEF nxt
<1>11. TypeOK'
  <2>1. \A x \in Headers' : hdr'[x] \in
          [size : Nat, freed : BOOLEAN, next : Headers' \cup {Null}]
    <3>1. \A x \in Headers' : x # current => hdr[x] \in
            [size : Nat, freed : BOOLEAN, next : Headers \cup {Null}]
      BY <1>5, HeaderTypes
    <3>2. \A x \in Headers' : hdr'[x].next # next
      BY <1>6, <1>7, <1>8
    <3> QED
      BY <1>5, <1>6, <3>1, <3>2
  <2>2. hdr' \in [Headers' -> [size : Nat, freed : BOOLEAN, next : Headers' \cup {Null}]]
    BY <1>5, <2>1
  <2>3. {frist_hh, last_hh, current, old, next}' \subseteq Headers' \cup {Null}
    BY <1>1, <1>4, <1>5, <1>6, <1>8, <1>9, <1>10
  <2> QED
    BY <1>1, <1>5, <1>9, <2>2, <2>3 DEF TypeOK
<1>12. ListComplete'
  <2>1. last_hh' \in Headers' /\ \A a \in Headers' : a <= last_hh'
    <3>1. CASE nxt = Null
      BY <1>2, <1>3, <1>5, <1>6, <1>9, <1>10, <3>1, HeaderTypes, ListLinks
    <3>2. CASE nxt # Null
      BY <1>5, <1>8, <1>9, <1>10, <3>2, ListLinks
    <3> QED
      BY <3>1, <3>2
  <2>2. frist_hh' # Null /\ frist_hh' \in Headers' /\ \A a \in Headers' : frist_hh' <= a
    BY <1>1, <1>5, <1>8, HeaderTypes, ListLinks
  <2>3. ASSUME NEW a \in Headers', hdr'[a].next = Null
        PROVE  a = last_hh'
    <3>1. CASE a = current
      BY <1>6, <1>9, <2>3, <3>1
    <3>2. CASE a # current
      BY <1>5, <1>9, <1>10, <2>3, <3>2, ListLinks
    <3> QED
      BY <3>1, <3>2
  <2>4. ASSUME NEW a \in Headers', hdr'[a].next # Null
        PROVE  /\ hdr'[a].next \in Headers'
               /\ a < hdr'[a].next
               /\ \A b \in Headers' : b <= a \/ hdr'[a].next <= b
    <3>1. CASE a = current
      <4>1. \A b \in Headers : b <= next \/ nxt <= b
        BY <1>1, <1>6, <2>4, <3>1, HeaderTypes, ListLinks DEF nxt
      <4>2. \A b \in Headers' : b <= current \/ nxt <= b
        BY <1>2, <1>3, <1>5, <4>1, HeaderTypes
      <4> QED
        BY <1>2, <1>3, <1>4, <1>5, <1>6, <1>8, <2>4, <3>1, <4>2, HeaderTypes
    <3>2. CASE a # current
      <4>1. hdr'[a] = hdr[a] /\ a \in Headers /\ hdr[a].next # next
        BY <1>5, <1>7, <3>2
      <4>2. /\ hdr[a].next \in Headers /\ a < hdr[a].next
            /\ \A b \in Headers : b <= a \/ hdr[a].next <= b
        BY <2>4, <4>1, HeaderTypes, ListLinks
      <4> QED
        BY <1>5, <4>1, <4>2
    <3> QED
      BY <3>1, <3>2
  <2> QED
    BY <2>1, <2>2, <2>3, <2>4 DEF ListComplete
<1>13. NoOverlap'
  <2> SUFFICES ASSUME NEW a \in Headers'
               PROVE  a + HeaderSize + hdr'[a].size <=
                        IF hdr'[a].next = Null THEN curr_addr ELSE hdr'[a].next
    BY <1>1 DEF NoOverlap
  <2>1. CASE a = current
    <3>1. next + HeaderSize + hdr[next].size <=
            IF nxt = Null THEN curr_addr ELSE nxt
      BY <1>1 DEF NoOverlap, nxt
    <3>2. curr_addr \in Nat /\ nxt \in Nat
      BY <1>3, HeaderTypes DEF TypeOK
    <3> QED
      BY <1>2, <1>3, <1>6, <2>1, <3>1, <3>2
  <2>2. CASE a # current
    BY <1>5, <2>2 DEF NoOverlap
  <2> QED
    BY <2>1, <2>2
\* Neighbours in front of next' are merged, also the new ones of current.
<1>14. \A a \in Headers' :
         hdr'[a].freed /\ hdr'[a].next # Null
           /\ (nxt = Null \/ hdr'[a].next < nxt) =>
             ~hdr'[hdr'[a].next].freed
  <2> SUFFICES ASSUME NEW a \in Headers', hdr'[a].freed, hdr'[a].next # Null,
                      nxt = Null \/ hdr'[a].next < nxt
               PROVE  ~hdr'[hdr'[a].next].freed
    OBVIOUS
  <2>1. a # current
    BY <1>3, <1>6, HeaderTypes
  <2>2. hdr'[a] = hdr[a] /\ a \in Headers /\ hdr[a].next # next
    BY <1>5, <1>7, <2>1
  <2>3. hdr[a].next \in Headers /\ a < hdr[a].next /\ a # next
    BY <1>5, <2>2, HeaderTypes, ListLinks
  <2>4. hdr[a].next < next
    <3>1. nxt # Null => \A b \in Headers : b <= next \/ nxt <= b
      BY <1>1, ListLinks DEF nxt
    <3>2. hdr[a].next \in Nat /\ (nxt # Null => nxt \in Nat)
      BY <1>3, <2>3, HeaderTypes
    <3>3. nxt = Null => hdr[a].next <= next
      BY <1>10, <2>3, ListLinks
    <3>4. nxt # Null => hdr[a].next <= next
      BY <2>2, <2>3, <3>1, <3>2
    <3> QED
      BY <1>3, <2>2, <3>2, <3>3, <3>4
  <2>5. ~hdr[hdr[a].next].freed
    BY <1>1, <2>2, <2>4 DEF MergeLoop
  <2>6. hdr[a].next # current /\ hdr[a].next \in Headers'
    BY <1>1, <1>5, <2>2, <2>3, <2>5
  <2> QED
    BY <1>5, <2>2, <2>5, <2>6
<1>15. Coalesced'
  BY <1>1, <1>9, <1>14 DEF Coalesced
<1>16. SearchLoop' /\ CallState'
  BY <1>1, <1>9 DEF SearchLoop, CallState
<1>17. MergeLoop'
  BY <1>1, <1>4, <1>5, <1>6, <1>8, <1>9, <1>14 DEF MergeLoop
<1> QED
  BY <1>11, <1>12, <1>13, <1>15, <1>16, <1>17

LEMMA ReallocInv ==
  ASSUME IInv, NEW a \in Headers, NEW n \in Sizes, Realloc(a, n)
  PROVE  IInv'
<1> USE DEF IInv, Realloc, malloc, Headers
<1>1. frist_hh # Null /\ frist_hh \in Headers
  BY HeaderTypes, ListLinks
<1>2. TypeOK' /\ ListComplete'
  BY <1>1 DEF TypeOK, ListComplete
<1>3. NoOverlap' /\ Coalesced'
  BY DEF NoOverlap, Coalesced
<1>4. SearchLoop'
  <2>1. \A b \in Headers : ~(b < frist_hh)
    BY <1>1, HeaderTypes, ListLinks
  <2> QED
    BY <1>1, <2>1 DEF SearchLoop
<1>5. MergeLoop' /\ CallState'
  BY <1>1 DEF MergeLoop, CallState
<1> QED
  BY <1>2, <1>3, <1>4, <1>5

LEMMA CopyFaultInv ==
  ASSUME IInv, CopyFault
  PROVE  IInv'
<1> USE DEF IInv, CopyFault, Headers
<1>1. TypeOK' /\ ListComplete'
  BY DEF TypeOK, ListComplete
<1>2. NoOverlap' /\ Coalesced'
  BY DEF NoOverlap, Coalesced
<1>3. SearchLoop' /\ MergeLoop' /\ CallState'
  BY DEF SearchLoop, MergeLoop, CallState
<1> QED
  BY <1>1, <1>2, <1>3

LEMMA StutterInv ==
  ASSUME IInv, UNCHANGED vars
  PROVE  IInv'
<1> USE DEF IInv, vars, Headers
<1>1. TypeOK' /\ ListComplete'
  BY DEF TypeOK, ListComplete
<1>2. NoOverlap' /\ Coalesced'
  BY DEF NoOverlap, Coalesced
<1>3. SearchLoop' /\ MergeLoop' /\ CallState'
  BY DEF SearchLoop, MergeLoop, CallState, Fits
<1> QED
  BY <1>1, <1>2, <1>3

LEMMA NextInv ==
  ASSUME IInv, [Next]_vars
  PROVE  IInv'
<1>1. ASSUME NEW n \in Sizes, Malloc(n)
      PROVE  IInv'
  BY <1>1, MallocInv
<1>2. ASSUME NEW a \in Headers, Free(a)
      PROVE  IInv'
  <2>1. /\ free(a) /\ pc \in {"idle", "copy"} /\ req' = NoReq /\ old' = Null
        /\ UNCHANGED <<frist_hh, last_hh, curr_addr>>
    BY <1>2 DEF Free, IInv, CallState
  <2> QED
    BY <2>1, FreeInv
<1>3. ASSUME NEW a \in Headers, NEW n \in Sizes, Realloc(a, n)
      PROVE  IInv'
  BY <1>3, ReallocInv
<1>4. CASE SearchSkip
  BY <1>4, SearchSkipInv
<1>5. CASE SearchTake
  BY <1>5, SearchTakeInv
<1>6. CASE SearchSplit
  BY <1>6, SplitInv
<1>7. CASE SplitFault
  BY <1>7, SplitFaultInv
<1>8. CASE Extend
  BY <1>8, ExtendInv
<1>9. CASE ExtendFault
  BY <1>9, ExtendFaultInv
<1>10. CASE MergeUsed
  BY <1>10, WalkInv DEF MergeUsed
<1>11. CASE MergeFirst
  BY <1>11, WalkInv DEF MergeFirst
<1>12. CASE MergeAbsorb
  BY <1>12, AbsorbInv
<1>13. CASE CopyAndFree
  <2>1. /\ free(old) /\ pc \in {"idle", "copy"} /\ req' = NoReq /\ old' = Null
        /\ UNCHANGED <<frist_hh, last_hh, curr_addr>>
        /\ old \in Headers
    BY <1>13 DEF CopyAndFree, IInv, CallState, TypeOK
  <2> QED
    BY <2>1, FreeInv
<1>14. CASE CopyFault
  BY <1>14, CopyFaultInv
<1>15. CASE UNCHANGED vars
  BY <1>15, StutterInv
<1> QED
  BY <1>1, <1>2, <1>3, <1>4, <1>5, <1>6, <1>7, <1>8, <1>9, <1>10, <1>11, <1>12,
     <1>13, <1>14, <1>15 DEF Next, Internal, Halted

\* The invariant of the heap, with what its two loops know at every iteration.
THEOREM Invariance == Spec => []IInv
  BY InitInv, NextInv, PTL DEF Spec

-----------------------------------------------------------------------------

\* The variables keep their types: no call leaves a cursor of kheap.c on memory
\* that is not a header of the list.
THEOREM TypeCorrect == Spec => []TypeOK
<1>1. IInv => TypeOK
  BY DEF IInv
<1> QED
  BY Invariance, <1>1, PTL

\* The header list of kheap.c is one chain through every header in address
\* order, from frist_hh to last_hh, and no block reaches into another header or
\* past curr_addr, however blocks are split, merged and grown.
THEOREM HeapIsTiled == Spec => []HeapTiled
<1>1. IInv => HeapTiled
  BY DEF IInv, HeapTiled
<1> QED
  BY Invariance, <1>1, PTL

\* One pass of _merge_free_blocks after each free() leaves no two neighbouring
\* free blocks.
THEOREM FreeBlocksAreMerged == Spec => []Coalesced
<1>1. IInv => Coalesced
  BY DEF IInv
<1> QED
  BY Invariance, <1>1, PTL

\* The two together, which the run of MCKHeap checks in one.
THEOREM ListStaysInOrder == Spec => []ListInOrder
BY HeapIsTiled, FreeBlocksAreMerged, PTL DEF ListInOrder

\* malloc() takes fresh memory at curr_addr only when no free block of the list
\* is as long as the request.
THEOREM GrowthIsNeeded == Spec => GrowsOnlyWhenFull
<1>1. IInv /\ [Next]_vars =>
        [curr_addr' # curr_addr =>
           \A a \in Headers : hdr[a].freed => hdr[a].size < req]_vars
  <2> SUFFICES ASSUME IInv, Next, curr_addr' # curr_addr, NEW a \in Headers,
                      hdr[a].freed
               PROVE  hdr[a].size < req
    OBVIOUS
  <2>1. Extend
    BY DEF Next, Internal, Halted, Malloc, Free, Realloc, SearchSkip, SearchTake,
           SearchSplit, SplitFault, ExtendFault, MergeUsed, MergeFirst,
           MergeAbsorb, CopyAndFree, CopyFault, vars
  <2>2. ~(hdr[a].size >= req) /\ hdr[a].size \in Nat /\ req \in Nat
    BY <2>1, HeaderTypes DEF IInv, SearchLoop, Extend, Fits
  <2> QED
    BY <2>2
<1> QED
  BY Invariance, <1>1, PTL DEF Spec, GrowsOnlyWhenFull

-----------------------------------------------------------------------------
(* KHeap implements Allocator *)

\* No step that keeps the blocks in use and the request is seen by callers.
LEMMA Hidden ==
  ASSUME LiveBlocks' = LiveBlocks, Want' = Want
  PROVE  UNCHANGED Abs!vars
  BY DEF Abs!vars

\* Handing out the block of header h, when the headers in use keep their size.
LEMMA GrantStep ==
  ASSUME IInv, NEW h \in Nat, NEW n \in Nat,
         Want = req, req \in Nat, Want' = NoReq,
         Live' = Live \cup {h}, h \notin Live,
         \A x \in Live : hdr'[x].size = hdr[x].size,
         hdr'[h].size = n, n >= req,
         \A x \in Live : \/ x + HeaderSize + hdr[x].size <= h
                        \/ h + HeaderSize + n <= x
  PROVE  Abs!Grant
<1> DEFINE b == [base |-> h + HeaderSize, len |-> n]
           blk(x) == [base |-> x + HeaderSize, len |-> hdr[x].size]
<1>1. LiveBlocks' = LiveBlocks \cup {b}
  BY DEF LiveBlocks
<1>2. \A x \in Live : x \in Nat /\ hdr[x].size \in Nat
  BY HeaderTypes DEF IInv, Live
<1>3. \A c \in LiveBlocks : Abs!Disjoint(b, c)
  <2> SUFFICES ASSUME NEW x \in Live
               PROVE  Abs!Disjoint(b, blk(x))
    BY DEF LiveBlocks
  <2>1. x # h
    OBVIOUS
  <2> QED
    BY <1>2, <2>1 DEF Abs!Disjoint
<1>4. b \notin LiveBlocks
  <2> SUFFICES ASSUME NEW x \in Live, b = blk(x)
               PROVE  FALSE
    BY DEF LiveBlocks
  <2>1. h + HeaderSize = x + HeaderSize
    OBVIOUS
  <2> QED
    BY <1>2, <2>1
<1>5. Want # -1
  OBVIOUS
<1> HIDE DEF b
<1>6. b \in LiveBlocks' \ LiveBlocks
  BY <1>1, <1>4
<1>7. b.len >= Want
  BY DEF b
<1> QED
  BY <1>1, <1>3, <1>5, <1>6, <1>7 DEF Abs!Grant, Abs!NoReq

\* Taking back the block of header h.
LEMMA ReleaseStep ==
  ASSUME IInv, NEW h \in Live,
         Want = NoReq, Want' = NoReq,
         Live' = Live \ {h},
         \A x \in Live : hdr'[x].size = hdr[x].size
  PROVE  Abs!Release
<1> DEFINE b == [base |-> h + HeaderSize, len |-> hdr[h].size]
<1>1. \A x \in Live : x \in Nat
  BY HeaderTypes DEF IInv, Live
<1>2. b \in LiveBlocks
  BY DEF LiveBlocks
<1>3. \A x \in Live : [base |-> x + HeaderSize, len |-> hdr[x].size] = b <=> x = h
  BY <1>1
<1>4. LiveBlocks' = LiveBlocks \ {b}
  <2>1. LiveBlocks' = {[base |-> a + HeaderSize, len |-> hdr[a].size] : a \in Live \ {h}}
    BY DEF LiveBlocks
  <2> HIDE DEF b
  <2> QED
    BY <1>3, <2>1 DEF LiveBlocks
<1> QED
  BY <1>2, <1>4 DEF Abs!Release, Abs!NoReq

\* Serving a request from the list, whole or split.
LEMMA TakeGrants ==
  ASSUME IInv, SearchTake \/ SearchSplit
  PROVE  Abs!Grant
<1> USE DEF IInv
<1>1. /\ pc = "search" /\ next \in Headers /\ req \in Nat
      /\ hdr[next].freed /\ hdr[next].size >= req
      /\ next \in Nat /\ hdr[next].size \in Nat
      /\ Granted(next)
  BY HeaderTypes DEF SearchTake, SearchSplit, SearchLoop, Fits
<1>2. pc' \in {"idle", "copy"} /\ Want = req /\ Want' = NoReq
  BY <1>1 DEF Granted, Want
<1>3. next \notin Live /\ Live \subseteq Headers
  BY <1>1 DEF Live
<1>4. \A x \in Live : \/ x + HeaderSize + hdr[x].size <= next
                      \/ next + HeaderSize + hdr[next].size <= x
  <2> SUFFICES ASSUME NEW x \in Live
               PROVE  \/ x + HeaderSize + hdr[x].size <= next
                      \/ next + HeaderSize + hdr[next].size <= x
    OBVIOUS
  <2>1. x \in Headers /\ x # next /\ x \in Nat
    BY <1>3, HeaderTypes
  <2>2. x < next \/ next < x
    BY <1>1, <2>1
  <2> QED
    BY <1>1, <2>1, <2>2, Apart
<1>5. CASE SearchTake
  <2>1. /\ Headers' = Headers
        /\ hdr'[next].size = hdr[next].size /\ hdr'[next].freed = FALSE
        /\ \A x \in Headers : x # next => hdr'[x] = hdr[x]
    BY <1>1, <1>5 DEF SearchTake, Taken, TypeOK, Headers
  <2>2. Live' = Live \cup {next}
    BY <1>1, <1>2, <2>1 DEF Live
  <2>3. \A x \in Live : hdr'[x].size = hdr[x].size
    BY <1>3, <2>1
  <2> QED
    BY <1>1, <1>2, <1>3, <1>4, <2>1, <2>2, <2>3, GrantStep
<1>6. CASE SearchSplit
  <2>1. /\ SplitAt \in Nat /\ next < SplitAt
        /\ SplitAt < next + HeaderSize + hdr[next].size
    BY <1>1, <1>6 DEF SearchSplit, SplitAt, Remainder
  <2>2. SplitAt \notin Headers
    <3> SUFFICES ASSUME SplitAt \in Headers
                 PROVE  FALSE
      OBVIOUS
    <3>1. next + HeaderSize + hdr[next].size <= SplitAt
      BY <1>1, <2>1, Apart
    <3> QED
      BY <1>1, <2>1, <3>1
  <2>3. /\ Headers' = Headers \cup {SplitAt}
        /\ hdr'[SplitAt].freed = TRUE
        /\ hdr'[next].size = req /\ hdr'[next].freed = FALSE
        /\ \A x \in Headers : x # next => hdr'[x] = hdr[x]
    <3> DEFINE h0 == _new_header(req, SplitAt)
               h1 == [size |-> Remainder, freed |-> TRUE, next |-> hdr[next].next]
    <3>1. hdr' = Put(Put(hdr, next, h0), SplitAt, h1)
      BY <1>6 DEF SearchSplit
    <3>2. h1.freed = TRUE /\ h0.size = req /\ h0.freed = FALSE
      BY DEF _new_header
    <3> HIDE DEF h0, h1
    <3> QED
      BY <1>1, <2>1, <2>2, <3>1, <3>2 DEF Put, Headers
  <2>4. Live' = Live \cup {next}
    BY <1>1, <1>2, <2>2, <2>3 DEF Live
  <2>5. \A x \in Live : hdr'[x].size = hdr[x].size
    BY <1>3, <2>3
  <2>6. \A x \in Live : \/ x + HeaderSize + hdr[x].size <= next
                        \/ next + HeaderSize + req <= x
    <3> SUFFICES ASSUME NEW x \in Live
                 PROVE  \/ x + HeaderSize + hdr[x].size <= next
                        \/ next + HeaderSize + req <= x
      OBVIOUS
    <3>1. x \in Headers /\ x \in Nat
      BY <1>3, HeaderTypes
    <3>2. \/ x + HeaderSize + hdr[x].size <= next
          \/ next + HeaderSize + hdr[next].size <= x
      BY <1>4
    <3>3. next + HeaderSize + req <= next + HeaderSize + hdr[next].size
      BY <1>1
    <3> QED
      BY <1>1, <3>1, <3>2, <3>3
  <2> QED
    BY <1>1, <1>2, <1>3, <2>3, <2>4, <2>5, <2>6, GrantStep
<1> QED
  BY <1>5, <1>6

\* Serving a request with a fresh block.
LEMMA ExtendGrants ==
  ASSUME IInv, Extend
  PROVE  Abs!Grant
<1> USE DEF IInv
<1>1. pc = "extend" /\ req \in Nat /\ curr_addr \in Nat /\ Granted(curr_addr)
  BY DEF Extend, SearchLoop, TypeOK
<1>2. pc' \in {"idle", "copy"} /\ Want = req /\ Want' = NoReq
  BY <1>1 DEF Granted, Want
<1>3. curr_addr \notin Headers /\ Live \subseteq Headers
  <2>1. \A x \in Headers : x < curr_addr
    BY ListLinks
  <2> QED
    BY <1>1, <2>1 DEF Live
<1>4. /\ Headers' = Headers \cup {curr_addr}
      /\ hdr'[curr_addr].size = req /\ hdr'[curr_addr].freed = FALSE
      /\ \A x \in Headers : /\ hdr'[x].size = hdr[x].size
                            /\ hdr'[x].freed = hdr[x].freed
  <2> DEFINE linked == IF frist_hh = Null THEN hdr
                       ELSE [hdr EXCEPT ![last_hh].next = curr_addr]
             h0 == _new_header(req, Null)
  <2>1. hdr' = Put(linked, curr_addr, h0)
    BY DEF Extend
  <2>2. h0.size = req /\ h0.freed = FALSE
    BY DEF _new_header
  <2>3. /\ DOMAIN linked = Headers
        /\ \A x \in Headers : /\ linked[x].size = hdr[x].size
                              /\ linked[x].freed = hdr[x].freed
    BY DEF Headers, TypeOK
  <2> HIDE DEF linked, h0
  <2> QED
    BY <1>3, <2>1, <2>2, <2>3 DEF Put, Headers
<1>5. Live' = Live \cup {curr_addr}
  BY <1>1, <1>2, <1>3, <1>4 DEF Live
<1>6. \A x \in Live : hdr'[x].size = hdr[x].size
  BY <1>3, <1>4
<1>7. \A x \in Live : x + HeaderSize + hdr[x].size <= curr_addr
  <2> SUFFICES ASSUME NEW x \in Headers
               PROVE  x + HeaderSize + hdr[x].size <= curr_addr
    BY <1>3
  <2>1. CASE x = last_hh
    BY <2>1, ListLinks
  <2>2. CASE x # last_hh
    <3>1. /\ hdr[x].next \in Headers
          /\ x + HeaderSize + hdr[x].size <= hdr[x].next
      BY <2>2, ListLinks
    <3>2. hdr[x].next < curr_addr /\ hdr[x].next \in Nat
      BY <3>1, ListLinks, HeaderTypes
    <3>3. x \in Nat /\ hdr[x].size \in Nat
      BY HeaderTypes
    <3> QED
      BY <1>1, <3>1, <3>2, <3>3
  <2> QED
    BY <2>1, <2>2
<1> QED
  BY <1>1, <1>2, <1>3, <1>4, <1>5, <1>6, <1>7, GrantStep

\* free(): a block in use is released; one that is free already is not seen.
LEMMA FreeReleases ==
  ASSUME IInv, NEW a \in Headers, free(a), pc \in {"idle", "copy"}, req' = NoReq
  PROVE  Abs!Release \/ UNCHANGED Abs!vars
<1> USE DEF IInv
<1>1. /\ Headers' = Headers
      /\ hdr'[a].freed /\ hdr'[a].size = hdr[a].size
      /\ \A x \in Headers : x # a => hdr'[x] = hdr[x]
  BY DEF free, TypeOK, Headers
<1>2. pc' = "merge" /\ Want = NoReq /\ Want' = NoReq
  BY DEF free, Want, CallState
<1>3. Live' = Live \ {a}
  BY <1>1, <1>2 DEF Live
<1>4. \A x \in Headers : hdr'[x].size = hdr[x].size
  BY <1>1
<1>5. CASE hdr[a].freed
  <2>1. Live' = Live /\ Live \subseteq Headers
    BY <1>3, <1>5 DEF Live
  <2>2. LiveBlocks' = LiveBlocks
    BY <1>4, <2>1 DEF LiveBlocks
  <2> QED
    BY <1>2, <2>2, Hidden
<1>6. CASE ~hdr[a].freed
  <2>1. a \in Live /\ Live \subseteq Headers
    BY <1>6 DEF Live
  <2> QED
    BY <1>2, <1>3, <1>4, <2>1, ReleaseStep
<1> QED
  BY <1>5, <1>6

\* The steps that callers do not see: the searches, the merges, the faults.
LEMMA InternalHidden ==
  ASSUME IInv,
         \/ SearchSkip \/ SplitFault \/ ExtendFault \/ CopyFault
         \/ MergeUsed \/ MergeFirst \/ MergeAbsorb \/ UNCHANGED vars
  PROVE  UNCHANGED Abs!vars
<1> USE DEF IInv
<1>1. ASSUME Headers' = Headers, Live' = Live,
             \A x \in Headers : hdr'[x].size = hdr[x].size
      PROVE  LiveBlocks' = LiveBlocks
  <2>1. Live \subseteq Headers
    BY DEF Live
  <2> QED
    BY <1>1, <2>1 DEF LiveBlocks
<1>2. CASE SearchSkip
  <2>1. Live' = Live /\ Headers' = Headers
    BY <1>2 DEF SearchSkip, Live, Headers
  <2>2. Want' = Want
    BY <1>2 DEF SearchSkip, Want
  <2> QED
    BY <1>1, <1>2, <2>1, <2>2, Hidden DEF SearchSkip
<1>3. CASE SplitFault
  <2>1. /\ next \in Headers /\ hdr[next].freed /\ pc = "search" /\ req # NoReq
    BY <1>3 DEF SplitFault, SearchLoop, Fits
  <2>2. /\ Headers' = Headers
        /\ \A x \in Headers : /\ hdr'[x].size = hdr[x].size
                              /\ x # next => hdr'[x].freed = hdr[x].freed
    BY <1>3 DEF SplitFault, Taken, TypeOK, Headers
  <2>3. Live' = Live
    BY <1>3, <2>1, <2>2 DEF SplitFault, Live
  <2>4. Want' = Want
    BY <1>3 DEF SplitFault, Want
  <2> QED
    BY <1>1, <2>2, <2>3, <2>4, Hidden
<1>4. CASE ExtendFault
  <2>1. next = Null /\ Headers' = Headers /\ Null \notin Headers
    BY <1>4 DEF ExtendFault, SearchLoop, TypeOK, Headers
  <2>2. Live' = Live
    BY <1>4, <2>1 DEF ExtendFault, Live
  <2>3. Want' = Want
    BY <1>4 DEF ExtendFault, Want
  <2> QED
    BY <1>1, <1>4, <2>1, <2>2, <2>3, Hidden DEF ExtendFault
<1>5. CASE CopyFault
  <2>1. Live' = Live /\ Headers' = Headers
    BY <1>5 DEF CopyFault, Live, Headers
  <2>2. Want' = Want
    BY <1>5 DEF CopyFault, Want
  <2> QED
    BY <1>1, <1>5, <2>1, <2>2, Hidden DEF CopyFault
<1>6. CASE MergeUsed \/ MergeFirst
  <2>1. /\ pc = "merge" /\ pc' \in {"merge", "idle"} /\ hdr' = hdr
        /\ req' = req
    BY <1>6 DEF MergeUsed, MergeFirst, Advance
  <2>2. Live' = Live /\ Headers' = Headers
    BY <2>1 DEF Live, Headers
  <2>3. Want' = Want
    BY <2>1 DEF Want
  <2> QED
    BY <1>1, <2>1, <2>2, <2>3, Hidden
<1>7. CASE MergeAbsorb
  <2>1. /\ pc = "merge" /\ pc' \in {"merge", "idle"} /\ hdr' = Absorb
        /\ req' = req /\ req = NoReq
        /\ next \in Headers /\ hdr[next].freed
        /\ current # Null /\ hdr[current].freed
    BY <1>7 DEF MergeAbsorb, Advance, MergeLoop
  <2>2. /\ Headers' = Headers \ {next}
        /\ \A x \in Headers' : /\ hdr'[x].freed = hdr[x].freed
                               /\ x # current => hdr'[x] = hdr[x]
    BY <2>1 DEF Absorb, Headers
  <2>3. Live' = Live /\ \A x \in Live : hdr'[x] = hdr[x]
    BY <2>1, <2>2 DEF Live
  <2>4. LiveBlocks' = LiveBlocks
    BY <2>3 DEF LiveBlocks
  <2>5. Want' = Want
    BY <2>1 DEF Want
  <2> QED
    BY <2>4, <2>5, Hidden
<1>8. CASE UNCHANGED vars
  <2>1. Live' = Live /\ Headers' = Headers /\ hdr' = hdr /\ Want' = Want
    BY <1>8 DEF vars, Live, Headers, Want
  <2> QED
    BY <1>1, <2>1, Hidden
<1> QED
  BY <1>2, <1>3, <1>4, <1>5, <1>6, <1>7, <1>8

\* The start of a request: callers see it asked, and nothing else.
LEMMA AskStep ==
  ASSUME IInv, NEW n \in Sizes, malloc(n), pc = "idle", hdr' = hdr
  PROVE  Abs!Ask(n)
<1>1. pc' \in {"search", "extend"} /\ req' = n /\ req = NoReq
  BY DEF malloc, IInv, CallState
<1>2. Live' = Live
  BY <1>1 DEF Live, Headers
<1>3. LiveBlocks' = LiveBlocks
  BY <1>2 DEF LiveBlocks
<1>4. Want = NoReq /\ Want' = n
  BY <1>1 DEF Want
<1> QED
  BY <1>3, <1>4 DEF Abs!Ask, Abs!NoReq

\* Every step of KHeap is a step of Allocator or one that callers do not see.
LEMMA StepSimulation ==
  ASSUME IInv, [Next]_vars
  PROVE  [Abs!Next]_(Abs!vars)
<1>1. ASSUME NEW n \in Sizes, Malloc(n)
      PROVE  Abs!Next
  <2>1. Abs!Ask(n)
    BY <1>1, AskStep DEF Malloc
  <2> QED
    BY <2>1 DEF Abs!Next
<1>2. ASSUME NEW a \in Headers, Free(a)
      PROVE  Abs!Next \/ UNCHANGED Abs!vars
  <2>1. free(a) /\ pc \in {"idle", "copy"} /\ req' = NoReq
    BY <1>2 DEF Free, IInv, CallState
  <2> QED
    BY <2>1, FreeReleases DEF Abs!Next
<1>3. ASSUME NEW a \in Headers, NEW n \in Sizes, Realloc(a, n)
      PROVE  Abs!Next
  <2>1. Abs!Ask(n)
    BY <1>3, AskStep DEF Realloc
  <2> QED
    BY <2>1 DEF Abs!Next
<1>4. CASE SearchTake \/ SearchSplit \/ Extend
  <2>1. Abs!Grant
    BY <1>4, TakeGrants, ExtendGrants
  <2> QED
    BY <2>1 DEF Abs!Next
<1>5. CASE CopyAndFree
  <2>1. free(old) /\ pc \in {"idle", "copy"} /\ req' = NoReq /\ old \in Headers
    BY <1>5 DEF CopyAndFree, IInv, CallState, TypeOK
  <2> QED
    BY <2>1, FreeReleases DEF Abs!Next
<1>6. CASE \/ SearchSkip \/ SplitFault \/ ExtendFault \/ CopyFault
           \/ MergeUsed \/ MergeFirst \/ MergeAbsorb \/ UNCHANGED vars
  BY <1>6, InternalHidden
<1> QED
  BY <1>1, <1>2, <1>3, <1>4, <1>5, <1>6 DEF Next, Internal, Halted

LEMMA InitSimulation == Init => Abs!Init
<1> SUFFICES ASSUME Init
             PROVE  Abs!Init
  OBVIOUS
<1>1. Live = {} /\ Want = -1
  BY DEF Init, Live, Headers, Want
<1>2. LiveBlocks = {}
  BY <1>1 DEF LiveBlocks
<1> QED
  BY <1>1, <1>2 DEF Abs!Init, Abs!NoReq

\* kheap.c implements the allocator that the rest of the kernel relies on, for
\* every memory and every request size: a block handed out is long enough,
\* overlaps no block in use, and keeps its place and length until it is freed.
THEOREM HeapImplementsAllocator == Spec => ImplementsAllocator
<1>1. ImplementsAllocator <=> Abs!Init /\ [][Abs!Next]_(Abs!vars)
  BY DEF ImplementsAllocator, Abs!Spec
<1> QED
  BY Invariance, InitSimulation, StepSimulation, <1>1, PTL DEF Spec

-----------------------------------------------------------------------------
(* The bytes of the list *)

\* f is the solution of BytesFrom's equation for a list of headers.
Sums(list, f) ==
  f = [a \in DOMAIN list \cup {Null} |->
         IF a = Null THEN 0 ELSE HeaderSize + list[a].size + f[list[a].next]]

\* A set of numbers has a least one.
LEMMA LeastOf ==
  ASSUME NEW S, S \subseteq Nat, S # {}
  PROVE  \E x \in S : \A y \in S : x <= y
<1>1. \E x \in S : \A y \in S : <<y, x>> \notin OpToRel(<, Nat)
  BY NatLessThanWellFounded, WFMin
<1>2. PICK x \in S : \A y \in S : <<y, x>> \notin OpToRel(<, Nat)
  BY <1>1
<1>3. \A y \in S : x <= y
  <2> SUFFICES ASSUME NEW y \in S, y < x PROVE FALSE
    OBVIOUS
  <2>1. <<y, x>> \in OpToRel(<, Nat)
    BY DEF OpToRel
  <2> QED
    BY <2>1, <1>2
<1> QED
  BY <1>3

\* A list whose links lead upwards, below some address, has one solution: of two
\* that differed, the highest header at which they do would have a next at which
\* they do not.
LEMMA SumsUnique ==
  ASSUME NEW list, NEW top \in Nat, DOMAIN list \subseteq Nat \ {Null},
         \A a \in DOMAIN list :
           /\ a <= top
           /\ list[a].next \in DOMAIN list \cup {Null}
           /\ list[a].next # Null => a < list[a].next,
         NEW f, NEW g, Sums(list, f), Sums(list, g)
  PROVE  f = g
<1> DEFINE differ == {a \in DOMAIN list : f[a] # g[a]}
           below == {top - a : a \in differ}
<1>1. /\ f[Null] = 0 /\ g[Null] = 0
      /\ \A a \in DOMAIN list : /\ f[a] = HeaderSize + list[a].size + f[list[a].next]
                                /\ g[a] = HeaderSize + list[a].size + g[list[a].next]
  <2>1. Null \notin DOMAIN list
    OBVIOUS
  <2>2. ASSUME NEW h, Sums(list, h)
        PROVE  /\ h[Null] = 0
               /\ \A a \in DOMAIN list :
                    h[a] = HeaderSize + list[a].size + h[list[a].next]
    BY <2>1, <2>2, Zenon DEF Sums
  <2> QED
    BY <2>2, Zenon
<1>2. differ = {}
  <2> SUFFICES ASSUME differ # {} PROVE FALSE
    OBVIOUS
  <2>1. below \subseteq Nat /\ below # {}
    OBVIOUS
  <2> HIDE DEF below
  <2>2. PICK x \in below : \A y \in below : x <= y
    BY <2>1, LeastOf, Zenon
  <2>3. PICK a \in differ : x = top - a
    BY DEF below
  <2>4. f[list[a].next] # g[list[a].next]
    BY <1>1, <2>3
  <2>5. list[a].next \in differ /\ a < list[a].next
    BY <1>1, <2>3, <2>4
  <2>6. top - list[a].next \in below
    BY <2>5 DEF below
  <2>7. a \in Nat /\ list[a].next \in Nat /\ top - a <= top - list[a].next
    BY <2>2, <2>3, <2>5, <2>6
  <2> HIDE DEF differ
  <2> QED
    BY <2>5, <2>7
<1>3. \A a \in DOMAIN list \cup {Null} : f[a] = g[a]
  BY <1>1, <1>2
<1>4. ASSUME NEW h, Sums(list, h)
      PROVE  h = [a \in DOMAIN list \cup {Null} |-> h[a]]
  BY <1>4, Zenon DEF Sums
<1> QED
  BY <1>3, <1>4, Zenon

\* The recursive definition, at a state of the heap, is any solution there is.
LEMMA BytesFromIs ==
  ASSUME TypeOK', ListComplete', NEW g, Sums(hdr', g)
  PROVE  BytesFrom' = g
<1>1. Sums(hdr', BytesFrom')
  <2>1. BytesFrom' = CHOOSE f : Sums(hdr', f)
    BY DEF BytesFrom, Sums, Headers
  <2> QED
    BY <2>1, Zenon
<1>2. /\ Headers' \subseteq Nat \ {Null}
      /\ \A a \in Headers' : hdr'[a].next \in Headers' \cup {Null}
  BY DEF TypeOK
<1>3. \A a \in Headers' :
        /\ hdr'[a].next # Null => a < hdr'[a].next
        /\ a <= last_hh'
        /\ last_hh' \in Headers'
  BY <1>2 DEF ListComplete
<1>4. PICK top \in Nat : \A a \in Headers' : a <= top
  <2>1. CASE Headers' = {}
    BY <2>1
  <2>2. CASE Headers' # {}
    BY <1>2, <1>3, <2>2
  <2> QED
    BY <2>1, <2>2
<1> QED
  BY <1>1, <1>2, <1>3, <1>4, SumsUnique DEF Headers

\* The bytes of the list, as an invariant: every header has its sum.
Bytes ==
  /\ Sums(hdr, BytesFrom)
  /\ BytesFrom \in [Headers \cup {Null} -> Nat]
  /\ BytesAccounted

\* A step that leaves a solution for the list leaves BytesFrom.
LEMMA BytesStep ==
  ASSUME IInv', NEW g \in [Headers' \cup {Null} -> Nat], Sums(hdr', g),
         PtrScale * g[frist_hh'] = curr_addr' - KrnlEnd
  PROVE  Bytes'
<1>1. BytesFrom' = g
  BY BytesFromIs DEF IInv
<1> QED
  BY <1>1 DEF Bytes, BytesAccounted

\* Bytes, header by header.
LEMMA BytesAt ==
  ASSUME IInv, Bytes
  PROVE  /\ BytesFrom[Null] = 0
         /\ \A a \in Headers :
              /\ BytesFrom[a] = HeaderSize + hdr[a].size + BytesFrom[hdr[a].next]
              /\ BytesFrom[a] \in Nat
              /\ hdr[a].next \in Headers \cup {Null}
              /\ BytesFrom[hdr[a].next] \in Nat
<1>1. Null \notin Headers /\ \A a \in Headers : hdr[a].next \in Headers \cup {Null}
  BY DEF IInv, TypeOK
<1>2. /\ BytesFrom[Null] = 0
      /\ \A a \in Headers :
           BytesFrom[a] = HeaderSize + hdr[a].size + BytesFrom[hdr[a].next]
  BY <1>1, Zenon DEF Bytes, Sums, Headers
<1> QED
  BY <1>1, <1>2 DEF Bytes

\* The steps that leave the links and lengths alone, whatever they mark.
LEMMA SameBytes ==
  ASSUME IInv, IInv', Bytes, Headers' = Headers,
         \A x \in Headers : hdr'[x].size = hdr[x].size /\ hdr'[x].next = hdr[x].next,
         frist_hh' = frist_hh, curr_addr' = curr_addr
  PROVE  Bytes'
<1>1. Sums(hdr', BytesFrom)
  <2>1. BytesFrom = [a \in Headers \cup {Null} |->
           IF a = Null THEN 0 ELSE HeaderSize + hdr[a].size + BytesFrom[hdr[a].next]]
    BY DEF Bytes, Sums, Headers
  <2>2. BytesFrom = [a \in Headers' \cup {Null} |->
           IF a = Null THEN 0 ELSE HeaderSize + hdr'[a].size + BytesFrom[hdr'[a].next]]
    BY <2>1
  <2> QED
    BY <2>2 DEF Sums, Headers
<1> QED
  BY <1>1, BytesStep DEF Bytes, BytesAccounted

\* A function that satisfies the equation at every header is a solution.
LEMMA SumsAt ==
  ASSUME NEW list, NEW g, g = [a \in DOMAIN list \cup {Null} |-> g[a]],
         Null \notin DOMAIN list, g[Null] = 0,
         \A a \in DOMAIN list : g[a] = HeaderSize + list[a].size + g[list[a].next]
  PROVE  Sums(list, g)
  BY DEF Sums

\* Splitting: the block's bytes are now its own, the remainder's header's and
\* the remainder's.
LEMMA SplitBytes ==
  ASSUME IInv, IInv', Bytes, SearchSplit
  PROVE  Bytes'
<1> DEFINE nxt == hdr[next].next
           g == [a \in Headers \cup {SplitAt, Null} |->
                   IF a = SplitAt THEN HeaderSize + Remainder + BytesFrom[nxt]
                   ELSE BytesFrom[a]]
<1>1. /\ next \in Headers /\ req \in Nat /\ next \in Nat /\ hdr[next].size \in Nat
      /\ Remainder \in Nat /\ SplitAt \in Nat /\ next < SplitAt
      /\ SplitAt < next + HeaderSize + hdr[next].size
      /\ HeaderSize + req + HeaderSize + Remainder = HeaderSize + hdr[next].size
  <2>1. next \in Headers /\ req \in Nat /\ next \in Nat /\ hdr[next].size \in Nat
    BY HeaderTypes DEF IInv, SearchLoop, SearchSplit
  <2> QED
    BY <2>1 DEF SearchSplit, SplitAt, Remainder
<1>2. SplitAt \notin Headers
  <2> SUFFICES ASSUME SplitAt \in Headers PROVE FALSE
    OBVIOUS
  <2>1. next + HeaderSize + hdr[next].size <= SplitAt
    BY <1>1, Apart
  <2> QED
    BY <1>1, <2>1
<1>3. /\ Headers' = Headers \cup {SplitAt}
      /\ hdr'[SplitAt].size = Remainder /\ hdr'[SplitAt].next = nxt
      /\ hdr'[next].size = req /\ hdr'[next].next = SplitAt
      /\ \A x \in Headers : x # next => hdr'[x] = hdr[x]
  <2> DEFINE h0 == _new_header(req, SplitAt)
             h1 == [size |-> Remainder, freed |-> TRUE, next |-> hdr[next].next]
  <2>1. hdr' = Put(Put(hdr, next, h0), SplitAt, h1)
    BY DEF SearchSplit
  <2>2. h1.size = Remainder /\ h1.next = nxt /\ h0.size = req /\ h0.next = SplitAt
    BY DEF _new_header
  <2> HIDE DEF h0, h1, nxt
  <2> QED
    BY <1>1, <1>2, <2>1, <2>2 DEF Put, Headers
<1>4. Null \notin Headers' /\ nxt \in Headers \cup {Null} /\ nxt # SplitAt
  BY <1>1, <1>2, <1>3, BytesAt DEF IInv, TypeOK
<1>5. /\ g[SplitAt] = HeaderSize + Remainder + BytesFrom[nxt]
      /\ \A x \in Headers \cup {Null} : g[x] = BytesFrom[x]
      /\ g = [a \in Headers' \cup {Null} |-> g[a]]
  BY <1>2, <1>3, <1>4
<1>6. g \in [Headers' \cup {Null} -> Nat]
  <2>1. BytesFrom[nxt] \in Nat /\ \A x \in Headers \cup {Null} : BytesFrom[x] \in Nat
    BY <1>1, BytesAt
  <2> QED
    BY <1>1, <1>3, <1>5, <2>1
<1> HIDE DEF g
<1>7. ASSUME NEW a \in Headers'
      PROVE  g[a] = HeaderSize + hdr'[a].size + g[hdr'[a].next]
  <2>1. CASE a = SplitAt
    BY <1>3, <1>4, <1>5, <2>1
  <2>2. CASE a = next
    <3>1. /\ BytesFrom[next] = HeaderSize + hdr[next].size + BytesFrom[nxt]
          /\ BytesFrom[nxt] \in Nat
      BY <1>1, BytesAt
    <3>2. /\ g[next] = BytesFrom[next] /\ hdr'[next].size = req /\ hdr'[next].next = SplitAt
          /\ g[SplitAt] = HeaderSize + Remainder + BytesFrom[nxt]
      BY <1>1, <1>3, <1>5
    <3>3. Remainder = hdr[next].size - req - HeaderSize
      BY DEF Remainder
    <3>4. hdr[next].size \in Nat /\ req \in Nat
      BY <1>1
    <3> HIDE DEF nxt
    <3>5. BytesFrom[next] = HeaderSize + req + (HeaderSize + Remainder + BytesFrom[nxt])
      BY <3>1, <3>3, <3>4
    <3> QED
      BY <2>2, <3>2, <3>5
  <2>3. CASE a \in Headers \ {next}
    <3>1. BytesFrom[a] = HeaderSize + hdr[a].size + BytesFrom[hdr[a].next]
          /\ hdr[a].next \in Headers \cup {Null}
      BY <2>3, BytesAt
    <3>2. hdr'[a] = hdr[a] /\ g[a] = BytesFrom[a]
      BY <1>3, <1>5, <2>3
    <3>3. g[hdr[a].next] = BytesFrom[hdr[a].next]
      BY <1>5, <3>1
    <3> QED
      BY <3>1, <3>2, <3>3
  <2> QED
    BY <1>3, <2>1, <2>2, <2>3
<1>8. Sums(hdr', g)
  <2>1. g[Null] = 0
    BY <1>5, BytesAt
  <2> QED
    BY <1>4, <1>5, <1>7, <2>1, SumsAt DEF Headers
<1>9. frist_hh' = frist_hh /\ curr_addr' = curr_addr /\ frist_hh \in Headers \cup {Null}
  BY DEF SearchSplit, IInv, TypeOK
<1> QED
  BY <1>5, <1>6, <1>8, <1>9, BytesStep DEF Bytes, BytesAccounted

\* Growing: every header of the list has the fresh block's bytes on top.
LEMMA ExtendBytes ==
  ASSUME IInv, IInv', Bytes, Extend
  PROVE  Bytes'
<1> DEFINE g == [a \in Headers \cup {curr_addr, Null} |->
                   IF a = Null THEN 0
                   ELSE IF a = curr_addr THEN HeaderSize + req
                   ELSE BytesFrom[a] + (HeaderSize + req)]
<1>1. /\ req \in Nat /\ curr_addr \in Nat \ {Null} /\ curr_addr \notin Headers
      /\ curr_addr' = curr_addr + PtrScale * (req + HeaderSize)
      /\ frist_hh' = IF frist_hh = Null THEN curr_addr ELSE frist_hh
      /\ frist_hh \in Headers \cup {Null}
  <2>1. req \in Nat /\ curr_addr \in Nat \ {Null} /\ frist_hh \in Headers \cup {Null}
    BY DEF IInv, SearchLoop, Extend, TypeOK
  <2>2. \A x \in Headers : x < curr_addr
    BY ListLinks DEF IInv
  <2> QED
    BY <2>1, <2>2 DEF Extend, Growth
<1>2. /\ Headers' = Headers \cup {curr_addr}
      /\ hdr'[curr_addr].size = req /\ hdr'[curr_addr].next = Null
      /\ \A x \in Headers :
           /\ hdr'[x].size = hdr[x].size
           /\ hdr'[x].next = IF hdr[x].next = Null THEN curr_addr ELSE hdr[x].next
  <2> DEFINE linked == IF frist_hh = Null THEN hdr
                       ELSE [hdr EXCEPT ![last_hh].next = curr_addr]
             h0 == _new_header(req, Null)
  <2>1. hdr' = Put(linked, curr_addr, h0)
    BY DEF Extend
  <2>2. h0.size = req /\ h0.next = Null
    BY DEF _new_header
  <2>3. /\ DOMAIN linked = Headers
        /\ \A x \in Headers :
             /\ linked[x].size = hdr[x].size
             /\ linked[x].next = IF hdr[x].next = Null THEN curr_addr ELSE hdr[x].next
    <3>1. \A x \in Headers : hdr[x].next = Null <=> x = last_hh
      BY ListLinks DEF IInv
    <3>2. \A x \in Headers : frist_hh # Null
      BY DEF IInv, ListComplete
    <3> QED
      BY <3>1, <3>2 DEF Headers, IInv, TypeOK
  <2> HIDE DEF linked, h0
  <2> QED
    BY <1>1, <2>1, <2>2, <2>3 DEF Put, Headers
<1>3. Null \notin Headers
  BY DEF IInv, TypeOK
<1>4. /\ g[Null] = 0 /\ g[curr_addr] = HeaderSize + req
      /\ \A x \in Headers : g[x] = BytesFrom[x] + (HeaderSize + req)
      /\ g = [a \in Headers' \cup {Null} |-> g[a]]
  BY <1>1, <1>2, <1>3
<1>5. \A x \in Headers : BytesFrom[x] \in Nat
  BY BytesAt
<1> HIDE DEF g
<1>6. g \in [Headers' \cup {Null} -> Nat]
  <2>1. \A a \in Headers' \cup {Null} : g[a] \in Nat
    BY <1>1, <1>2, <1>4, <1>5
  <2> QED
    BY <1>4, <2>1
<1>7. ASSUME NEW a \in Headers'
      PROVE  g[a] = HeaderSize + hdr'[a].size + g[hdr'[a].next]
  <2>1. CASE a = curr_addr
    BY <1>1, <1>2, <1>4, <2>1
  <2>2. CASE a \in Headers
    <3>1. /\ BytesFrom[a] = HeaderSize + hdr[a].size + BytesFrom[hdr[a].next]
          /\ BytesFrom[hdr[a].next] \in Nat /\ hdr[a].size \in Nat
          /\ hdr[a].next \in Headers \cup {Null} /\ BytesFrom[Null] = 0
      BY <2>2, BytesAt, HeaderTypes DEF IInv
    <3>2. CASE hdr[a].next = Null
      BY <1>1, <1>2, <1>4, <2>2, <3>1, <3>2
    <3>3. CASE hdr[a].next # Null
      BY <1>1, <1>2, <1>4, <2>2, <3>1, <3>3
    <3> QED
      BY <3>2, <3>3
  <2> QED
    BY <1>2, <2>1, <2>2
<1>8. Sums(hdr', g)
  <2>1. Null \notin Headers'
    BY <1>1, <1>2, <1>3
  <2> QED
    BY <1>4, <1>7, <2>1, SumsAt DEF Headers
<1>9. PtrScale * g[frist_hh'] = curr_addr' - KrnlEnd
  <2>1. PtrScale * BytesFrom[frist_hh] = curr_addr - KrnlEnd
    BY DEF Bytes, BytesAccounted
  <2>2. \A x \in Nat : PtrScale * (x + (HeaderSize + req))
                         = PtrScale * x + PtrScale * (req + HeaderSize)
    BY <1>1
  <2>3. CASE frist_hh = Null
    <3>1. curr_addr = KrnlEnd
      BY <1>1, <2>1, <2>3, BytesAt
    <3> QED
      BY <1>1, <1>4, <2>3, <3>1
  <2>4. CASE frist_hh # Null
    <3>1. /\ g[frist_hh'] = BytesFrom[frist_hh] + (HeaderSize + req)
          /\ BytesFrom[frist_hh] \in Nat
      BY <1>1, <1>4, <1>5, <2>4
    <3>2. PtrScale * g[frist_hh']
            = PtrScale * BytesFrom[frist_hh] + PtrScale * (req + HeaderSize)
      BY <2>2, <3>1
    <3>3. PtrScale * (req + HeaderSize) \in Nat
      BY <1>1
    <3> DEFINE more == PtrScale * (req + HeaderSize)
               had == PtrScale * BytesFrom[frist_hh]
    <3> HIDE DEF more, had
    <3> QED
      BY <1>1, <2>1, <3>2, <3>3 DEF more, had
  <2> QED
    BY <2>3, <2>4
<1> QED
  BY <1>6, <1>8, <1>9, BytesStep

\* Merging: current's bytes are its own and those of the header it absorbs.
LEMMA AbsorbBytes ==
  ASSUME IInv, IInv', Bytes, MergeAbsorb
  PROVE  Bytes'
<1> DEFINE g == [a \in (Headers \ {next}) \cup {Null} |-> BytesFrom[a]]
<1>1. /\ next \in Headers /\ current \in Headers /\ current < next
      /\ next \in Nat /\ current \in Nat
      /\ hdr[current].next = next /\ frist_hh \in Headers
      /\ hdr[current].size \in Nat /\ hdr[next].size \in Nat
      /\ frist_hh <= current /\ frist_hh \in Nat
  <2>1. /\ next \in Headers /\ current \in Headers /\ hdr[current].next = next
        /\ next # Null
    BY HeaderTypes DEF IInv, MergeLoop, MergeAbsorb, TypeOK
  <2>2. current < next /\ frist_hh \in Headers /\ frist_hh <= current
    BY <2>1, ListLinks DEF IInv, ListComplete
  <2> QED
    BY <2>1, <2>2, HeaderTypes DEF IInv
<1>2. /\ Headers' = Headers \ {next}
      /\ hdr'[current].size = hdr[current].size + hdr[next].size + HeaderSize
      /\ hdr'[current].next = hdr[next].next
      /\ \A x \in Headers \ {next} : x # current => hdr'[x] = hdr[x]
  <2>1. hdr' = Absorb /\ current # next
    BY <1>1 DEF MergeAbsorb
  <2> QED
    BY <1>1, <2>1 DEF Absorb, Headers
<1>3. Null \notin Headers' /\ \A x \in Headers' : hdr'[x].next \in Headers' \cup {Null}
  BY DEF IInv, TypeOK
<1>4. /\ \A x \in Headers' \cup {Null} : g[x] = BytesFrom[x]
      /\ g = [a \in Headers' \cup {Null} |-> g[a]]
  BY <1>2
<1> HIDE DEF g
<1>5. g \in [Headers' \cup {Null} -> Nat]
  <2>1. \A x \in Headers \cup {Null} : BytesFrom[x] \in Nat
    BY BytesAt
  <2>2. \A x \in Headers' \cup {Null} : g[x] \in Nat
    BY <1>2, <1>4, <2>1
  <2> QED
    BY <1>4, <2>2
<1>6. ASSUME NEW a \in Headers'
      PROVE  g[a] = HeaderSize + hdr'[a].size + g[hdr'[a].next]
  <2>1. g[a] = BytesFrom[a] /\ g[hdr'[a].next] = BytesFrom[hdr'[a].next]
    BY <1>3, <1>4
  <2>2. CASE a = current
    <3>1. /\ BytesFrom[current] = HeaderSize + hdr[current].size + BytesFrom[next]
          /\ BytesFrom[next] = HeaderSize + hdr[next].size + BytesFrom[hdr[next].next]
          /\ BytesFrom[hdr[next].next] \in Nat
      BY <1>1, BytesAt
    <3> QED
      BY <1>1, <1>2, <2>1, <2>2, <3>1
  <2>3. CASE a # current
    BY <1>2, <2>1, <2>3, BytesAt
  <2> QED
    BY <2>2, <2>3
<1>7. Sums(hdr', g)
  <2>1. g[Null] = 0
    BY <1>4, BytesAt
  <2>2. Null \notin DOMAIN hdr' /\ g = [a \in DOMAIN hdr' \cup {Null} |-> g[a]]
    BY <1>3, <1>4 DEF Headers
  <2>3. \A a \in DOMAIN hdr' : g[a] = HeaderSize + hdr'[a].size + g[hdr'[a].next]
    BY <1>6 DEF Headers
  <2> QED
    BY <2>1, <2>2, <2>3, SumsAt
<1>8. frist_hh' = frist_hh /\ curr_addr' = curr_addr /\ frist_hh \in Headers'
  BY <1>1, <1>2 DEF MergeAbsorb
<1> QED
  BY <1>4, <1>5, <1>7, <1>8, BytesStep DEF Bytes, BytesAccounted

\* At the start the list has no header, and the heap has taken nothing.
LEMMA InitBytes == Init => Bytes
<1> SUFFICES ASSUME Init PROVE Bytes
  OBVIOUS
<1> DEFINE g == [a \in Headers \cup {Null} |-> 0]
<1>1. Headers = {} /\ frist_hh = Null /\ curr_addr = KrnlEnd
  BY DEF Init, Headers
<1>2. Sums(hdr, g)
  BY <1>1 DEF Sums, Headers
<1>3. Sums(hdr, BytesFrom)
  <2>1. BytesFrom = CHOOSE f : Sums(hdr, f)
    BY DEF BytesFrom, Sums, Headers
  <2> QED
    BY <1>2, <2>1, Zenon
<1>4. BytesFrom = g
  BY <1>1, <1>2, <1>3, SumsUnique, 0 \in Nat DEF Headers
<1> QED
  BY <1>1, <1>3, <1>4 DEF Bytes, BytesAccounted

LEMMA NextBytes ==
  ASSUME IInv, IInv', Bytes, [Next]_vars
  PROVE  Bytes'
<1>1. ASSUME hdr' = hdr, UNCHANGED <<frist_hh, curr_addr>>
      PROVE  Bytes'
  BY <1>1, SameBytes DEF Headers
<1>2. ASSUME NEW a \in Headers, hdr' = [hdr EXCEPT ![a].freed = TRUE],
             UNCHANGED <<frist_hh, curr_addr>>
      PROVE  Bytes'
  <2>1. /\ Headers' = Headers
        /\ \A x \in Headers : hdr'[x].size = hdr[x].size /\ hdr'[x].next = hdr[x].next
    BY <1>2 DEF Headers, IInv, TypeOK
  <2> QED
    BY <1>2, <2>1, SameBytes
<1>3. ASSUME pc = "search", hdr' = Taken, UNCHANGED <<frist_hh, curr_addr>>
      PROVE  Bytes'
  <2>1. /\ Headers' = Headers
        /\ \A x \in Headers : hdr'[x].size = hdr[x].size /\ hdr'[x].next = hdr[x].next
    BY <1>3 DEF Headers, IInv, TypeOK, Taken, SearchLoop
  <2> QED
    BY <1>3, <2>1, SameBytes
<1>4. CASE SearchSplit
  BY <1>4, SplitBytes
<1>5. CASE Extend
  BY <1>5, ExtendBytes
<1>6. CASE MergeAbsorb
  BY <1>6, AbsorbBytes
<1>7. CASE SearchTake \/ SplitFault
  BY <1>3, <1>7 DEF SearchTake, SplitFault
<1>8. CASE CopyAndFree
  <2>1. old \in Headers
    BY <1>8 DEF CopyAndFree, IInv, CallState, TypeOK
  <2> QED
    BY <1>2, <1>8, <2>1 DEF CopyAndFree, free
<1>9. CASE SearchSkip \/ ExtendFault \/ MergeUsed \/ MergeFirst \/ CopyFault \/ Halted
  BY <1>1, <1>9 DEF SearchSkip, ExtendFault, MergeUsed, MergeFirst, CopyFault, Halted, vars
<1>10. ASSUME NEW n \in Sizes, Malloc(n)
       PROVE  Bytes'
  BY <1>1, <1>10 DEF Malloc
<1>11. ASSUME NEW a \in Headers, Free(a)
       PROVE  Bytes'
  BY <1>2, <1>11 DEF Free, free
<1>12. ASSUME NEW a \in Headers, NEW n \in Sizes, Realloc(a, n)
       PROVE  Bytes'
  BY <1>1, <1>12 DEF Realloc
<1>13. CASE UNCHANGED vars
  BY <1>1, <1>13 DEF vars
<1> QED
  BY <1>4, <1>5, <1>6, <1>7, <1>8, <1>9, <1>10, <1>11, <1>12, <1>13 DEF Next, Internal

\* No byte is lost: the headers and blocks that the list reaches make up a
\* PtrScale-th of the memory malloc() has taken, however often blocks are split,
\* merged, freed and reallocated.
THEOREM NoByteIsLost == Spec => []BytesAccounted
<1>1. Spec => []Bytes
  BY Invariance, InitBytes, NextBytes, PTL DEF Spec
<1>2. Bytes => BytesAccounted
  BY DEF Bytes
<1> QED
  BY <1>1, <1>2, PTL

-----------------------------------------------------------------------------
(* Every call moves on *)

\* The parts of a call, in the order in which one follows another: the search,
\* the growth of the heap, realloc's copy, the merge.
PartsAhead ==
  CASE pc = "search" -> 4
    [] pc = "extend" -> 3
    [] pc = "copy"   -> 2
    [] pc = "merge"  -> 1
    [] OTHER         -> 0

\* How far a loop's cursor is from the last header of the list.
BytesAhead == IF pc \in {"search", "merge"} THEN last_hh - next ELSE 0

\* Every step of a call goes on to a later part, or takes the loop's cursor
\* nearer to the end of the list.
Advances ==
  \/ PartsAhead' < PartsAhead
  \/ PartsAhead' = PartsAhead /\ BytesAhead' < BytesAhead

\* Neither number can fall for ever.
Measured == PartsAhead \in Nat /\ BytesAhead \in Nat

LEMMA IsMeasured ==
  ASSUME IInv
  PROVE  Measured
<1>1. PartsAhead \in Nat
  BY DEF PartsAhead
<1>2. BytesAhead \in Nat
  <2>1. CASE pc \in {"search", "merge"}
    <3>1. next \in Headers
      BY <2>1 DEF IInv, SearchLoop, MergeLoop
    <3>2. next <= last_hh /\ last_hh \in Headers
      BY <3>1, ListLinks DEF IInv
    <3>3. next \in Nat /\ last_hh \in Nat
      BY <3>1, <3>2, HeaderTypes DEF IInv
    <3> QED
      BY <2>1, <3>2, <3>3 DEF BytesAhead
  <2>2. CASE pc \notin {"search", "merge"}
    BY <2>2 DEF BytesAhead
  <2> QED
    BY <2>1, <2>2
<1> QED
  BY <1>1, <1>2 DEF Measured

\* A loop that goes on from the header next to the one behind it is nearer to
\* the end of the list.
LEMMA NextIsNearer ==
  ASSUME IInv, pc \in {"search", "merge"}, pc' = pc, last_hh' = last_hh,
         next' = hdr[next].next, hdr[next].next # Null
  PROVE  Advances
<1>1. next \in Headers
  BY DEF IInv, SearchLoop, MergeLoop
<1>2. /\ hdr[next].next \in Headers /\ next < hdr[next].next
      /\ last_hh \in Headers
  BY <1>1, ListLinks DEF IInv
<1>3. next \in Nat /\ next' \in Nat /\ last_hh \in Nat /\ next < next'
  BY <1>1, <1>2, HeaderTypes DEF IInv
<1>4. BytesAhead' < BytesAhead
  BY <1>3 DEF BytesAhead
<1>5. PartsAhead' = PartsAhead
  BY DEF PartsAhead
<1> QED
  BY <1>4, <1>5 DEF Advances

\* A step to a part further on.
LEMMA PartIsOver ==
  ASSUME \/ pc = "search" /\ pc' \in {"extend", "copy", "idle", "panic"}
         \/ pc = "extend" /\ pc' \in {"copy", "idle", "panic"}
         \/ pc = "copy" /\ pc' \in {"merge", "panic"}
         \/ pc = "merge" /\ pc' = "idle"
  PROVE  Advances
<1>1. CASE pc = "search" /\ pc' \in {"extend", "copy", "idle", "panic"}
  BY <1>1 DEF Advances, PartsAhead
<1>2. CASE pc = "extend" /\ pc' \in {"copy", "idle", "panic"}
  BY <1>2 DEF Advances, PartsAhead
<1>3. CASE pc = "copy" /\ pc' \in {"merge", "panic"}
  BY <1>3 DEF Advances, PartsAhead
<1>4. CASE pc = "merge" /\ pc' = "idle"
  BY <1>4 DEF Advances, PartsAhead
<1> QED
  BY <1>1, <1>2, <1>3, <1>4

\* An iteration of the merge, over whatever header.
LEMMA MergeAdvances ==
  ASSUME IInv, pc = "merge", NEW cur, Advance(hdr[next].next, cur)
  PROVE  Advances
<1>1. CASE hdr[next].next # Null
  BY <1>1, NextIsNearer DEF Advance
<1>2. CASE hdr[next].next = Null
  BY <1>2, PartIsOver DEF Advance
<1> QED
  BY <1>1, <1>2

LEMMA StepAdvances ==
  ASSUME IInv, Internal
  PROVE  Advances
<1>1. CASE SearchSkip
  <2>1. CASE hdr[next].next # Null
    BY <1>1, <2>1, NextIsNearer DEF SearchSkip
  <2>2. CASE hdr[next].next = Null
    BY <1>1, <2>2, PartIsOver DEF SearchSkip
  <2> QED
    BY <2>1, <2>2
<1>2. CASE SearchTake \/ SearchSplit \/ SplitFault
  BY <1>2, PartIsOver DEF SearchTake, SearchSplit, SplitFault, Granted
<1>3. CASE Extend \/ ExtendFault
  BY <1>3, PartIsOver DEF Extend, ExtendFault, Granted
<1>4. CASE MergeUsed
  BY <1>4, MergeAdvances DEF MergeUsed
<1>5. CASE MergeFirst
  BY <1>5, MergeAdvances DEF MergeFirst
<1>6. CASE MergeAbsorb
  BY <1>6, MergeAdvances DEF MergeAbsorb
<1>7. CASE CopyAndFree \/ CopyFault
  BY <1>7, PartIsOver DEF CopyAndFree, CopyFault, free
<1> QED
  BY <1>1, <1>2, <1>3, <1>4, <1>5, <1>6, <1>7 DEF Internal

\* No call of malloc, free or realloc runs round: each of its steps begins a
\* later part of the call, or brings the cursor of the do/while loop nearer to
\* the end of the list, which stays where it is meanwhile (kheap.c:44-57,
\* kheap.c:59-82).  A call has finitely many steps; that it takes them is what
\* CallsEnd adds.
THEOREM CallsAdvance == Spec => []Measured /\ [][Internal => Advances]_vars
<1>1. Spec => []Measured
  BY Invariance, IsMeasured, PTL
<1>2. IInv /\ [Next]_vars => [Internal => Advances]_vars
  BY StepAdvances
<1>3. Spec => [][Internal => Advances]_vars
  BY Invariance, <1>2, PTL DEF Spec
<1> QED
  BY <1>1, <1>3

=============================================================================
