------------------------------ MODULE Allocator ------------------------------
(***************************************************************************)
(* What the rest of the kernel relies on when it calls malloc(), free()    *)
(* and realloc() of kernel/kheap.c: a block handed out is at least as long *)
(* as was asked for, it shares no byte with another block in use, and it   *)
(* stays where it is, with the length it has, until it is released.        *)
(*                                                                         *)
(* Nothing is said of where blocks lie or of how the free memory is kept:  *)
(* that is KHeap.tla, which is checked to implement this module.           *)
(***************************************************************************)
EXTENDS Integers

CONSTANT
  \* the lengths that callers ask for
  Sizes

VARIABLES
  live,     \* the blocks in use, records [base, len]
  want      \* the length of the request being served, NoReq when there is none

vars == <<live, want>>

NoReq == -1

Disjoint(b, c) ==
  /\ b.base # c.base
  /\ b.base + b.len <= c.base \/ c.base + c.len <= b.base

Init ==
  /\ live = {}
  /\ want = NoReq

\* A caller asks for n bytes.
Ask(n) ==
  /\ want = NoReq
  /\ want' = n
  /\ UNCHANGED live

\* The request is served by one new block that touches no block in use.
Grant ==
  /\ want # NoReq
  /\ want' = NoReq
  /\ \E b \in live' \ live :
        /\ live' = live \cup {b}
        /\ b.len >= want
        /\ \A c \in live : Disjoint(b, c)

\* A caller gives one block back.
Release ==
  /\ want = NoReq
  /\ \E b \in live : live' = live \ {b}
  /\ UNCHANGED want

Next == (\E n \in Sizes : Ask(n)) \/ Grant \/ Release

Spec == Init /\ [][Next]_vars

=============================================================================
