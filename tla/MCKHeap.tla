------------------------------- MODULE MCKHeap -------------------------------
(* The kernel heap on a small memory, for TLC. *)
EXTENDS KHeap

\* The request sizes: 1 is served by every freed block, and splits one of 9 or
\* more; 9 needs a block of its own length or one that merging has made, and
\* leaves remainders on either side of the length of a header.
MCSizes == {1, 9}

=============================================================================
