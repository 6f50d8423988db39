------------------------------- MODULE MCFrame -------------------------------
(* The frame allocator on a small bitmap, for TLC. *)
EXTENDS Frame

CONSTANTS o1, o2, o3, o4

MCOwners == {o1, o2, o3, o4}

\* What paging.c asks for, and what elf.c and a longer caller ask for.
Several == {1, 2, 3}

=============================================================================
