------------------------------ MODULE MCPaging ------------------------------
(* Paging with the real sizes of words, flags and tables, for TLC.  Of the
   kernel's pages the directory's and the four under the bitmap are followed;
   programs have up to two segments, in the first 4 MB and in two regions
   behind it, at the pages where a linker puts them by default. *)
EXTENDS Paging

MCKernelPages == {3} \cup 256 .. 259
MCWritten == {3}
MCSegments == {<<0, 72>>, <<1, 72>>, <<32, 72>>, <<32, 73>>}
MCPrograms == UNION {[1 .. n -> MCSegments] : n \in 0 .. 2}

=============================================================================
