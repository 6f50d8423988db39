----------------------------- MODULE MCSyscalls -----------------------------
(* Syscalls for TLC: the four devices with their own names, in names of up to 8
   bytes instead of 55 and dirents of 12 instead of 60, and a program with two
   nodes.  Unused memory ends a name at once, one byte further, with the second
   byte of flag, or behind a dirent; the stack holds ends, bytes behind one, or
   no end at all. *)
EXTENDS Syscalls

MCAta    == <<"a", "t", "a">>
MCVideo  == <<"v", "i", "d", "e", "o">>
MCDevman == <<"d", "e", "v", "m", "a", "n">>
MCKb     == <<"k", "b">>
MCLetters == {"a", "t", "v", "i", "d", "e", "o", "m", "n", "k", "b", "?"}
MCJunk   == {<<>>, <<"?">>, <<"?", "?", "?", "?", "?">>, [n \in 1 .. 13 |-> "?"]}
MCStacks == {[n \in 1 .. 12 |-> "nul"], [n \in 1 .. 12 |-> IF n = 1 THEN "nul" ELSE "?"],
             [n \in 1 .. 12 |-> "?"]}

=============================================================================
