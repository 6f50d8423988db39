----------------------------- MODULE MCFatLookup -----------------------------
(* Small trees for TLC: a root directory of three slots, and a directory that
   holds itself (".") and two more; the third of each is behind those that are
   read.  Names are made of two letters. *)
EXTENDS FatLookup

Slot(n, isd, v) == [name |-> n, isdir |-> isd, node |-> v]

Dot == Slot(<<".">>, TRUE, "D")

RootSlots == {Slot(<<"A">>, FALSE, "f"), Slot(<<"A", "B">>, FALSE, "g"),
              Slot(<<"A">>, TRUE, "D"), Slot(<<"B">>, TRUE, "D"),
              Slot(<<>>, FALSE, "unused")}

DirSlots == {Slot(<<"A">>, FALSE, "h"), Slot(<<"A", "B">>, FALSE, "i"),
             Slot(<<"B">>, TRUE, "E")}

MCDisks ==
  {("root" :> r \o <<Slot(<<"B">>, FALSE, "k")>>) @@ ("D" :> <<Dot>> \o d) @@ ("E" :> <<Slot(<<"B">>, FALSE, "j")>>) :
     r \in [1 .. 2 -> RootSlots], d \in [1 .. 2 -> DirSlots]}

Names == {<<>>, <<"A">>, <<"B">>, <<"A", "B">>}

MCLetters == {"A", "B", "."}

MCPaths == UNION {[1 .. n -> Names] : n \in 1 .. 3}

=============================================================================
