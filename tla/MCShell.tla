------------------------------ MODULE MCShell ------------------------------
(* The shell with a screen of three rows of three cells, lines of three
   characters and four programs, for TLC.  The last name begins an earlier one. *)
EXTENDS Shell

CONSTANTS a, b, nul, prompt, blank

MCKeys    == {a, b, nul}
MCChars   == {a, b, nul, prompt}
MCPrefix  == <<prompt>>
MCNames   == << <<a, b>>, <<b>>, <<b, a>>, <<a>> >>
MCMessage == <<b>>

\* A program that does nothing besides three of the table's.
MCEffects == <<help_prog, cls_prog, fatreader_prog, <<>> >>

=============================================================================
