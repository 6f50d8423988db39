------------------------------ MODULE FatLookup ------------------------------
(***************************************************************************)
(* Looking a path up in the FAT16 file system, fs/fat.c:                   *)
(* _fat_get_filehandle, called by fat_find_dir when a file is opened and   *)
(* by fat_file_read at every read.  strtok takes the path apart; it keeps  *)
(* the rest of the string in a static variable between its calls, and      *)
(* mallocs a buffer for every component.  The root directory is searched   *)
(* in a copy of its own, every other one in the 512 bytes that             *)
(* fat_file_read_with_handle (FatFile) has read.  fat_read_dir lists the   *)
(* root directory, one index after the other.  The callbacks of directory  *)
(* nodes are never reached: opening a directory ends in a page fault.      *)
(*                                                                         *)
(* A path is the sequence of its components: "A/B" is <<"A", "B">>, and a  *)
(* slash at its end or a second one in a row is an empty component.        *)
(***************************************************************************)
EXTENDS Integers, Sequences, SequencesExt, FiniteSets

CONSTANTS
  Disks,        \* the directory trees: functions from directories to slots
  Root,         \* the root directory
  Letters,      \* the characters of names
  Paths,        \* the paths that callers look up
  Seen,         \* slots of a directory that fit the buffer: 512 / 32
  MaxLookups    \* bound: the lookups of a behaviour

ASSUME SeenAssumption  == Seen \in Nat \ {0} /\ MaxLookups \in Nat
ASSUME PathsAssumption == /\ \A p \in Paths : p \in Seq(Seq(Letters)) /\ p # <<>>
                          /\ "NULL" \notin Letters
ASSUME DisksAssumption ==
  \A t \in Disks :
    /\ Root \in DOMAIN t
    /\ \A d \in DOMAIN t :
         /\ Len(t[d]) \in Nat /\ DOMAIN t[d] = 1 .. Len(t[d])
         /\ \A n \in DOMAIN t[d] : /\ t[d][n].name \in Seq(Letters) /\ t[d][n].isdir \in BOOLEAN
                                   /\ t[d][n].isdir => t[d][n].node \in DOMAIN t

NULL == <<"NULL">>      \* no component: the null pointer

\* What lies at address 0: page table entries, attributes and cluster of which
\* read as 0, so that they pass for a file without clusters.
AtNull == [name |-> <<>>, isdir |-> FALSE, node |-> "page table"]

VARIABLES
  disk, path,
  input,        \* strtok's static variable: the rest of the path, or <<>> for NULL
  nodename,     \* the component at hand
  where,        \* the directory in buffer, or "garbage"
  entry,        \* the last entry found
  live,         \* how many blocks the call has allocated and not freed
  leaked,       \* how many blocks of strtok's no pointer leads to any more
  listed,       \* the slots a listing of the root directory has returned
  lookups,      \* the calls so far
  stage         \* "idle", "root", "walk", "find", "ok", "failed", "fault", "list"

lookupVars == <<disk, path, input, nodename, where, entry, live, leaked, listed, lookups, stage>>

LookupInit ==
  /\ disk \in Disks
  /\ path = <<>> /\ input = <<>>
  /\ nodename = NULL /\ where = "garbage" /\ entry = AtNull
  /\ live = 0 /\ leaked = 0 /\ listed = <<>> /\ lookups = 0
  /\ stage = "idle"

-----------------------------------------------------------------------------
(* strtok *)

\* The component strtok returns: the first that is not empty, or the last.
Token(s) ==
  CHOOSE n \in DOMAIN s :
    /\ s[n] # <<>> \/ n = Len(s)
    /\ \A m \in 1 .. n - 1 : s[m] = <<>>

\* (mutant: the static variable is not moved on)
StrtokStays(s) == nodename' = s[Token(s)] /\ input' = s /\ leaked' = leaked + Token(s) - 1

\* strtok(s): its result is malloced, and so is one for every component skipped.
strtok(s) ==
  /\ nodename' = s[Token(s)]
  /\ input' = SubSeq(s, Token(s) + 1, Len(s))
  /\ leaked' = leaked + Token(s) - 1

\* A caller passes a path.
Lookup(p) ==
  /\ stage = "idle"
  /\ lookups < MaxLookups
  /\ path' = p
  /\ strtok(p)
  /\ live' = 2      \* nodename and buffer
  /\ lookups' = lookups + 1
  /\ where' = "garbage"
  /\ stage' = "root"
  /\ UNCHANGED <<disk, entry, listed>>

-----------------------------------------------------------------------------
(* Searching a directory *)

\* (mutant: the comparison runs over the entry's name)
MatchesWhole(e, s) == IsPrefix(e.name, s)

\* memcmp over the length of the name that is looked for.
Matches(e, s) == IsPrefix(s, e.name)

\* The slots of directory d among which s is found.
Hits(d, s) == {n \in DOMAIN disk[d] : n <= Seen /\ Matches(disk[d][n], s)}

\* _fat_get_filehandle_buffer: the first slot that matches.
FirstHit(d, s) == disk[d][CHOOSE n \in Hits(d, s) : \A m \in Hits(d, s) : n <= m]

\* The root directory has the entry, or what lies at address 0 is taken for it.
SearchRoot ==
  /\ stage = "root"
  /\ entry' = IF Hits(Root, nodename) = {} THEN AtNull ELSE FirstHit(Root, nodename)
  /\ IF entry'.isdir
     THEN /\ where' = entry'.node
          /\ live' = live + 1      \* result
          /\ stage' = "walk"
     ELSE /\ live' = live - 2      \* nodename and buffer; result came and went
          /\ stage' = "ok"
          /\ UNCHANGED where
  /\ UNCHANGED <<disk, path, input, nodename, leaked, listed, lookups>>

\* (mutant: a component that was dealt with is not freed)
KeepNodename == live

\* free(nodename)
FreeNodename == live - 1

\* The next component; behind the last one it is NULL.
NextToken ==
  /\ stage = "walk"
  /\ IF input = <<>>
     THEN /\ nodename' = NULL
          /\ live' = FreeNodename
          /\ UNCHANGED <<input, leaked>>
     ELSE /\ strtok(input)
          /\ live' = FreeNodename + 1
  /\ stage' = "find"
  /\ UNCHANGED <<disk, path, where, entry, listed, lookups>>

\* The component is in the directory: a directory is read and the walk goes on,
\* anything else is the answer.
FindEntry ==
  /\ stage = "find" /\ nodename # NULL
  /\ Hits(where, nodename) # {}
  /\ entry' = FirstHit(where, nodename)
  /\ IF entry'.isdir
     THEN /\ where' = entry'.node
          /\ stage' = "walk"
          /\ UNCHANGED live
     ELSE /\ stage' = "ok"
          /\ live' = live - 3      \* nodename, buffer and result
          /\ UNCHANGED where
  /\ UNCHANGED <<disk, path, input, nodename, leaked, listed, lookups>>

\* It is not: the call returns 1.
NotFound ==
  /\ stage = "find" /\ nodename # NULL
  /\ Hits(where, nodename) = {}
  /\ live' = live - 3      \* nodename, buffer and result
  /\ stage' = "failed"
  /\ UNCHANGED <<disk, path, input, nodename, where, entry, leaked, listed, lookups>>

\* The name is the null pointer: the bytes there, of the first page table entry,
\* begin no entry's name, and free(NULL) looks for the block's header below
\* address 0, where no memory is mapped.
FreeNull ==
  /\ stage = "find" /\ nodename = NULL
  /\ stage' = "fault"
  /\ UNCHANGED <<disk, path, input, nodename, where, entry, live, leaked, listed, lookups>>

\* The caller has the answer; of the call only strtok's input is left.
Return ==
  /\ stage \in {"ok", "failed"}
  /\ path' = <<>> /\ nodename' = NULL /\ where' = "garbage" /\ entry' = AtNull
  /\ stage' = "idle"
  /\ UNCHANGED <<disk, input, live, leaked, listed, lookups>>

-----------------------------------------------------------------------------
(* Listing the root directory *)

\* A caller begins with index 0 and goes on until the call fails.
List ==
  /\ stage = "idle"
  /\ lookups < MaxLookups
  /\ lookups' = lookups + 1
  /\ listed' = <<>>
  /\ stage' = "list"
  /\ UNCHANGED <<disk, path, input, nodename, where, entry, live, leaked>>

\* Slots without a first cluster are passed over.
Used(e) == e.node # "unused"

\* How many used slots lie in front of slot n.
Count(n) == Cardinality({m \in 1 .. n - 1 : Used(disk[Root][m])})

\* (mutant: count is incremented before the comparison)
ReachesEarly(n, index) == Count(n) + 1 >= index

\* count++ >= index
Reaches(n, index) == Count(n) >= index

\* The slots that answer index, of which the loop takes the first; none does if
\* the index is beyond the buffer.
Answers(index) ==
  {n \in DOMAIN disk[Root] :
     index <= Seen /\ n <= Seen /\ Used(disk[Root][n]) /\ Reaches(n, index)}

\* fat_read_dir: the index has an entry, and the buffer is not freed.
ReadDir ==
  LET index == Len(listed)
  IN  /\ stage = "list" /\ Answers(index) # {}
      /\ listed' = Append(listed, CHOOSE n \in Answers(index) : \A m \in Answers(index) : n <= m)
      /\ leaked' = leaked + 1
      /\ UNCHANGED <<disk, path, input, nodename, where, entry, live, lookups, stage>>

\* It has none.
ReadDirEnd ==
  /\ stage = "list" /\ Answers(Len(listed)) = {}
  /\ listed' = <<>>
  /\ stage' = "idle"
  /\ UNCHANGED <<disk, path, input, nodename, where, entry, live, leaked, lookups>>

Step == SearchRoot \/ NextToken \/ FindEntry \/ NotFound \/ FreeNull \/ Return

LookupNext == (\E p \in Paths : Lookup(p)) \/ Step \/ List \/ ReadDir \/ ReadDirEnd

LookupSpec == LookupInit /\ [][LookupNext]_lookupVars

-----------------------------------------------------------------------------
(* Properties *)

\* The types of the variables.
LookupTypeOK ==
  /\ disk \in Disks
  /\ path \in Paths \cup {<<>>}
  /\ input = <<>> \/ \E p \in Paths : \E n \in DOMAIN p : input = SubSeq(p, n + 1, Len(p))
  /\ where \in DOMAIN disk \cup {"garbage"}
  /\ stage \in {"walk", "find"} => where \in DOMAIN disk
  /\ entry = AtNull \/ \E d \in DOMAIN disk : \E n \in DOMAIN disk[d] : entry = disk[d][n]
  /\ live \in Nat /\ leaked \in Nat /\ lookups \in 0 .. MaxLookups
  /\ stage \in {"idle", "root", "walk", "find", "ok", "failed", "fault", "list"}
  /\ listed \in Seq(1 .. Seen)

\* What a path means: its components lead from the root down, a file ends the
\* way whatever follows, and an empty component says nothing.
Top     == [name |-> <<>>, isdir |-> TRUE, node |-> Root]
Missing == [name |-> <<>>, isdir |-> FALSE, node |-> "missing"]

Down(t, at, s) ==
  IF ~at.isdir \/ s = <<>> THEN at
  ELSE LET same == {n \in DOMAIN t[at.node] : t[at.node][n].name = s}
       IN  IF same = {} THEN Missing
           ELSE t[at.node][CHOOSE n \in same : \A m \in same : n <= m]

\* Where the first n components lead in the tree t.
Reached(t, p) ==
  LET at[n \in 0 .. Len(p)] == IF n = 0 THEN Top ELSE Down(t, at[n - 1], p[n]) IN at

Target(p) == Reached(disk, p)[Len(p)]

\* The path's components are names, not the beginnings of longer ones, and what
\* bears them lies in the part of the directory that is read.
Plain(p) ==
  /\ p # <<>> /\ Last(p) # <<>>
  /\ \A s \in ToSet(p) \ {<<>>} : \A d \in DOMAIN disk : \A n \in DOMAIN disk[d] :
       IsPrefix(s, disk[d][n].name) => s = disk[d][n].name /\ n <= Seen

\* The first component is in the root directory.
InRoot(p) ==
  \E k \in DOMAIN p, n \in DOMAIN disk[Root] :
    p[k] # <<>> /\ (\A m \in 1 .. k - 1 : p[m] = <<>>) /\ disk[Root][n].name = p[k]

\* The entry a lookup returns is the one its path leads to, it fails only where
\* the path leads nowhere, and it ends in a page fault only where the path leads
\* to a directory: strtok's static rest, the directories read one over the other
\* and the prefix comparison do not lead a plain path astray.  What the root
\* directory does not have is never reported: it is found at address 0.
Resolves ==
  Plain(path) =>
    IF InRoot(path)
    THEN /\ stage = "ok"     => entry = Target(path)
         /\ stage = "failed" => Target(path) = Missing
         /\ stage = "fault"  => Target(path).isdir
    ELSE /\ stage \notin {"failed", "fault"}
         /\ stage = "ok" => entry = AtNull

\* The blocks that a lookup has at each point: what it frees, it owns.
FreesWhatItOwns ==
  live = CASE stage \in {"idle", "ok", "failed", "list"} -> 0
           [] stage = "root" -> 2
           [] stage = "walk" -> 3
           [] OTHER -> IF nodename = NULL THEN 2 ELSE 3

\* What is left behind for ever: an empty component in front of another one,
\* and one block for each entry of a listing.
LeaksOnlyForSlashes ==
  leaked' > leaked =>
    IF stage = "list" THEN leaked' = leaked + 1 /\ Len(listed') > Len(listed)
    ELSE \E n \in 1 .. Len(path') - 1 : path'[n] = <<>>

\* Every step leaves each block to a lookup that still runs, or, for the two
\* kinds above, to nobody: between lookups nothing is allocated, on any of
\* their ways out.
Ownership == [][FreesWhatItOwns' /\ LeaksOnlyForSlashes]_lookupVars

\* A listing returns the root directory's used slots, each once and in order,
\* and stops behind the last that is read.
ListsUsed ==
  [][stage = "list" /\ stage' = "idle" =>
       /\ \A m, n \in DOMAIN listed : m < n => listed[m] < listed[n]
       /\ ToSet(listed) = {n \in DOMAIN disk[Root] : n <= Seen /\ Used(disk[Root][n])}]_lookupVars

=============================================================================
