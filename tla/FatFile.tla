------------------------------- MODULE FatFile -------------------------------
(***************************************************************************)
(* Reading a file of the FAT16 file system, fs/fat.c: one call of          *)
(* fat_file_read follows the cluster chain from the file's first cluster,  *)
(* copies bytes to the caller's buffer, and takes the next cluster from    *)
(* the FAT, into the same buffer that held the cluster's data.             *)
(*                                                                         *)
(* Each of the two reads from the disk is a step, and so is each iteration *)
(* of the loop over the bytes.  A byte of the data is known by its cluster *)
(* and its place there, a byte of the FAT by its place in the FAT.  The    *)
(* disk answers every read (fs/fat.c ignores the status of vread, and      *)
(* ata_read_callback returns none).                                        *)
(***************************************************************************)
EXTENDS Integers, Sequences

CONSTANTS
  SectorLen,    \* bytes in a sector: 512
  ClusterLen,   \* bytes in a cluster: 512 * SectorsPerCluster
  Clusters,     \* the cluster numbers of the disk
  Chains,       \* the cluster chains that files of the disk have
  FAT16_EOF,    \* the code's end-of-file mark: 0xFFF8
  EndMarks,     \* the marks that end a chain on the disk
  MaxEntry,     \* the largest FAT entry: 0xFFFF
  Sizes,        \* the lengths callers ask for
  MaxVisited    \* bound: clusters a call is followed for

ASSUME LengthAssumption  == ClusterLen \in Nat \ {0}
ASSUME SectorAssumption  == SectorLen \in 1 .. ClusterLen /\ SectorLen % 2 = 0
ASSUME ClusterAssumption == Clusters \subseteq Nat /\ FAT16_EOF \in Nat /\ MaxEntry \in Nat
                            /\ \A c \in Clusters : c < FAT16_EOF
ASSUME MarksAssumption   == EndMarks \subseteq FAT16_EOF .. MaxEntry
ASSUME ChainsAssumption  ==
  /\ Chains \subseteq Seq(Clusters) \ {<<>>}
  /\ \A f \in Chains : \A m, n \in 1 .. Len(f) : f[m] = f[n] => m = n
ASSUME CallsAssumption   == Sizes \subseteq Nat /\ MaxVisited \in Nat

VARIABLES
  chain, mark,       \* the file: its clusters, and the mark behind the last
  size,              \* the argument; offset, the other one, is never looked at
  pc,                \* "loop", "copy", "next", "entry", "done"
  current_cluster,
  buffer,            \* one cluster long
  i,                 \* the loop variable of the copying
  out,               \* the bytes written so far, from ptr on: index = Len(out)
  visited            \* how many clusters have been read

vars == <<chain, mark, size, pc, current_cluster, buffer, i, out, visited>>

\* What the bytes are of, where it is not a cluster: the FAT, or the memory that
\* malloc has handed out.
FAT    == -1
Memory == -2

Bytes == ({FAT, Memory} \cup Nat) \X Nat

\* A call of fat_file_read for a file that _fat_get_filehandle has found.
Init ==
  /\ chain \in Chains /\ mark \in EndMarks
  /\ size \in Sizes
  /\ pc = "loop"
  /\ current_cluster = chain[1]
  /\ buffer = [j \in 0 .. ClusterLen - 1 |-> <<Memory, j>>]
  /\ i = 0 /\ out = <<>> /\ visited = 0

\* The values the FAT may hold for cluster c: the next one of the chain, or,
\* for a number that is no cluster of the file, anything at all.
Fat(c) ==
  IF \E n \in DOMAIN chain : chain[n] = c
  THEN {IF n = Len(chain) THEN mark ELSE chain[n + 1] :
          n \in {m \in DOMAIN chain : chain[m] = c}}
  ELSE 0 .. MaxEntry

\* (mutant: 0xFFFF is taken for a cluster as well)
GoesOnAlways(c) == c <= MaxEntry

\* The condition of the outer loop.
GoesOn(c) == c <= FAT16_EOF

\* (mutant: one sector of the cluster is read, as of the FAT)
OneSector(c) == [j \in 0 .. ClusterLen - 1 |-> IF j < SectorLen THEN <<c, j>> ELSE buffer[j]]

\* What vread puts into the buffer for cluster c: all its sectors.
Data(c) == [j \in 0 .. ClusterLen - 1 |-> <<c, j>>]

\* Into the next iteration: the cluster is read into the buffer.
ReadCluster ==
  /\ pc = "loop"
  /\ GoesOn(current_cluster)
  /\ visited < MaxVisited
  /\ pc' = "copy"
  /\ buffer' = Data(current_cluster)
  /\ i' = 0
  /\ visited' = visited + 1
  /\ UNCHANGED <<chain, mark, size, current_cluster, out>>

\* Out of the loop.
Done ==
  /\ pc = "loop"
  /\ ~GoesOn(current_cluster)
  /\ pc' = "done"
  /\ UNCHANGED <<chain, mark, size, current_cluster, buffer, i, out, visited>>

\* (mutant: the test stands in front of the increment)
FullLate(n) == n - 1 > size

\* The test behind index++ that leaves the inner loop.
Full(n) == n > size

\* Whether i++ ends the inner loop.
LastOfCluster == i + 1 >= ClusterLen

\* One iteration of the inner loop.
CopyByte ==
  /\ pc = "copy"
  /\ out' = Append(out, buffer[i])
  /\ i' = i + 1
  /\ pc' = IF Full(Len(out')) \/ LastOfCluster THEN "next" ELSE "copy"
  /\ UNCHANGED <<chain, mark, size, current_cluster, buffer, visited>>

\* Where the entry of a cluster is: 2 bytes for each.
fat_offset == current_cluster * 2
fat_sector == fat_offset \div SectorLen
ent_offset == fat_offset % SectorLen

\* The sector of the FAT is read over the beginning of the cluster.
ReadFat ==
  /\ pc = "next"
  /\ buffer' = [j \in 0 .. ClusterLen - 1 |->
                  IF j < SectorLen THEN <<FAT, SectorLen * fat_sector + j>> ELSE buffer[j]]
  /\ pc' = "entry"
  /\ UNCHANGED <<chain, mark, size, current_cluster, i, out, visited>>

\* The number that two bytes of buffer make: an entry, if they are one's.
Number(low, high) ==
  IF low[1] = FAT /\ low[2] % 2 = 0 /\ high = <<FAT, low[2] + 1>>
  THEN Fat(low[2] \div 2)
  ELSE 0 .. MaxEntry

\* The entry is taken from the buffer.
NextCluster ==
  /\ pc = "entry"
  /\ current_cluster' \in Number(buffer[ent_offset], buffer[ent_offset + 1])
  /\ pc' = "loop"
  /\ UNCHANGED <<chain, mark, size, buffer, i, out, visited>>

\* Every step of the call; it stops when it has returned.
Next == ReadCluster \/ Done \/ CopyByte \/ ReadFat \/ NextCluster

Spec == Init /\ [][Next]_vars

\* The call runs on: nothing in it waits for anything but the disk.
FairSpec == Spec /\ WF_vars(Next)

-----------------------------------------------------------------------------
(* Properties *)

\* The types of the variables.
TypeOK ==
  /\ chain \in Chains /\ mark \in EndMarks
  /\ size \in Sizes
  /\ pc \in {"loop", "copy", "next", "entry", "done"}
  /\ current_cluster \in Clusters \cup (0 .. MaxEntry)
  /\ buffer \in [0 .. ClusterLen - 1 -> Bytes]
  /\ i \in 0 .. ClusterLen
  /\ pc = "copy" => i < ClusterLen
  /\ out \in Seq(Bytes)
  /\ visited \in Nat

\* The bytes of the file, from 0 on.
FileLen == ClusterLen * Len(chain)
FileByte(n) == <<chain[(n \div ClusterLen) + 1], n % ClusterLen>>

\* What the caller finds in the first size bytes of its buffer are the bytes of
\* the file, in order, across every cluster boundary.
DeliversFile ==
  \A n \in 1 .. Len(out) : n <= size /\ n <= FileLen => out[n] = FileByte(n - 1)

\* When the call returns, every byte of the file that fits has been delivered.
DeliversAll == pc = "done" => Len(out) >= size \/ Len(out) >= FileLen

\* How far the call writes past the size asked for: by one byte for each cluster
\* it reads, since leaving the inner loop does not leave the outer one.
OverrunBounded == Len(out) <= size + visited

\* Only the file's own clusters are read, each of them once, in order.
ReadsOwnClusters ==
  /\ visited <= Len(chain)
  /\ pc \in {"copy", "next", "entry"} => visited > 0 /\ current_cluster = chain[visited]

\* What the caller is given: the whole file or as much as it asked for, in order,
\* although data and FAT go through one buffer: no byte of the FAT, of a cluster
\* before or of unwritten memory gets into the copy, and no data into the chain.
ReadIsExact == DeliversFile /\ DeliversAll

\* What a read touches besides.
StaysInFile == OverrunBounded /\ ReadsOwnClusters

\* The call returns: the chain is followed to its mark, whatever the size.
ReadEnds == <>(pc = "done")

=============================================================================
