---------------------------- MODULE Fat_proofs ----------------------------
(***************************************************************************)
(* Proofs about fat_file_read (FatFile), for every cluster size, every     *)
(* file and every length asked for: they need that no chain ends in        *)
(* FAT16_EOF itself, the mark that the code's loop takes for a cluster.    *)
(* And about the lookups and the listing of FatLookup, for every tree and  *)
(* every set of paths.                                                     *)
(***************************************************************************)
EXTENDS FatFile, FatLookup, SequenceTheorems, FiniteSetTheorems, WellFoundedInduction, TLAPS

USE LengthAssumption, ClusterAssumption, MarksAssumption, ChainsAssumption,
    CallsAssumption

\* The chains of the disk end in one of the marks above FAT16_EOF.
NoBareEof == FAT16_EOF \notin EndMarks

-----------------------------------------------------------------------------
(* The invariant *)

\* The cluster at hand is the one the chain has at this place, or its mark.
InChain ==
  /\ visited <= Len(chain)
  /\ pc \in {"copy", "next", "entry"} => visited > 0 /\ current_cluster = chain[visited]
  /\ pc = "loop" =>
       current_cluster = IF visited < Len(chain) THEN chain[visited + 1] ELSE mark
  /\ pc = "done" => visited = Len(chain)

\* As long as no more than size bytes are written, none has been left out: those
\* of the clusters behind and i of the one at hand.
InStep ==
  /\ pc = "copy" => /\ Len(out) <= size + visited - 1
                    /\ Len(out) <= size => Len(out) = ClusterLen * (visited - 1) + i
                    /\ Len(out) > size => i = 0
  /\ pc # "copy" => /\ Len(out) <= size + visited
                    /\ Len(out) <= size => Len(out) = ClusterLen * visited

\* What the one buffer holds: the whole cluster for as long as it is copied, and
\* the entry of that cluster when it is looked up.
InBuffer ==
  /\ pc = "copy" => buffer = Data(current_cluster)
  /\ pc = "entry" => /\ ent_offset + 1 < ClusterLen
                     /\ buffer[ent_offset] = <<FAT, current_cluster * 2>>
                     /\ buffer[ent_offset + 1] = <<FAT, current_cluster * 2 + 1>>

IInv == TypeOK /\ InChain /\ InStep /\ InBuffer /\ DeliversFile

-----------------------------------------------------------------------------
(* Arithmetic *)

LEMMA Place ==
  ASSUME NEW q \in Nat, NEW r \in 0 .. ClusterLen - 1
  PROVE  /\ ClusterLen * q + r \in Nat
         /\ (ClusterLen * q + r) \div ClusterLen = q
         /\ (ClusterLen * q + r) % ClusterLen = r
<1> DEFINE x == ClusterLen * q + r
           p == x \div ClusterLen
           s == x % ClusterLen
<1>1. x \in Nat
  OBVIOUS
<1>2. p \in Nat /\ s \in 0 .. ClusterLen - 1 /\ x = ClusterLen * p + s
  BY <1>1
<1>3. p = q /\ s = r
  <2> HIDE DEF p, s
  <2>1. ASSUME NEW a \in Nat, NEW b \in Nat, a < b
        PROVE  ClusterLen * a + ClusterLen <= ClusterLen * b
    <3>1. PICK d \in Nat : b = a + 1 + d
      <4>1. b - a - 1 \in Nat /\ b = a + 1 + (b - a - 1)
        BY <2>1
      <4> QED
        BY <4>1
    <3>2. ClusterLen * b = ClusterLen * a + ClusterLen + ClusterLen * d
      BY <3>1
    <3>3. ClusterLen * d \in Nat /\ ClusterLen * a \in Nat
      OBVIOUS
    <3> QED
      BY <3>2, <3>3
  <2>2. ClusterLen * p \in Nat /\ ClusterLen * q \in Nat
    BY <1>2
  <2>3. ~(p < q)
    BY <1>2, <2>1, <2>2
  <2>4. ~(q < p)
    BY <1>2, <2>1, <2>2
  <2>5. p = q
    BY <1>2, <2>3, <2>4
  <2> QED
    BY <1>2, <2>2, <2>5
<1> QED
  BY <1>1, <1>3

\* An entry lies whole in the sector read for it, and that sector in buffer.
LEMMA EntryPlace ==
  ASSUME current_cluster \in Nat
  PROVE  /\ fat_sector \in Nat /\ ent_offset \in Nat
         /\ ent_offset + 1 < SectorLen
         /\ SectorLen * fat_sector + ent_offset = current_cluster * 2
<1>1. /\ SectorLen \in Nat \ {0} /\ SectorLen % 2 = 0
      /\ fat_offset \in Nat /\ fat_offset = 2 * current_cluster
  BY SectorAssumption DEF fat_offset
<1>2. /\ fat_sector \in Nat /\ ent_offset \in 0 .. SectorLen - 1
      /\ fat_offset = SectorLen * fat_sector + ent_offset
  BY <1>1 DEF fat_sector, ent_offset
<1>3. PICK h \in Nat : SectorLen = 2 * h
  <2>1. SectorLen \div 2 \in Nat /\ SectorLen = 2 * (SectorLen \div 2)
    BY <1>1
  <2> QED
    BY <2>1
<1>4. ent_offset # SectorLen - 1
  <2> SUFFICES ASSUME ent_offset = SectorLen - 1 PROVE FALSE
    OBVIOUS
  <2> DEFINE k == h * fat_sector
  <2>1. SectorLen * fat_sector = 2 * k /\ k \in Nat
    BY <1>2, <1>3
  <2> HIDE DEF k
  <2>2. 2 * current_cluster = 2 * k + 2 * h - 1
    BY <1>1, <1>2, <1>3, <2>1
  <2> QED
    BY <1>3, <2>1, <2>2
<1>5. ent_offset \in Nat /\ ent_offset + 1 < SectorLen
  BY <1>1, <1>2, <1>4
<1> QED
  BY <1>1, <1>2, <1>5

LEMMA DataType ==
  ASSUME NEW c \in Nat
  PROVE  Data(c) \in [0 .. ClusterLen - 1 -> Bytes]
  BY DEF Data, Bytes

\* The byte that the loops reach is the one the file has there.
LEMMA ByteOfFile ==
  ASSUME TypeOK, InChain, InStep, InBuffer, pc = "copy", Len(out) <= size
  PROVE  FileByte(Len(out)) = buffer[i]
<1>1. visited - 1 \in Nat /\ i \in 0 .. ClusterLen - 1
  BY DEF TypeOK, InChain
<1>2. Len(out) = ClusterLen * (visited - 1) + i
  BY DEF InStep
<1>3. (ClusterLen * (visited - 1) + i) \div ClusterLen = visited - 1
      /\ (ClusterLen * (visited - 1) + i) % ClusterLen = i
  BY <1>1, Place
<1>4. FileByte(Len(out)) = <<chain[visited], i>>
  <2>1. Len(out) \div ClusterLen = visited - 1 /\ Len(out) % ClusterLen = i
    BY <1>2, <1>3
  <2>2. (visited - 1) + 1 = visited
    BY DEF TypeOK
  <2> QED
    BY <2>1, <2>2 DEF FileByte
<1> QED
  BY <1>1, <1>4 DEF InBuffer, Data, InChain

-----------------------------------------------------------------------------
(* The steps *)

LEMMA ChainFacts ==
  ASSUME TypeOK
  PROVE  /\ chain \in Seq(Clusters) /\ Len(chain) \in Nat /\ Len(chain) > 0
         /\ \A n \in 1 .. Len(chain) :
              chain[n] \in Clusters /\ chain[n] \in Nat /\ chain[n] < FAT16_EOF
         /\ \A m, n \in 1 .. Len(chain) : chain[m] = chain[n] => m = n
         /\ mark \in FAT16_EOF .. MaxEntry
<1>1. chain \in Chains /\ mark \in EndMarks
  BY DEF TypeOK
<1>2. chain \in Seq(Clusters) /\ chain # <<>>
  BY <1>1
<1>3. Len(chain) \in Nat /\ Len(chain) > 0
  BY <1>2
<1>4. \A n \in 1 .. Len(chain) : chain[n] \in Clusters
  BY <1>2
<1>5. \A m, n \in 1 .. Len(chain) : chain[m] = chain[n] => m = n
  BY <1>1
<1> QED
  BY <1>1, <1>2, <1>3, <1>4, <1>5

LEMMA InitInv == Init => IInv
<1> SUFFICES ASSUME Init PROVE IInv
  OBVIOUS
<1>1. chain \in Seq(Clusters) /\ chain # <<>>
  BY DEF Init
<1>2. Len(chain) \in Nat /\ Len(chain) > 0 /\ chain[1] \in Clusters
  BY <1>1
<1>3. TypeOK
  <2>1. current_cluster \in Clusters /\ out \in Seq(Bytes) /\ i \in 0 .. ClusterLen
    BY <1>2 DEF Init
  <2>2. buffer \in [0 .. ClusterLen - 1 -> Bytes]
    BY DEF Init, Bytes
  <2> QED
    BY <2>1, <2>2 DEF Init, TypeOK
<1>4. InChain
  BY <1>2 DEF Init, InChain
<1>5. Len(out) = 0 /\ size \in Nat /\ ClusterLen * 0 = 0
  BY DEF Init
<1> QED
  BY <1>3, <1>4, <1>5 DEF IInv, InStep, InBuffer, DeliversFile, Init

LEMMA ReadClusterInv == NoBareEof /\ IInv /\ ReadCluster => IInv'
<1> SUFFICES ASSUME NoBareEof, IInv, ReadCluster PROVE IInv'
  OBVIOUS
<1> USE DEF IInv
<1>1. TypeOK'
  <2>1. i' \in 0 .. ClusterLen /\ i' < ClusterLen /\ visited' \in Nat
    BY DEF ReadCluster, TypeOK
  <2>2. buffer' \in [0 .. ClusterLen - 1 -> Bytes]
    BY DataType DEF ReadCluster, TypeOK
  <2> QED
    BY <2>1, <2>2 DEF ReadCluster, TypeOK
<1>2. visited < Len(chain)
  <2>1. current_cluster <= FAT16_EOF
    BY DEF ReadCluster, GoesOn
  <2>2. mark \in FAT16_EOF .. MaxEntry /\ mark # FAT16_EOF
    BY ChainFacts DEF NoBareEof, TypeOK
  <2>3. current_cluster # mark
    BY <2>1, <2>2
  <2> QED
    BY <2>3 DEF ReadCluster, InChain
<1>3. InChain'
  BY <1>2, ChainFacts DEF ReadCluster, InChain, TypeOK
<1>4. InStep'
  BY ChainFacts DEF ReadCluster, InStep, TypeOK
<1>5. DeliversFile'
  BY DEF ReadCluster, DeliversFile, FileLen, FileByte
<1>6. InBuffer'
  BY DEF ReadCluster, InBuffer, Data
<1> QED
  BY <1>1, <1>3, <1>4, <1>5, <1>6

LEMMA DoneInv == IInv /\ Done => IInv'
<1> SUFFICES ASSUME IInv, Done PROVE IInv'
  OBVIOUS
<1> USE DEF IInv
<1>1. TypeOK'
  BY DEF Done, TypeOK
<1>2. visited = Len(chain)
  <2>1. ~(visited < Len(chain))
    <3> SUFFICES ASSUME visited < Len(chain) PROVE FALSE
      OBVIOUS
    <3>1. visited + 1 \in 1 .. Len(chain) /\ current_cluster = chain[visited + 1]
      BY ChainFacts DEF Done, InChain, TypeOK
    <3> QED
      BY <3>1, ChainFacts DEF Done, GoesOn
  <2> QED
    BY <2>1, ChainFacts DEF InChain, TypeOK
<1>3. InChain'
  BY <1>2, ChainFacts DEF Done, InChain, TypeOK
<1>4. InStep' /\ InBuffer' /\ DeliversFile'
  BY DEF Done, InStep, InBuffer, DeliversFile, FileLen, FileByte
<1> QED
  BY <1>1, <1>3, <1>4

LEMMA CopyByteInv == IInv /\ CopyByte => IInv'
<1> SUFFICES ASSUME IInv, CopyByte PROVE IInv'
  OBVIOUS
<1> USE DEF IInv
<1>1. /\ out \in Seq(Bytes) /\ Len(out) \in Nat
      /\ size \in Nat /\ visited \in Nat /\ visited > 0 /\ i \in 0 .. ClusterLen - 1
  BY DEF TypeOK, InChain, CopyByte
<1>2. buffer[i] \in Bytes
  BY <1>1 DEF TypeOK
<1>3. /\ out' \in Seq(Bytes) /\ Len(out') = Len(out) + 1
      /\ out'[Len(out) + 1] = buffer[i]
      /\ \A n \in 1 .. Len(out) : out'[n] = out[n]
  BY <1>1, <1>2 DEF CopyByte
<1>4. TypeOK'
  <2>1. i' \in 0 .. ClusterLen /\ pc' \in {"copy", "next"}
    BY <1>1 DEF CopyByte
  <2>2. pc' = "copy" => i' < ClusterLen
    BY <1>1 DEF CopyByte, LastOfCluster
  <2> QED
    BY <2>1, <2>2, <1>3 DEF CopyByte, TypeOK
<1>5. InChain'
  BY <1>1 DEF CopyByte, InChain
<1>6. InStep'
  <2> DEFINE before == ClusterLen * (visited - 1)
  <2>0. before \in Nat /\ ClusterLen * visited = before + ClusterLen
    BY <1>1
  <2>1. Len(out) <= size => Len(out) = before + i
    BY DEF InStep, CopyByte
  <2>2. Len(out) <= size + visited - 1
    BY DEF InStep, CopyByte
  <2>3. i \in Nat /\ Len(out) \in Nat /\ Len(out') = Len(out) + 1
    BY <1>1, <1>3
  <2>4. CASE pc' = "copy"
    <3>1. Len(out') <= size
      BY <2>4, <1>1, <1>3 DEF CopyByte, Full
    <3>2. Len(out') = before + (i + 1)
      <4> HIDE DEF before
      <4>1. Len(out) = before + i
        BY <3>1, <2>1, <2>3, <1>1
      <4> QED
        BY <2>0, <4>1, <2>3
    <3> QED
      BY <2>4, <3>1, <3>2, <1>1, <1>3 DEF InStep, CopyByte
  <2>5. CASE pc' = "next"
    <3>1. Len(out') <= size + visited
      BY <2>2, <1>1, <1>3
    <3>2. ASSUME Len(out') <= size PROVE Len(out') = ClusterLen * visited
      <4>1. i + 1 = ClusterLen
        BY <3>2, <2>5, <1>1 DEF CopyByte, Full, LastOfCluster
      <4> HIDE DEF before
      <4>2. Len(out) = before + i
        BY <3>2, <2>1, <2>3, <1>1
      <4>3. Len(out') = before + ClusterLen
        BY <2>0, <4>1, <4>2, <2>3
      <4> QED
        BY <2>0, <4>3
    <3> QED
      BY <3>1, <3>2, <2>5 DEF InStep, CopyByte
  <2> QED
    BY <2>4, <2>5 DEF CopyByte
<1>7. DeliversFile'
  <2> SUFFICES ASSUME NEW n \in 1 .. Len(out'), n <= size, n <= FileLen
               PROVE  out'[n] = FileByte(n - 1)
    BY DEF DeliversFile, CopyByte, FileLen, FileByte
  <2>1. CASE n <= Len(out)
    <3>1. n \in 1 .. Len(out)
      BY <2>1, <1>1
    <3>2. out[n] = FileByte(n - 1)
      BY <3>1 DEF DeliversFile
    <3> QED
      BY <3>1, <3>2, <1>3
  <2>2. CASE n = Len(out) + 1
    <3>1. Len(out) <= size /\ n - 1 = Len(out)
      BY <2>2, <1>1
    <3>2. FileByte(Len(out)) = buffer[i]
      BY <3>1, ByteOfFile DEF CopyByte
    <3> QED
      BY <3>1, <3>2, <2>2, <1>3
  <2> QED
    BY <2>1, <2>2, <1>1, <1>3
<1>8. InBuffer'
  BY <1>1 DEF CopyByte, InBuffer, Data
<1> QED
  BY <1>4, <1>5, <1>6, <1>7, <1>8

LEMMA ReadFatInv == IInv /\ ReadFat => IInv'
<1> SUFFICES ASSUME IInv, ReadFat PROVE IInv'
  OBVIOUS
<1> USE DEF IInv
<1> DEFINE at(j) == IF j < SectorLen THEN <<FAT, SectorLen * fat_sector + j>> ELSE buffer[j]
<1>1. current_cluster \in Nat
  BY ChainFacts DEF InChain, ReadFat, TypeOK
<1>0. SectorLen \in Nat /\ SectorLen <= ClusterLen
  BY SectorAssumption
<1>2. /\ fat_sector \in Nat /\ ent_offset \in Nat
      /\ ent_offset + 1 < SectorLen
      /\ SectorLen * fat_sector + ent_offset = current_cluster * 2
  BY <1>1, EntryPlace
<1>3. buffer' = [j \in 0 .. ClusterLen - 1 |-> at(j)]
  BY DEF ReadFat
<1>4. SectorLen * fat_sector \in Nat
  BY <1>0, <1>2
<1>5. TypeOK'
  <2>1. ASSUME NEW j \in 0 .. ClusterLen - 1
        PROVE  at(j) \in Bytes
    BY <1>4 DEF TypeOK, Bytes
  <2>2. buffer' \in [0 .. ClusterLen - 1 -> Bytes]
    BY <1>3, <2>1
  <2> QED
    BY <2>2 DEF ReadFat, TypeOK
<1>6. InChain' /\ InStep' /\ DeliversFile'
  BY DEF ReadFat, InChain, InStep, DeliversFile, FileLen, FileByte
<1>7. InBuffer'
  <2> DEFINE start == SectorLen * fat_sector
  <2>1. start \in Nat /\ start + ent_offset = current_cluster * 2
    BY <1>2, <1>4
  <2>2. /\ ent_offset \in 0 .. ClusterLen - 1 /\ ent_offset + 1 \in 0 .. ClusterLen - 1
        /\ ent_offset < SectorLen
    BY <1>0, <1>2
  <2>3. /\ buffer'[ent_offset] = <<FAT, start + ent_offset>>
        /\ buffer'[ent_offset + 1] = <<FAT, start + (ent_offset + 1)>>
    <3>1. /\ buffer'[ent_offset] = at(ent_offset)
          /\ buffer'[ent_offset + 1] = at(ent_offset + 1)
      BY <1>3, <2>2
    <3> QED
      BY <1>2, <2>2, <3>1
  <2> HIDE DEF start
  <2>4. start + (ent_offset + 1) = current_cluster * 2 + 1
    BY <1>1, <1>2, <2>1
  <2>5. pc' = "entry" /\ ent_offset' = ent_offset /\ current_cluster' = current_cluster
    BY DEF ReadFat, ent_offset, fat_offset
  <2>6. ent_offset + 1 < ClusterLen
    BY <1>0, <1>2
  <2> QED
    BY <2>1, <2>3, <2>4, <2>5, <2>6 DEF InBuffer
<1> QED
  BY <1>5, <1>6, <1>7

LEMMA NextClusterInv == IInv /\ NextCluster => IInv'
<1> SUFFICES ASSUME IInv, NextCluster PROVE IInv'
  OBVIOUS
<1> USE DEF IInv
<1>1. visited \in 1 .. Len(chain) /\ current_cluster = chain[visited]
  BY ChainFacts DEF InChain, NextCluster, TypeOK
<1>2. current_cluster' = IF visited = Len(chain) THEN mark ELSE chain[visited + 1]
  <2>1. DOMAIN chain = 1 .. Len(chain)
    BY ChainFacts
  <2>2. {m \in DOMAIN chain : chain[m] = current_cluster} = {visited}
    BY <1>1, <2>1, ChainFacts
  <2>3. Fat(current_cluster) = {IF visited = Len(chain) THEN mark ELSE chain[visited + 1]}
    BY <1>1, <2>1, <2>2 DEF Fat
  <2>4. /\ current_cluster * 2 \in Nat /\ (current_cluster * 2) % 2 = 0
        /\ (current_cluster * 2) \div 2 = current_cluster
    BY <1>1, ChainFacts
  <2>5. Number(buffer[ent_offset], buffer[ent_offset + 1]) = Fat(current_cluster)
    BY <2>4 DEF Number, InBuffer, NextCluster
  <2> QED
    BY <2>3, <2>5 DEF NextCluster
<1>3. current_cluster' \in Clusters \cup (0 .. MaxEntry)
  BY <1>1, <1>2, ChainFacts
<1>4. TypeOK'
  BY <1>3 DEF NextCluster, TypeOK
<1>5. InChain'
  BY <1>1, <1>2, ChainFacts DEF NextCluster, InChain
<1>6. InStep' /\ InBuffer' /\ DeliversFile'
  BY DEF NextCluster, InStep, InBuffer, DeliversFile, FileLen, FileByte
<1> QED
  BY <1>4, <1>5, <1>6

LEMMA StepInv == NoBareEof /\ IInv /\ [Next]_vars => IInv'
<1> SUFFICES ASSUME NoBareEof, IInv, [Next]_vars PROVE IInv'
  OBVIOUS
<1>1. CASE ReadCluster
  BY <1>1, ReadClusterInv
<1>2. CASE Done
  BY <1>2, DoneInv
<1>3. CASE CopyByte
  BY <1>3, CopyByteInv
<1>4. CASE NextCluster
  BY <1>4, NextClusterInv
<1>5. CASE ReadFat
  BY <1>5, ReadFatInv
<1>6. CASE UNCHANGED vars
  BY <1>6 DEF vars, IInv, TypeOK, InChain, InStep, InBuffer, DeliversFile, FileLen, FileByte,
              ent_offset, fat_offset
<1> QED
  BY <1>1, <1>2, <1>3, <1>4, <1>5, <1>6 DEF Next

\* What the invariant says when the call is over, and of the length.
LEMMA Consequences == IInv => DeliversAll /\ OverrunBounded /\ ReadsOwnClusters
<1> SUFFICES ASSUME IInv PROVE DeliversAll /\ OverrunBounded /\ ReadsOwnClusters
  OBVIOUS
<1> USE DEF IInv
<1>1. Len(out) \in Nat /\ size \in Nat /\ visited \in Nat
  BY DEF TypeOK
<1>2. DeliversAll
  <2> SUFFICES ASSUME pc = "done", Len(out) <= size PROVE Len(out) >= FileLen
    BY <1>1 DEF DeliversAll
  <2>1. visited = Len(chain) /\ Len(out) = ClusterLen * visited
    BY DEF InChain, InStep
  <2> QED
    BY <2>1, <1>1 DEF FileLen
<1>3. OverrunBounded
  BY <1>1 DEF InStep, OverrunBounded
<1>4. ReadsOwnClusters
  BY DEF InChain, ReadsOwnClusters
<1> QED
  BY <1>2, <1>3, <1>4

LEMMA Invariance == NoBareEof => (Spec => []IInv)
<1> SUFFICES ASSUME NoBareEof PROVE Spec => []IInv
  OBVIOUS
<1>1. IInv /\ [Next]_vars => IInv'
  BY StepInv
<1> QED
  BY <1>1, InitInv, PTL DEF Spec

-----------------------------------------------------------------------------
(* The theorems *)

\* The variables of fat_file_read keep their types; i stays in the cluster.
THEOREM TypeCorrect == NoBareEof => (Spec => []TypeOK)
<1> SUFFICES ASSUME NoBareEof PROVE Spec => []TypeOK
  OBVIOUS
<1>1. Spec => []IInv
  BY Invariance
<1>2. IInv => TypeOK
  BY DEF IInv
<1> QED
  BY <1>1, <1>2, PTL

\* The caller's buffer receives the bytes of the file in order, for every file,
\* cluster size and length, although the FAT is looked up in the same buffer:
\* buffer holds the whole cluster at every byte that is copied, and the cluster's
\* own entry when the next one is taken from it.
THEOREM ReadDelivers == NoBareEof => (Spec => []ReadIsExact)
<1> SUFFICES ASSUME NoBareEof PROVE Spec => []ReadIsExact
  OBVIOUS
<1>1. Spec => []IInv
  BY Invariance
<1>2. IInv => ReadIsExact
  BY Consequences DEF IInv, ReadIsExact
<1> QED
  BY <1>1, <1>2, PTL

\* fat_file_read reads each cluster of the file once and none besides, and writes
\* at most one byte more than the size for each.
THEOREM ReadStaysInFile == NoBareEof => (Spec => []StaysInFile)
<1> SUFFICES ASSUME NoBareEof PROVE Spec => []StaysInFile
  OBVIOUS
<1>1. Spec => []IInv
  BY Invariance
<1>2. IInv => StaysInFile
  BY Consequences DEF StaysInFile
<1> QED
  BY <1>1, <1>2, PTL

-----------------------------------------------------------------------------
(* Every read moves on *)

\* The steps that are left of the part of a cluster that has been begun.
OfCluster ==
  CASE pc = "copy"  -> ClusterLen - i + 2
    [] pc = "next"  -> 2
    [] pc = "entry" -> 1
    [] OTHER        -> 0

\* A bound on the steps that are left of a call: each cluster of the file that is
\* not read yet takes one to read it, one for each of its bytes, one to read the
\* FAT and one to take the entry from it.
StepsLeft ==
  IF pc = "done" THEN 0
  ELSE (ClusterLen + 3) * (Len(chain) - visited) + OfCluster + 1

LEMMA ProductType ==
  ASSUME NEW n \in Nat
  PROVE  (ClusterLen + 3) * n \in Nat
<1> DEFINE c == ClusterLen + 3
<1>1. c \in Nat
  BY LengthAssumption
<1> HIDE DEF c
<1>2. c * n \in Nat
  BY <1>1
<1> QED
  BY <1>2 DEF c

\* One cluster fewer to be read.
LEMMA OneFewer ==
  ASSUME NEW n \in Nat \ {0}
  PROVE  (ClusterLen + 3) * (n - 1) + (ClusterLen + 3) = (ClusterLen + 3) * n
<1> DEFINE c == ClusterLen + 3
<1>1. c \in Nat
  BY LengthAssumption
<1> HIDE DEF c
<1>2. c * (n - 1) + c = c * n
  BY <1>1
<1> QED
  BY <1>2 DEF c

LEMMA OfClusterType ==
  ASSUME IInv
  PROVE  OfCluster \in Nat
<1>1. ClusterLen - i + 2 \in Nat
  BY DEF IInv, TypeOK
<1>2. CASE pc = "copy"
  BY <1>1, <1>2 DEF OfCluster
<1>3. CASE pc = "next"
  BY <1>3 DEF OfCluster
<1>4. CASE pc = "entry"
  BY <1>4 DEF OfCluster
<1>5. CASE pc \notin {"copy", "next", "entry"}
  BY <1>5 DEF OfCluster
<1> QED
  BY <1>2, <1>3, <1>4, <1>5

LEMMA StepsCounted ==
  ASSUME IInv
  PROVE  StepsLeft \in Nat
<1>1. Len(chain) - visited \in Nat
  BY ChainFacts DEF IInv, InChain, TypeOK
<1>2. OfCluster \in Nat
  BY OfClusterType
<1>3. (ClusterLen + 3) * (Len(chain) - visited) \in Nat
  BY <1>1, ProductType
<1> HIDE DEF OfCluster
<1> DEFINE p == (ClusterLen + 3) * (Len(chain) - visited)
<1> HIDE DEF p
<1>4. p \in Nat
  BY <1>3 DEF p
<1>5. StepsLeft = IF pc = "done" THEN 0 ELSE p + OfCluster + 1
  BY DEF StepsLeft, p
<1> QED
  BY <1>2, <1>4, <1>5

LEMMA SumGrows ==
  ASSUME NEW a \in Nat, NEW b \in Nat, NEW c \in Nat, b < c
  PROVE  a + b + 1 < a + c + 1
  OBVIOUS

LEMMA StepShortens ==
  ASSUME NoBareEof, IInv, Next
  PROVE  StepsLeft' < StepsLeft
<1> DEFINE n == Len(chain) - visited
           p == (ClusterLen + 3) * n
<1>1. n \in Nat /\ p \in Nat
  <2>1. n \in Nat
    BY ChainFacts DEF IInv, InChain, TypeOK
  <2> QED
    BY <2>1, ProductType
<1>2. StepsLeft = IF pc = "done" THEN 0 ELSE p + OfCluster + 1
  BY DEF StepsLeft
<1>3. OfCluster \in Nat /\ ClusterLen \in Nat \ {0}
  BY OfClusterType, LengthAssumption
<1>4. CASE ReadCluster
  <2>1. /\ pc = "loop" /\ pc' = "copy" /\ i' = 0 /\ visited' = visited + 1 /\ chain' = chain
    BY <1>4 DEF ReadCluster
  <2>2. n # 0
    <3>1. current_cluster # mark
      BY <1>4 DEF ReadCluster, GoesOn, NoBareEof, IInv, TypeOK
    <3>2. visited < Len(chain)
      BY <2>1, <3>1 DEF IInv, InChain
    <3> QED
      BY <3>2, ChainFacts DEF IInv, TypeOK
  <2>3. n' = n - 1
    BY <2>1, ChainFacts DEF IInv, TypeOK
  <2>4. OfCluster = 0 /\ OfCluster' = ClusterLen + 2
    BY <1>3, <2>1 DEF OfCluster
  <2> DEFINE q == (ClusterLen + 3) * (n - 1)
  <2>5. q \in Nat
    <3>1. n - 1 \in Nat
      BY <1>1, <2>2
    <3> HIDE DEF n
    <3> QED
      BY <3>1, ProductType
  <2>6. q + (ClusterLen + 3) = p
    <3> HIDE DEF n
    <3> QED
      BY <1>1, <2>2, OneFewer
  <2>7. StepsLeft' = q + (ClusterLen + 2) + 1
    <3>1. StepsLeft' = (ClusterLen + 3) * n' + OfCluster' + 1
      BY <2>1 DEF StepsLeft
    <3> HIDE DEF n
    <3> QED
      BY <2>3, <2>4, <3>1
  <2> HIDE DEF n, p, q
  <2>8. StepsLeft' = p
    BY <1>3, <2>5, <2>6, <2>7
  <2>9. StepsLeft = p + 1
    BY <1>1, <1>2, <2>1, <2>4
  <2> QED
    BY <1>1, <2>8, <2>9
<1>5. CASE Done
  BY <1>1, <1>2, <1>3, <1>5 DEF Done, StepsLeft
<1>6. ASSUME pc # "done", pc' # "done", UNCHANGED <<chain, visited>>, OfCluster' < OfCluster,
             OfCluster' \in Nat
      PROVE  StepsLeft' < StepsLeft
  <2>1. StepsLeft' = p + OfCluster' + 1
    BY <1>6 DEF StepsLeft
  <2> HIDE DEF p, n
  <2>2. StepsLeft = p + OfCluster + 1
    BY <1>2, <1>6
  <2>3. p \in Nat /\ OfCluster \in Nat /\ OfCluster' \in Nat /\ OfCluster' < OfCluster
    BY <1>1, <1>3, <1>6
  <2>4. p + OfCluster' + 1 < p + OfCluster + 1
    BY <2>3, SumGrows
  <2> QED
    BY <2>1, <2>2, <2>4
<1>7. CASE CopyByte
  <2>1. /\ pc = "copy" /\ pc' \in {"copy", "next"} /\ i' = i + 1
        /\ pc' = "copy" => i + 1 < ClusterLen
        /\ i \in Nat /\ i < ClusterLen
        /\ UNCHANGED <<chain, visited>>
    BY <1>3, <1>7 DEF CopyByte, LastOfCluster, IInv, TypeOK
  <2>2. OfCluster' < OfCluster /\ OfCluster' \in Nat
    BY <1>3, <2>1 DEF OfCluster
  <2> QED
    BY <1>6, <2>1, <2>2
<1>8. CASE ReadFat \/ NextCluster
  BY <1>6, <1>8 DEF ReadFat, NextCluster, OfCluster
<1> QED
  BY <1>4, <1>5, <1>7, <1>8 DEF Next

\* fat_file_read follows no chain round: a bound on its steps, at the start so
\* many for each cluster of the file, is lowered by each step that it takes, and
\* never below 0, however short the length asked for (fat.c:119-137).  A read has
\* finitely many steps; that it takes them is what ReadEnds adds.
THEOREM ReadShortens ==
  NoBareEof => (Spec => /\ StepsLeft = (ClusterLen + 3) * Len(chain) + 1
                        /\ [](StepsLeft \in Nat)
                        /\ [][StepsLeft' < StepsLeft]_vars)
<1> SUFFICES ASSUME NoBareEof
             PROVE  Spec => /\ StepsLeft = (ClusterLen + 3) * Len(chain) + 1
                            /\ [](StepsLeft \in Nat)
                            /\ [][StepsLeft' < StepsLeft]_vars
  OBVIOUS
<1>1. Init => StepsLeft = (ClusterLen + 3) * Len(chain) + 1
  <2> SUFFICES ASSUME Init PROVE StepsLeft = (ClusterLen + 3) * Len(chain) + 1
    OBVIOUS
  <2>1. pc = "loop" /\ visited = 0 /\ Len(chain) \in Nat
    BY InitInv, ChainFacts DEF Init, IInv
  <2>2. Len(chain) - visited = Len(chain) /\ OfCluster = 0
    BY <2>1 DEF OfCluster
  <2>3. (ClusterLen + 3) * Len(chain) \in Nat
    BY <2>1, ProductType
  <2> DEFINE p == (ClusterLen + 3) * Len(chain)
  <2>4. StepsLeft = p + 0 + 1 /\ p \in Nat
    BY <2>1, <2>2, <2>3 DEF StepsLeft
  <2> HIDE DEF p
  <2>5. StepsLeft = p + 1
    BY <2>4
  <2> QED
    BY <2>5 DEF p
<1>2. Spec => []IInv
  BY Invariance
<1>3. IInv => StepsLeft \in Nat
  BY StepsCounted
<1>4. IInv /\ [Next]_vars => [StepsLeft' < StepsLeft]_vars
  BY StepShortens
<1> QED
  BY <1>1, <1>2, <1>3, <1>4, PTL DEF Spec

-----------------------------------------------------------------------------
(* Paths *)

LEMMA LeastOf ==
  ASSUME NEW S, S \subseteq Nat, S # {}
  PROVE  \E x \in S : \A y \in S : x <= y
<1>1. \E x \in S : \A y \in S : <<y, x>> \notin OpToRel(<, Nat)
  BY NatLessThanWellFounded, WFMin
<1>2. PICK x \in S : \A y \in S : <<y, x>> \notin OpToRel(<, Nat)
  BY <1>1
<1>3. \A y \in S : x <= y
  <2> SUFFICES ASSUME NEW y \in S, y < x PROVE FALSE
    OBVIOUS
  <2>1. <<y, x>> \in OpToRel(<, Nat)
    BY DEF OpToRel
  <2> QED
    BY <2>1, <1>2
<1> QED
  BY <1>3

Names == Seq(Letters)

\* What is behind the k-th component.
LEMMA RestIs ==
  ASSUME NEW T, NEW p \in Seq(T), NEW k \in 0 .. Len(p)
  PROVE  /\ SubSeq(p, k + 1, Len(p)) \in Seq(T)
         /\ Len(SubSeq(p, k + 1, Len(p))) = Len(p) - k
         /\ \A m \in 1 .. Len(p) - k : SubSeq(p, k + 1, Len(p))[m] = p[k + m]
<1>1. \A m \in k + 1 .. Len(p) : p[m] \in T
  OBVIOUS
<1>2. /\ SubSeq(p, k + 1, Len(p)) \in Seq(T)
      /\ Len(SubSeq(p, k + 1, Len(p))) = IF k + 1 <= Len(p) THEN Len(p) - (k + 1) + 1 ELSE 0
      /\ \A m \in 1 .. Len(p) - (k + 1) + 1 : SubSeq(p, k + 1, Len(p))[m] = p[k + 1 + m - 1]
  BY <1>1, SubSeqProperties
<1> QED
  BY <1>2

LEMMA RestOfRest ==
  ASSUME NEW T, NEW p \in Seq(T), NEW k \in 0 .. Len(p), NEW j \in 0 .. Len(p) - k
  PROVE  LET q == SubSeq(p, k + 1, Len(p))
         IN  SubSeq(q, j + 1, Len(q)) = SubSeq(p, k + j + 1, Len(p))
<1> DEFINE q == SubSeq(p, k + 1, Len(p))
           a == SubSeq(q, j + 1, Len(q))
           b == SubSeq(p, k + j + 1, Len(p))
<1>1. q \in Seq(T) /\ Len(q) = Len(p) - k /\ \A m \in 1 .. Len(p) - k : q[m] = p[k + m]
  BY RestIs
<1> HIDE DEF q
<1>2. a \in Seq(T) /\ Len(a) = Len(q) - j /\ \A m \in 1 .. Len(q) - j : a[m] = q[j + m]
  BY <1>1, RestIs
<1>3. k + j \in 0 .. Len(p)
  <2>1. Len(p) \in Nat /\ k \in Nat /\ j \in Nat /\ k <= Len(p) /\ j <= Len(p) - k
    OBVIOUS
  <2> HIDE DEF a, b
  <2> QED
    BY <2>1
<1>4. b \in Seq(T) /\ Len(b) = Len(p) - (k + j) /\ \A m \in 1 .. Len(p) - (k + j) : b[m] = p[(k + j) + m]
  <2> DEFINE n == k + j
  <2> HIDE DEF n, a
  <2>1. n \in 0 .. Len(p) /\ b = SubSeq(p, n + 1, Len(p))
    BY <1>3 DEF n
  <2>2. b \in Seq(T) /\ Len(b) = Len(p) - n /\ \A m \in 1 .. Len(p) - n : b[m] = p[n + m]
    <3> HIDE DEF b
    <3> QED
      BY <2>1, RestIs
  <2> HIDE DEF b
  <2> QED
    BY <2>2 DEF n
<1> HIDE DEF a, b
<1>5. Len(a) = Len(b)
  BY <1>1, <1>2, <1>4
<1>6. \A m \in 1 .. Len(a) : a[m] = b[m]
  <2> TAKE m \in 1 .. Len(a)
  <2>1. m \in 1 .. Len(q) - j /\ j + m \in 1 .. Len(p) - k /\ m \in 1 .. Len(p) - (k + j)
    BY <1>1, <1>2
  <2>2. k + (j + m) = (k + j) + m
    OBVIOUS
  <2>3. a[m] = q[j + m]
    BY <1>2, <2>1
  <2>4. q[j + m] = p[k + (j + m)]
    BY <1>1, <2>1
  <2>5. b[m] = p[(k + j) + m]
    BY <1>4, <2>1
  <2> QED
    BY <2>2, <2>3, <2>4, <2>5
<1>7. a = b
  BY <1>2, <1>4, <1>5, <1>6, SeqEqual
<1> QED
  BY <1>7 DEF a, b, q

LEMMA TokenIs ==
  ASSUME NEW s \in Seq(Names), s # <<>>
  PROVE  /\ Token(s) \in 1 .. Len(s) /\ s[Token(s)] \in Names
         /\ s[Token(s)] # <<>> \/ Token(s) = Len(s)
         /\ \A m \in 1 .. Token(s) - 1 : s[m] = <<>>
<1> DEFINE ends == {n \in 1 .. Len(s) : s[n] # <<>> \/ n = Len(s)}
<1>1. Len(s) \in Nat /\ Len(s) >= 1 /\ DOMAIN s = 1 .. Len(s)
  BY EmptySeq, LenProperties
<1>2. ends \subseteq Nat /\ ends # {}
  <2>1. Len(s) \in ends
    BY <1>1
  <2>2. \A n \in 1 .. Len(s) : n \in Nat
    OBVIOUS
  <2> QED
    BY <2>1, <2>2, Zenon
<1>3. PICK e \in ends : \A m \in ends : e <= m
  BY <1>2, LeastOf
<1>4. \A m \in 1 .. e - 1 : s[m] = <<>>
  <2> SUFFICES ASSUME NEW m \in 1 .. e - 1, s[m] # <<>> PROVE FALSE
    OBVIOUS
  <2>3. e \in 1 .. Len(s)
    BY <1>3
  <2>4. \A L \in Nat : \A x \in 1 .. L : \A y \in 1 .. x - 1 : y \in 1 .. L /\ y < x /\ ~(x <= y)
    OBVIOUS
  <2>0. m \in 1 .. Len(s) /\ ~(e <= m)
    BY <1>1, <2>3, <2>4
  <2>1. m \in ends
    BY <2>0
  <2>2. e <= m
    BY <1>3, <2>1
  <2> QED
    BY <2>0, <2>2
<1>5. /\ Token(s) \in DOMAIN s /\ (s[Token(s)] # <<>> \/ Token(s) = Len(s))
      /\ \A m \in 1 .. Token(s) - 1 : s[m] = <<>>
  <2>1. /\ e \in DOMAIN s /\ (s[e] # <<>> \/ e = Len(s))
        /\ \A m \in 1 .. e - 1 : s[m] = <<>>
    BY <1>1, <1>3, <1>4
  <2> QED
    BY <2>1 DEF Token
<1>6. Token(s) \in 1 .. Len(s)
  BY <1>1, <1>5
<1>7. s[Token(s)] \in Names
  BY <1>6, ElementOfSeq
<1> QED
  BY <1>5, <1>6, <1>7

LEMMA NullIsNoName == NULL \notin Names /\ <<>> \in Names
<1>1. <<>> \in Names
  BY EmptySeq DEF Names
<1>2. ASSUME NULL \in Names PROVE FALSE
  <2>1. NULL[1] = "NULL" /\ Len(NULL) = 1
    BY DEF NULL
  <2>2. NULL[1] \in Letters
    BY <1>2, <2>1, ElementOfSeq DEF Names
  <2> QED
    BY <2>1, <2>2, PathsAssumption
<1> QED
  BY <1>1, <1>2

-----------------------------------------------------------------------------
(* Where a path leads *)

LEMMA ReachedIs ==
  ASSUME NEW t, NEW p, Len(p) \in Nat
  PROVE  Reached(t, p) = [n \in 0 .. Len(p) |->
                            IF n = 0 THEN Top ELSE Down(t, Reached(t, p)[n - 1], p[n])]
<1> DEFINE Fits(f, k) == /\ f = [n \in 0 .. k |-> f[n]]
                         /\ \A n \in 0 .. k : f[n] = IF n = 0 THEN Top ELSE Down(t, f[n - 1], p[n])
           bad == {k \in 0 .. Len(p) : ~\E f : Fits(f, k)}
<1>1. bad = {}
  <2> SUFFICES ASSUME bad # {} PROVE FALSE
    OBVIOUS
  <2>1. bad \subseteq Nat
    OBVIOUS
  <2>2. PICK k \in bad : \A m \in bad : k <= m
    BY <2>1, LeastOf
  <2>3. k \in 0 .. Len(p) /\ ~\E f : Fits(f, k)
    OBVIOUS
  <2>4. CASE k = 0
    <3>1. Fits([n \in 0 .. 0 |-> Top], 0)
      OBVIOUS
    <3> QED
      BY <2>3, <2>4, <3>1
  <2>5. CASE k # 0
    <3>1. k - 1 \in 0 .. Len(p) /\ k - 1 \notin bad
      BY <2>2, <2>3, <2>5
    <3>2. PICK f : Fits(f, k - 1)
      BY <3>1
    <3> DEFINE g == [n \in 0 .. k |-> IF n = k THEN Down(t, f[k - 1], p[k]) ELSE f[n]]
    <3>3. g = [n \in 0 .. k |-> g[n]]
      OBVIOUS
    <3>4. ASSUME NEW n \in 0 .. k
          PROVE  g[n] = IF n = 0 THEN Top ELSE Down(t, g[n - 1], p[n])
      <4>1. CASE n = k
        <5>1. g[n] = Down(t, f[k - 1], p[k]) /\ g[n - 1] = f[k - 1]
          BY <2>3, <2>5, <4>1
        <5> QED
          BY <2>5, <4>1, <5>1
      <4>2. CASE n # k
        <5>1. n \in 0 .. k - 1 /\ g[n] = f[n] /\ (n # 0 => g[n - 1] = f[n - 1])
          BY <2>3, <4>2
        <5>2. f[n] = IF n = 0 THEN Top ELSE Down(t, f[n - 1], p[n])
          BY <3>2, <5>1
        <5> QED
          BY <5>1, <5>2
      <4> QED
        BY <4>1, <4>2
    <3>5. Fits(g, k)
      BY <3>3, <3>4
    <3> QED
      BY <2>3, <3>5
  <2> QED
    BY <2>4, <2>5
<1>2. PICK f : Fits(f, Len(p))
  <2>1. Len(p) \in 0 .. Len(p)
    OBVIOUS
  <2> QED
    BY <1>1, <2>1
<1>3. f = [n \in 0 .. Len(p) |-> IF n = 0 THEN Top ELSE Down(t, f[n - 1], p[n])]
  <2> DEFINE g == [n \in 0 .. Len(p) |-> IF n = 0 THEN Top ELSE Down(t, f[n - 1], p[n])]
  <2>1. \A n \in 0 .. Len(p) : f[n] = g[n]
    BY <1>2
  <2>2. DOMAIN g = 0 .. Len(p) /\ g = [n \in 0 .. Len(p) |-> g[n]]
    OBVIOUS
  <2>3. f = [n \in 0 .. Len(p) |-> f[n]]
    BY <1>2
  <2> HIDE DEF g
  <2>4. f = g
    BY <2>1, <2>2, <2>3
  <2> QED
    BY <2>4 DEF g
<1> QED
  BY <1>3 DEF Reached

\* A file, and empty components, lead nowhere else.
LEMMA Stays ==
  ASSUME NEW t, NEW p, Len(p) \in Nat, NEW k \in 0 .. Len(p), NEW n \in k .. Len(p),
         \A m \in k + 1 .. n : p[m] = <<>> \/ ~Reached(t, p)[k].isdir
  PROVE  Reached(t, p)[n] = Reached(t, p)[k]
<1> DEFINE at == Reached(t, p)
           bad == {m \in k .. n : at[m] # at[k]}
<1>1. at = [m \in 0 .. Len(p) |-> IF m = 0 THEN Top ELSE Down(t, at[m - 1], p[m])]
  BY ReachedIs
<1> HIDE DEF at
<1>2. bad = {}
  <2> SUFFICES ASSUME bad # {} PROVE FALSE
    OBVIOUS
  <2>1. bad \subseteq Nat
    OBVIOUS
  <2>2. PICK m \in bad : \A j \in bad : m <= j
    BY <2>1, LeastOf
  <2>3. m \in k .. n /\ at[m] # at[k] /\ m # k
    OBVIOUS
  <2>4. m - 1 \in k .. n /\ m - 1 \notin bad /\ m \in k + 1 .. n /\ m \in 0 .. Len(p) /\ m # 0
    BY <2>2, <2>3
  <2>5. at[m] = Down(t, at[m - 1], p[m]) /\ at[m - 1] = at[k]
    BY <1>1, <2>4
  <2>6. p[m] = <<>> \/ ~at[m - 1].isdir
    BY <2>4, <2>5 DEF at
  <2>7. Down(t, at[m - 1], p[m]) = at[m - 1]
    BY <2>6 DEF Down
  <2> QED
    BY <2>3, <2>5, <2>7
<1> QED
  BY <1>2 DEF at

-----------------------------------------------------------------------------
(* Directories *)

LEMMA SlotFacts ==
  ASSUME disk \in Disks, NEW d \in DOMAIN disk
  PROVE  /\ Len(disk[d]) \in Nat /\ DOMAIN disk[d] = 1 .. Len(disk[d])
         /\ \A n \in DOMAIN disk[d] : /\ disk[d][n].name \in Names /\ disk[d][n].isdir \in BOOLEAN
                                     /\ disk[d][n].isdir => disk[d][n].node \in DOMAIN disk
<1>1. \A d2 \in DOMAIN disk :
         /\ Len(disk[d2]) \in Nat /\ DOMAIN disk[d2] = 1 .. Len(disk[d2])
         /\ \A n \in DOMAIN disk[d2] : /\ disk[d2][n].name \in Seq(Letters) /\ disk[d2][n].isdir \in BOOLEAN
                                      /\ disk[d2][n].isdir => disk[d2][n].node \in DOMAIN disk
  BY DisksAssumption, Zenon
<1> QED
  BY <1>1, Zenon DEF Names

LEMMA Subdirectories ==
  ASSUME disk \in Disks
  PROVE  \A d \in DOMAIN disk : \A n \in DOMAIN disk[d] :
           disk[d][n].isdir => disk[d][n].node \in DOMAIN disk
BY DisksAssumption, Zenon

LEMMA FirstHitIs ==
  ASSUME disk \in Disks, NEW d \in DOMAIN disk, NEW s, Hits(d, s) # {}
  PROVE  \E n \in Hits(d, s) : FirstHit(d, s) = disk[d][n] /\ n \in DOMAIN disk[d]
<1>1. Hits(d, s) \subseteq Nat /\ Hits(d, s) \subseteq DOMAIN disk[d]
  BY SlotFacts DEF Hits
<1>2. \E n \in Hits(d, s) : \A m \in Hits(d, s) : n <= m
  BY <1>1, LeastOf
<1> QED
  BY <1>1, <1>2 DEF FirstHit

\* For a plain path the two comparisons agree.
LEMMA PlainHits ==
  ASSUME disk \in Disks, Plain(path), path \in Seq(Names), NEW k \in 1 .. Len(path),
         path[k] # <<>>, NEW at, at.isdir, at.node \in DOMAIN disk
  PROVE  /\ Hits(at.node, path[k]) = {n \in DOMAIN disk[at.node] : disk[at.node][n].name = path[k]}
         /\ Down(disk, at, path[k]) = IF Hits(at.node, path[k]) = {} THEN Missing
                                      ELSE FirstHit(at.node, path[k])
<1> DEFINE s == path[k]
           d == at.node
<1>1. s \in ToSet(path) \ {<<>>} /\ s \in Names
  BY LenProperties, ElementOfSeq DEF ToSet
<1>2. \A n \in DOMAIN disk[d] : IsPrefix(s, disk[d][n].name) => s = disk[d][n].name /\ n <= Seen
  BY <1>1 DEF Plain
<1>3. IsPrefix(s, s)
  BY <1>1, LenProperties DEF IsPrefix, Names
<1>4. Hits(d, s) = {n \in DOMAIN disk[d] : disk[d][n].name = s}
  BY <1>2, <1>3 DEF Hits, Matches
<1> QED
  BY <1>4 DEF Down, FirstHit

-----------------------------------------------------------------------------
(* The invariant *)

Stages == {"idle", "root", "walk", "find", "ok", "failed", "fault", "list"}

Counters == disk \in Disks /\ leaked \in Nat /\ lookups \in 0 .. MaxLookups /\ stage \in Stages

\* The walk has come behind component k.
Behind(k) == k \in 1 .. Len(path) /\ input = SubSeq(path, k + 1, Len(path))

\* strtok's input is a rest of a path, and during a walk of this walk's.
Rest ==
  /\ input = <<>> \/ \E p \in Paths : \E n \in DOMAIN p : input = SubSeq(p, n + 1, Len(p))
  /\ IF stage \in {"idle", "list"} THEN path = <<>> ELSE path \in Paths
  /\ stage \in {"root", "walk", "find"} => \E k \in 1 .. Len(path) : Behind(k)

\* The directory in the buffer is the last entry's.
Bearings ==
  /\ where \in DOMAIN disk \cup {"garbage"}
  /\ entry = AtNull \/ \E d \in DOMAIN disk : \E n \in DOMAIN disk[d] : entry = disk[d][n]
  /\ stage \in {"walk", "find"} => entry.isdir /\ where = entry.node /\ where \in DOMAIN disk

\* How far a plain path has been followed.
Route ==
  Plain(path) =>
    /\ stage = "root" => \E k \in 1 .. Len(path) :
         /\ Behind(k) /\ nodename = path[k] /\ nodename # <<>>
         /\ \A m \in 1 .. k - 1 : path[m] = <<>>
    /\ stage \in {"walk", "find", "failed", "fault"} => InRoot(path)
    /\ stage = "walk" => \E k \in 1 .. Len(path) : Behind(k) /\ entry = Reached(disk, path)[k]
    /\ stage = "find" /\ nodename = NULL => entry = Target(path)
    /\ stage = "find" /\ nodename # NULL => \E k \in 1 .. Len(path) :
         /\ Behind(k) /\ nodename = path[k] /\ nodename # <<>>
         /\ entry = Reached(disk, path)[k - 1]
    /\ stage = "ok" => entry = IF InRoot(path) THEN Target(path) ELSE AtNull
    /\ stage = "failed" => Target(path) = Missing
    /\ stage = "fault" => Target(path).isdir

\* The slot that a listing returns at position pos has pos - 1 used ones in front of it.
Shown ==
  /\ listed \in Seq(1 .. Seen)
  /\ stage # "list" => listed = <<>>
  /\ \A pos \in DOMAIN listed : /\ listed[pos] \in DOMAIN disk[Root] /\ Used(disk[Root][listed[pos]])
                              /\ Count(listed[pos]) = pos - 1

LookupInv == Counters /\ Rest /\ Bearings /\ FreesWhatItOwns /\ Route /\ Shown

LEMMA LookupInitInv == LookupInit => LookupInv
<1> SUFFICES ASSUME LookupInit PROVE LookupInv
  OBVIOUS
<1>1. Counters /\ Rest /\ Bearings /\ FreesWhatItOwns
  BY SeenAssumption DEF LookupInit, Counters, Stages, Rest, Bearings, FreesWhatItOwns
<1>2. Route
  BY DEF LookupInit, Route, Plain
<1>3. Shown
  BY EmptySeq DEF LookupInit, Shown
<1> QED
  BY <1>1, <1>2, <1>3 DEF LookupInv

\* A path is a sequence of names.
LEMMA PathFacts ==
  ASSUME NEW p \in Paths
  PROVE  p \in Seq(Names) /\ p # <<>> /\ Len(p) \in Nat \ {0} /\ DOMAIN p = 1 .. Len(p)
<1>1. p \in Seq(Names) /\ p # <<>>
  BY PathsAssumption DEF Names
<1> QED
  BY <1>1, EmptySeq, LenProperties

\* strtok takes the next component that is not empty, if there is one.
LEMMA StrtokIs ==
  ASSUME NEW p \in Paths, NEW k \in 0 .. Len(p) - 1, strtok(SubSeq(p, k + 1, Len(p)))
  PROVE  \E j \in k + 1 .. Len(p) :
           /\ nodename' = p[j] /\ nodename' \in Names
           /\ input' = SubSeq(p, j + 1, Len(p))
           /\ \A m \in k + 1 .. j - 1 : p[m] = <<>>
           /\ p[j] # <<>> \/ j = Len(p)
           /\ leaked' = leaked + j - k - 1
<1> DEFINE s == SubSeq(p, k + 1, Len(p))
           t == Token(s)
<1>1. p \in Seq(Names) /\ Len(p) \in Nat \ {0} /\ k \in 0 .. Len(p) /\ k < Len(p)
  BY PathFacts
<1>2. s \in Seq(Names) /\ Len(s) = Len(p) - k /\ \A m \in 1 .. Len(p) - k : s[m] = p[k + m]
  BY <1>1, RestIs
<1>4. /\ nodename' = s[t] /\ input' = SubSeq(s, t + 1, Len(s)) /\ leaked' = leaked + t - 1
  BY DEF strtok
<1> HIDE DEF s
<1>3. s # <<>>
  <2>1. \A x, y \in Nat : x < y => y - x # 0
    OBVIOUS
  <2>2. Len(s) # 0
    BY <1>1, <1>2, <2>1
  <2> QED
    BY <1>2, <2>2, EmptySeq
<1>5. /\ t \in 1 .. Len(s) /\ s[t] \in Names
      /\ s[t] # <<>> \/ t = Len(s)
      /\ \A m \in 1 .. t - 1 : s[m] = <<>>
  BY <1>2, <1>3, TokenIs
<1> HIDE DEF t
<1>6. k + t \in k + 1 .. Len(p) /\ t \in 0 .. Len(p) - k /\ t \in 1 .. Len(p) - k
  BY <1>1, <1>2, <1>5
<1>7. s[t] = p[k + t]
  BY <1>2, <1>6
<1>8. input' = SubSeq(p, k + t + 1, Len(p))
  <2>1. SubSeq(s, t + 1, Len(s)) = SubSeq(p, k + t + 1, Len(p))
    BY <1>1, <1>6, RestOfRest DEF s
  <2> QED
    BY <1>4, <2>1
<1>9. ASSUME NEW m \in k + 1 .. k + t - 1 PROVE p[m] = <<>>
  <2>1. m - k \in 1 .. t - 1 /\ m - k \in 1 .. Len(p) - k /\ k + (m - k) = m
    BY <1>1, <1>6
  <2> QED
    BY <1>2, <1>5, <2>1
<1>10. leaked' = leaked + (k + t) - k - 1
  <2>1. leaked' = leaked + t - 1 /\ (k + t) - k = t
    BY <1>1, <1>4, <1>6
  <2> QED
    BY <2>1 
<1>11. p[k + t] # <<>> \/ k + t = Len(p)
  BY <1>1, <1>2, <1>5, <1>7
<1>12. /\ nodename' = p[k + t] /\ nodename' \in Names
       /\ p[k + t] # <<>> \/ k + t = Len(p)
       /\ k + t \in k + 1 .. Len(p)
  BY <1>4, <1>5, <1>6, <1>7, <1>11
<1>13. PICK j \in k + 1 .. Len(p) : j = k + t
  BY <1>12
<1>14. nodename' = p[j] /\ nodename' \in Names /\ (p[j] # <<>> \/ j = Len(p))
  BY <1>12, <1>13
<1>15. input' = SubSeq(p, j + 1, Len(p)) /\ leaked' = leaked + j - k - 1
  BY <1>8, <1>10, <1>13
<1>16. \A m \in k + 1 .. j - 1 : p[m] = <<>>
  BY <1>1, <1>6, <1>9, <1>13
<1> QED
  BY <1>14, <1>15, <1>16

-----------------------------------------------------------------------------
(* The steps of a lookup *)

\* What a listing has shown does not change with anything but the listing.
LEMMA ShownStays ==
  ASSUME Shown, UNCHANGED <<disk, listed>>, stage' # "list" => stage # "list" \/ listed = <<>>
  PROVE  Shown'
BY DEF Shown, Count, Used

LEMMA LookupStep == ASSUME LookupInv, NEW p \in Paths, Lookup(p) PROVE LookupInv'
<1>1. /\ stage = "idle" /\ lookups < MaxLookups /\ path' = p /\ strtok(p) /\ live' = 2
      /\ lookups' = lookups + 1 /\ where' = "garbage" /\ stage' = "root"
      /\ UNCHANGED <<disk, entry, listed>>
  BY DEF Lookup
<1>2. p \in Seq(Names) /\ p # <<>> /\ Len(p) \in Nat \ {0} /\ DOMAIN p = 1 .. Len(p)
  BY PathFacts
<1>3. strtok(SubSeq(p, 0 + 1, Len(p)))
  <2>1. SubSeq(p, 0 + 1, Len(p)) = p
    BY <1>2, SubSeqFull
  <2> QED
    BY <1>1, <2>1 DEF strtok
<1>4. PICK j \in 0 + 1 .. Len(p) :
        /\ nodename' = p[j] /\ nodename' \in Names
        /\ input' = SubSeq(p, j + 1, Len(p))
        /\ \A m \in 0 + 1 .. j - 1 : p[m] = <<>>
        /\ p[j] # <<>> \/ j = Len(p)
        /\ leaked' = leaked + j - 0 - 1
  <2>1. 0 \in 0 .. Len(p) - 1
    BY <1>2
  <2> QED
    BY <1>3, <2>1, StrtokIs
<1>5. j \in 1 .. Len(p) /\ Behind(j)'
  BY <1>1, <1>4 DEF Behind
<1>6. Counters'
  <2>1. leaked' \in Nat
    <3>1. leaked \in Nat /\ j \in Nat /\ j >= 1 /\ leaked' = leaked + j - 0 - 1
      BY <1>4, <1>5 DEF LookupInv, Counters
    <3> QED
      BY <3>1
  <2>2. lookups' \in 0 .. MaxLookups
    BY <1>1, SeenAssumption DEF LookupInv, Counters
  <2> QED
    BY <1>1, <2>1, <2>2 DEF LookupInv, Counters, Stages
<1>7. Rest'
  <2>1. \E n \in DOMAIN p : input' = SubSeq(p, n + 1, Len(p))
    BY <1>2, <1>4, <1>5
  <2> QED
    BY <1>1, <1>5, <2>1 DEF Rest
<1>8. Bearings' /\ FreesWhatItOwns'
  BY <1>1 DEF LookupInv, Bearings, FreesWhatItOwns
<1>9. Route'
  <2> SUFFICES ASSUME Plain(path)'
               PROVE  \E k \in 1 .. Len(path') :
                        /\ Behind(k)' /\ nodename' = path'[k] /\ nodename' # <<>>
                        /\ \A m \in 1 .. k - 1 : path'[m] = <<>>
    BY <1>1 DEF Route
  <2>1. p[Len(p)] # <<>>
    BY <1>1 DEF Plain, Last
  <2>2. nodename' # <<>>
    BY <1>4, <2>1
  <2> QED
    BY <1>1, <1>4, <1>5, <2>2
<1>10. Shown'
  BY <1>1, ShownStays DEF LookupInv
<1> QED
  BY <1>6, <1>7, <1>8, <1>9, <1>10 DEF LookupInv

\* The path, its meaning and the names found stay.
LEMMA SamePath ==
  ASSUME UNCHANGED <<disk, path>>
  PROVE  /\ Plain(path)' <=> Plain(path)
         /\ InRoot(path)' <=> InRoot(path)
         /\ Target(path)' = Target(path)
         /\ Reached(disk, path)' = Reached(disk, path)
BY DEF Plain, InRoot, Target

\* Behind the k-th component.
LEMMA Onwards ==
  ASSUME path \in Paths, disk \in Disks, NEW k \in 1 .. Len(path)
  PROVE  /\ Reached(disk, path)[0] = Top
         /\ Reached(disk, path)[k] = Down(disk, Reached(disk, path)[k - 1], path[k])
<1>1. Len(path) \in Nat
  BY PathFacts
<1>2. Reached(disk, path) = [n \in 0 .. Len(path) |->
                               IF n = 0 THEN Top ELSE Down(disk, Reached(disk, path)[n - 1], path[n])]
  BY <1>1, ReachedIs
<1>3. 0 \in 0 .. Len(path) /\ k \in 0 .. Len(path) /\ k # 0
  BY <1>1
<1> QED
  BY <1>2, <1>3, Zenon

\* What is no directory is the end of the path.
LEMMA EndOfPath ==
  ASSUME path \in Paths, disk \in Disks, NEW k \in 0 .. Len(path), ~Reached(disk, path)[k].isdir
  PROVE  Target(path) = Reached(disk, path)[k]
<1>1. Len(path) \in Nat /\ Len(path) \in k .. Len(path)
  BY PathFacts
<1> QED
  BY <1>1, Stays DEF Target

LEMMA SearchRootStep == LookupInv /\ SearchRoot => LookupInv'
<1> SUFFICES ASSUME LookupInv, SearchRoot PROVE LookupInv'
  OBVIOUS
<1>1. /\ stage = "root" /\ UNCHANGED <<disk, path, input, nodename, leaked, listed, lookups>>
      /\ entry' = IF Hits(Root, nodename) = {} THEN AtNull ELSE FirstHit(Root, nodename)
      /\ IF entry'.isdir THEN where' = entry'.node /\ live' = live + 1 /\ stage' = "walk"
         ELSE live' = live - 2 /\ stage' = "ok" /\ UNCHANGED where
  BY DEF SearchRoot
<1>2. disk \in Disks /\ Root \in DOMAIN disk /\ path \in Paths /\ live = 2
  BY <1>1, DisksAssumption DEF LookupInv, Counters, Rest, FreesWhatItOwns
<1>3. entry' = AtNull \/ \E n \in DOMAIN disk[Root] : entry' = disk[Root][n]
  BY <1>1, <1>2, FirstHitIs
<1>4. entry'.isdir => entry'.node \in DOMAIN disk
  <2>1. CASE entry' = AtNull
    BY <2>1 DEF AtNull
  <2>2. \A n \in DOMAIN disk[Root] : disk[Root][n].isdir => disk[Root][n].node \in DOMAIN disk
    BY <1>2, Subdirectories
  <2> QED
    BY <1>3, <2>1, <2>2
<1>5. Counters' /\ Rest'
  BY <1>1 DEF LookupInv, Counters, Stages, Rest, Behind
<1>6. Bearings'
  BY <1>1, <1>2, <1>3, <1>4 DEF LookupInv, Bearings
<1>7. FreesWhatItOwns'
  BY <1>1, <1>2 DEF FreesWhatItOwns
<1>8. Route'
  <2> SUFFICES ASSUME Plain(path)
               PROVE  /\ stage' = "walk" => InRoot(path) /\ \E k \in 1 .. Len(path) :
                           Behind(k) /\ entry' = Reached(disk, path)[k]
                      /\ stage' = "ok" => entry' = IF InRoot(path) THEN Target(path) ELSE AtNull
    BY <1>1, SamePath DEF Route, Behind
  <2>1. PICK k \in 1 .. Len(path) :
           /\ Behind(k) /\ nodename = path[k] /\ nodename # <<>>
           /\ \A m \in 1 .. k - 1 : path[m] = <<>>
    BY <1>1 DEF LookupInv, Route
  <2>2. path \in Seq(Names) /\ Len(path) \in Nat /\ DOMAIN path = 1 .. Len(path)
    BY <1>2, PathFacts
  <2>3. Reached(disk, path)[k - 1] = Top
    <3>1. 0 \in 0 .. Len(path) /\ k - 1 \in 0 .. Len(path) /\ 0 + 1 = 1
      BY <2>2
    <3>2. \A m \in 0 + 1 .. k - 1 : path[m] = <<>> \/ ~Reached(disk, path)[0].isdir
      BY <2>1
    <3> QED
      BY <1>2, <2>1, <2>2, <3>1, <3>2, Stays, Onwards
  <2>4. Reached(disk, path)[k] = Down(disk, Top, path[k])
    BY <1>2, <2>3, Onwards
  <2>5. /\ Hits(Root, nodename) = {n \in DOMAIN disk[Root] : disk[Root][n].name = nodename}
        /\ Down(disk, Top, nodename) = IF Hits(Root, nodename) = {} THEN Missing
                                       ELSE FirstHit(Root, nodename)
    <3>1. Top.isdir /\ Top.node = Root
      BY DEF Top
    <3>2. /\ Hits(Top.node, path[k]) = {n \in DOMAIN disk[Top.node] : disk[Top.node][n].name = path[k]}
          /\ Down(disk, Top, path[k]) = IF Hits(Top.node, path[k]) = {} THEN Missing
                                        ELSE FirstHit(Top.node, path[k])
      BY <1>2, <2>1, <2>2, <3>1, PlainHits
    <3> QED
      BY <2>1, <3>1, <3>2
  <2>6. InRoot(path) <=> Hits(Root, nodename) # {}
    <3>1. ASSUME NEW j \in DOMAIN path, path[j] # <<>>, \A m \in 1 .. j - 1 : path[m] = <<>>
          PROVE  j = k
      <4>1. ~(j < k) /\ ~(k < j)
        BY <2>1, <2>2, <3>1
      <4> QED
        BY <2>2, <4>1
    <3>2. InRoot(path) <=> \E n \in DOMAIN disk[Root] : disk[Root][n].name = nodename
      BY <2>1, <2>2, <3>1 DEF InRoot
    <3> QED
      BY <2>5, <3>2
  <2>7. CASE ~InRoot(path)
    BY <1>1, <2>6, <2>7 DEF AtNull
  <2>8. CASE InRoot(path)
    <3>1. entry' = Reached(disk, path)[k]
      BY <1>1, <2>1, <2>4, <2>5, <2>6, <2>8
    <3>2. ~entry'.isdir => entry' = Target(path)
      <4>1. k \in 0 .. Len(path)
        BY <2>2
      <4> QED
        BY <1>2, <3>1, <4>1, EndOfPath
    <3> QED
      BY <1>1, <2>1, <2>8, <3>1, <3>2
  <2> QED
    BY <2>7, <2>8
<1>9. Shown'
  BY <1>1, ShownStays DEF LookupInv
<1> QED
  BY <1>5, <1>6, <1>7, <1>8, <1>9 DEF LookupInv

LEMMA NextTokenStep == LookupInv /\ NextToken => LookupInv'
<1> SUFFICES ASSUME LookupInv, NextToken PROVE LookupInv'
  OBVIOUS
<1>1. /\ stage = "walk" /\ stage' = "find"
      /\ UNCHANGED <<disk, path, where, entry, listed, lookups>>
      /\ IF input = <<>> THEN nodename' = NULL /\ live' = live - 1 /\ UNCHANGED <<input, leaked>>
         ELSE strtok(input) /\ live' = live
  <2>1. live = 3
    BY DEF NextToken, LookupInv, FreesWhatItOwns
  <2> QED
    BY <2>1 DEF NextToken, FreeNodename
<1>2. /\ disk \in Disks /\ path \in Paths /\ live = 3 /\ leaked \in Nat /\ lookups \in 0 .. MaxLookups
      /\ \E k \in 1 .. Len(path) : Behind(k)
  BY <1>1 DEF LookupInv, Counters, Rest, FreesWhatItOwns
<1>3. path \in Seq(Names) /\ Len(path) \in Nat \ {0} /\ DOMAIN path = 1 .. Len(path)
  BY <1>2, PathFacts
<1>4. Bearings'
  BY <1>1 DEF LookupInv, Bearings
<1>5. Shown'
  BY <1>1, ShownStays DEF LookupInv
<1>6. PICK k \in 1 .. Len(path) :
        Behind(k) /\ (Plain(path) => InRoot(path) /\ entry = Reached(disk, path)[k])
  BY <1>1, <1>2 DEF LookupInv, Route
<1>7. /\ k \in 0 .. Len(path) /\ Len(input) = Len(path) - k /\ input = SubSeq(path, k + 1, Len(path))
      /\ input \in Seq(Names)
  <2>1. k \in 0 .. Len(path)
    BY <1>3
  <2>2. input = SubSeq(path, k + 1, Len(path))
    BY <1>6 DEF Behind
  <2> QED
    BY <1>3, <2>1, <2>2, RestIs
<1> DEFINE l == Len(path)
<1>l. l \in Nat /\ k \in 1 .. l /\ Len(input) = l - k /\ k \in Nat
  <2>1. \A x \in Nat : \A y \in 1 .. x : y \in Nat
    OBVIOUS
  <2>2. Len(path) \in Nat
    BY <1>3
  <2> QED
    BY <1>7, <2>1, <2>2
<1>m. input = <<>> <=> Len(input) = 0
  BY <1>7, EmptySeq
<1> HIDE DEF l
<1>8. CASE input = <<>>
  <2>1. k = l
    BY <1>l, <1>m, <1>8
  <2>2. Counters' /\ Rest'
    BY <1>1, <1>8 DEF LookupInv, Counters, Stages, Rest, Behind
  <2>3. FreesWhatItOwns'
    BY <1>1, <1>2, <1>8 DEF FreesWhatItOwns
  <2>4. Route'
    <3> SUFFICES ASSUME Plain(path) PROVE InRoot(path) /\ entry = Target(path)
      BY <1>1, <1>8, SamePath DEF Route
    <3> QED
      BY <1>6, <2>1 DEF Target, l
  <2> QED
    BY <1>4, <1>5, <2>2, <2>3, <2>4 DEF LookupInv
<1>9. CASE input # <<>>
  <2>1. k \in 0 .. l - 1
    BY <1>l, <1>m, <1>9
  <2>2. strtok(SubSeq(path, k + 1, Len(path)))
    BY <1>1, <1>7, <1>9 DEF strtok
  <2>3. PICK j \in k + 1 .. Len(path) :
          /\ nodename' = path[j] /\ nodename' \in Names
          /\ input' = SubSeq(path, j + 1, Len(path))
          /\ \A m \in k + 1 .. j - 1 : path[m] = <<>>
          /\ path[j] # <<>> \/ j = Len(path)
          /\ leaked' = leaked + j - k - 1
    BY <1>2, <2>1, <2>2, StrtokIs DEF l
  <2>4. j \in 1 .. Len(path) /\ j \in Nat /\ k \in Nat /\ j >= k + 1 /\ j - 1 \in k .. Len(path)
    <3>1. j \in k + 1 .. l
      BY DEF l
    <3>2. j \in 1 .. l /\ j \in Nat /\ j >= k + 1 /\ j - 1 \in k .. l
      BY <1>l, <3>1
    <3> QED
      BY <1>l, <3>2 DEF l
  <2>5. Behind(j)'
    BY <1>1, <2>3, <2>4 DEF Behind
  <2>6. Counters'
    <3>1. leaked' \in Nat
      BY <1>2, <2>3, <2>4
    <3> QED
      BY <1>1, <1>2, <3>1 DEF Counters, Stages
  <2>7. Rest'
    <3>1. \E p \in Paths : \E n \in DOMAIN p : input' = SubSeq(p, n + 1, Len(p))
      BY <1>2, <1>3, <2>3, <2>4
    <3> QED
      BY <1>1, <1>2, <2>4, <2>5, <3>1 DEF Rest
  <2>8. nodename' # NULL
    BY <2>3, NullIsNoName
  <2>9. FreesWhatItOwns'
    BY <1>1, <1>2, <1>9, <2>8 DEF FreesWhatItOwns
  <2>10. Route'
    <3> SUFFICES ASSUME Plain(path)
                 PROVE  /\ InRoot(path)
                        /\ \E n \in 1 .. Len(path) : /\ Behind(n)' /\ nodename' = path[n] /\ nodename' # <<>>
                                                     /\ entry = Reached(disk, path)[n - 1]
      BY <1>1, <2>8, SamePath DEF Route
    <3>1. path[j] # <<>>
      BY <2>3 DEF Plain, Last
    <3>2. Reached(disk, path)[j - 1] = Reached(disk, path)[k]
      <4>1. j - 1 \in k .. Len(path)
        BY <2>4
      <4>2. \A m \in k + 1 .. j - 1 : path[m] = <<>> \/ ~Reached(disk, path)[k].isdir
        BY <2>3
      <4>3. \A n \in k .. Len(path) :
              (\A m \in k + 1 .. n : path[m] = <<>> \/ ~Reached(disk, path)[k].isdir)
                => Reached(disk, path)[n] = Reached(disk, path)[k]
        BY <1>7, <1>l, Stays DEF l
      <4> QED
        BY <4>1, <4>2, <4>3
    <3> QED
      BY <1>6, <2>3, <2>4, <2>5, <3>1, <3>2
  <2> QED
    BY <1>4, <1>5, <2>6, <2>7, <2>9, <2>10 DEF LookupInv
<1> QED
  BY <1>8, <1>9

\* What a step in a directory finds for a plain path.
LEMMA DirectoryStep ==
  ASSUME LookupInv, stage = "find", nodename # NULL, Plain(path)
  PROVE  \E k \in 1 .. Len(path) :
           /\ Behind(k) /\ k \in 0 .. Len(path)
           /\ Reached(disk, path)[k] = IF Hits(where, nodename) = {} THEN Missing
                                       ELSE FirstHit(where, nodename)
<1>1. PICK k \in 1 .. Len(path) :
        /\ Behind(k) /\ nodename = path[k] /\ nodename # <<>>
        /\ entry = Reached(disk, path)[k - 1]
  BY DEF LookupInv, Route
<1>2. /\ disk \in Disks /\ path \in Paths /\ entry.isdir /\ where = entry.node /\ where \in DOMAIN disk
  BY DEF LookupInv, Counters, Rest, Bearings
<1>3. path \in Seq(Names) /\ Len(path) \in Nat
  BY <1>2, PathFacts
<1>4. Reached(disk, path)[k] = Down(disk, entry, path[k])
  BY <1>1, <1>2, Onwards
<1>5. Down(disk, entry, path[k]) = IF Hits(entry.node, path[k]) = {} THEN Missing
                                   ELSE FirstHit(entry.node, path[k])
  BY <1>1, <1>2, <1>3, PlainHits
<1>6. k \in 0 .. Len(path)
  BY <1>3
<1> QED
  BY <1>1, <1>2, <1>4, <1>5, <1>6

LEMMA FindEntryStep == LookupInv /\ FindEntry => LookupInv'
<1> SUFFICES ASSUME LookupInv, FindEntry PROVE LookupInv'
  OBVIOUS
<1>1. /\ stage = "find" /\ nodename # NULL /\ Hits(where, nodename) # {}
      /\ entry' = FirstHit(where, nodename)
      /\ IF entry'.isdir THEN where' = entry'.node /\ stage' = "walk" /\ UNCHANGED live
         ELSE stage' = "ok" /\ live' = live - 3 /\ UNCHANGED where
      /\ UNCHANGED <<disk, path, input, nodename, leaked, listed, lookups>>
  BY DEF FindEntry
<1>2. disk \in Disks /\ where \in DOMAIN disk /\ path \in Paths /\ live = 3
  BY <1>1 DEF LookupInv, Counters, Rest, Bearings, FreesWhatItOwns
<1>3. PICK n \in DOMAIN disk[where] : entry' = disk[where][n]
  BY <1>1, <1>2, FirstHitIs
<1>4. entry'.isdir => entry'.node \in DOMAIN disk
  BY <1>2, <1>3, Subdirectories
<1>5. Counters' /\ Rest'
  BY <1>1 DEF LookupInv, Counters, Stages, Rest, Behind
<1>6. Bearings'
  BY <1>1, <1>2, <1>3, <1>4 DEF LookupInv, Bearings
<1>7. FreesWhatItOwns'
  BY <1>1, <1>2 DEF FreesWhatItOwns
<1>8. Route'
  <2> SUFFICES ASSUME Plain(path)
               PROVE  /\ InRoot(path)
                      /\ stage' = "walk" => \E k \in 1 .. Len(path) :
                           Behind(k) /\ entry' = Reached(disk, path)[k]
                      /\ stage' = "ok" => entry' = Target(path)
    BY <1>1, SamePath DEF Route, Behind
  <2>1. InRoot(path)
    BY <1>1 DEF LookupInv, Route
  <2>2. PICK k \in 1 .. Len(path) :
          Behind(k) /\ k \in 0 .. Len(path) /\ entry' = Reached(disk, path)[k]
    BY <1>1, DirectoryStep
  <2>3. stage' = "ok" => entry' = Target(path)
    BY <1>1, <1>2, <2>2, EndOfPath
  <2> QED
    BY <2>1, <2>2, <2>3
<1>9. Shown'
  BY <1>1, ShownStays DEF LookupInv
<1> QED
  BY <1>5, <1>6, <1>7, <1>8, <1>9 DEF LookupInv

LEMMA NotFoundStep == LookupInv /\ NotFound => LookupInv'
<1> SUFFICES ASSUME LookupInv, NotFound PROVE LookupInv'
  OBVIOUS
<1>1. /\ stage = "find" /\ nodename # NULL /\ Hits(where, nodename) = {}
      /\ live' = live - 3 /\ stage' = "failed"
      /\ UNCHANGED <<disk, path, input, nodename, where, entry, leaked, listed, lookups>>
  BY DEF NotFound
<1>2. disk \in Disks /\ path \in Paths /\ live = 3
  BY <1>1 DEF LookupInv, Counters, Rest, FreesWhatItOwns
<1>3. Counters' /\ Rest' /\ Bearings' /\ FreesWhatItOwns'
  BY <1>1, <1>2 DEF LookupInv, Counters, Stages, Rest, Bearings, FreesWhatItOwns
<1>4. Route'
  <2> SUFFICES ASSUME Plain(path) PROVE InRoot(path) /\ Target(path) = Missing
    BY <1>1, SamePath DEF Route
  <2>1. InRoot(path)
    BY <1>1 DEF LookupInv, Route
  <2>2. PICK k \in 1 .. Len(path) : k \in 0 .. Len(path) /\ Reached(disk, path)[k] = Missing
    BY <1>1, DirectoryStep
  <2>3. ~Missing.isdir
    BY DEF Missing
  <2> QED
    BY <1>2, <2>1, <2>2, <2>3, EndOfPath
<1>5. Shown'
  BY <1>1, ShownStays DEF LookupInv
<1> QED
  BY <1>3, <1>4, <1>5 DEF LookupInv

LEMMA FreeNullStep == LookupInv /\ FreeNull => LookupInv'
<1> SUFFICES ASSUME LookupInv, FreeNull PROVE LookupInv'
  OBVIOUS
<1>1. /\ stage = "find" /\ nodename = NULL /\ stage' = "fault"
      /\ UNCHANGED <<disk, path, input, nodename, where, entry, live, leaked, listed, lookups>>
  BY DEF FreeNull
<1>2. Counters' /\ Rest' /\ Bearings' /\ FreesWhatItOwns'
  BY <1>1 DEF LookupInv, Counters, Stages, Rest, Bearings, FreesWhatItOwns
<1>3. Route'
  <2> SUFFICES ASSUME Plain(path) PROVE InRoot(path) /\ Target(path).isdir
    BY <1>1, SamePath DEF Route
  <2> QED
    BY <1>1 DEF LookupInv, Route, Bearings
<1>4. Shown'
  BY <1>1, ShownStays DEF LookupInv
<1> QED
  BY <1>2, <1>3, <1>4 DEF LookupInv

LEMMA ReturnStep == LookupInv /\ Return => LookupInv'
<1> SUFFICES ASSUME LookupInv, Return PROVE LookupInv'
  OBVIOUS
<1>1. /\ stage \in {"ok", "failed"} /\ stage' = "idle"
      /\ path' = <<>> /\ nodename' = NULL /\ where' = "garbage" /\ entry' = AtNull
      /\ UNCHANGED <<disk, input, live, leaked, listed, lookups>>
  BY DEF Return
<1>2. Counters' /\ Rest' /\ Bearings' /\ FreesWhatItOwns'
  BY <1>1 DEF LookupInv, Counters, Stages, Rest, Bearings, FreesWhatItOwns
<1>3. Route'
  BY <1>1 DEF Route, Plain
<1>4. Shown'
  BY <1>1, ShownStays DEF LookupInv
<1> QED
  BY <1>2, <1>3, <1>4 DEF LookupInv

-----------------------------------------------------------------------------
(* Counting slots *)

Before(n) == {m \in 1 .. n - 1 : Used(disk[Root][m])}

LEMMA CountIs ==
  ASSUME NEW n \in Nat \ {0}
  PROVE  /\ IsFiniteSet(Before(n)) /\ Count(n) = Cardinality(Before(n))
         /\ Count(n) \in Nat /\ Count(n) <= n - 1
<1>1. IsFiniteSet(1 .. n - 1) /\ Cardinality(1 .. n - 1) = n - 1
  <2>1. IsFiniteSet(1 .. n - 1) /\ Cardinality(1 .. n - 1) = IF 1 > n - 1 THEN 0 ELSE (n - 1) - 1 + 1
    BY FS_Interval
  <2> QED
    BY <2>1
<1>2. Before(n) \subseteq 1 .. n - 1
  BY DEF Before
<1>3. /\ IsFiniteSet(Before(n)) /\ Cardinality(Before(n)) <= Cardinality(1 .. n - 1)
  BY <1>1, <1>2, FS_Subset
<1>4. Count(n) = Cardinality(Before(n))
  BY DEF Count, Before
<1>5. Cardinality(Before(n)) \in Nat
  BY <1>3, FS_CardinalityType
<1> QED
  BY <1>1, <1>3, <1>4, <1>5

\* One slot further.
LEMMA CountNext ==
  ASSUME NEW n \in Nat \ {0}
  PROVE  Count(n + 1) = IF Used(disk[Root][n]) THEN Count(n) + 1 ELSE Count(n)
<1>1. IsFiniteSet(Before(n)) /\ Count(n) = Cardinality(Before(n)) /\ Count(n) \in Nat
  BY CountIs
<1>2. n + 1 \in Nat \ {0}
  OBVIOUS
<1>3. Count(n + 1) = Cardinality(Before(n + 1))
  BY <1>2, CountIs
<1>4. n \notin Before(n)
  BY DEF Before
<1>5. CASE Used(disk[Root][n])
  <2>1. Before(n + 1) = Before(n) \cup {n}
    BY <1>5 DEF Before
  <2>2. Cardinality(Before(n) \cup {n}) = Cardinality(Before(n)) + 1
    BY <1>1, <1>4, FS_AddElement
  <2> QED
    BY <1>1, <1>3, <1>5, <2>1, <2>2
<1>6. CASE ~Used(disk[Root][n])
  <2>1. Before(n + 1) = Before(n)
    BY <1>6 DEF Before
  <2> QED
    BY <1>1, <1>3, <1>6, <2>1
<1> QED
  BY <1>5, <1>6

LEMMA CountGrows ==
  ASSUME NEW m \in Nat \ {0}, NEW n \in Nat \ {0}, m < n, Used(disk[Root][m])
  PROVE  Count(m) < Count(n)
<1>1. /\ IsFiniteSet(Before(n)) /\ Count(n) = Cardinality(Before(n)) /\ Count(n) \in Nat
      /\ IsFiniteSet(Before(m + 1)) /\ Count(m + 1) = Cardinality(Before(m + 1)) /\ Count(m) \in Nat
  <2>1. m + 1 \in Nat \ {0}
    OBVIOUS
  <2> QED
    BY <2>1, CountIs
<1>2. Before(m + 1) \subseteq Before(n)
  BY DEF Before
<1>3. Cardinality(Before(m + 1)) <= Cardinality(Before(n))
  BY <1>1, <1>2, FS_Subset
<1>4. Count(m + 1) = Count(m) + 1
  BY CountNext
<1> QED
  BY <1>1, <1>3, <1>4

\* No number is left out.
LEMMA CountGap ==
  ASSUME NEW n \in Nat \ {0}, NEW pos \in Nat, Count(n) > pos
  PROVE  \E m \in 1 .. n - 1 : Used(disk[Root][m]) /\ Count(m) = pos
<1> DEFINE above == {m \in 1 .. n : Count(m) > pos}
<1>1. above \subseteq Nat /\ n \in above
  OBVIOUS
<1>2. PICK e \in above : \A m \in above : e <= m
  BY <1>1, LeastOf
<1>3. e \in 1 .. n /\ Count(e) > pos /\ e \in Nat \ {0}
  OBVIOUS
<1>4. e # 1
  <2>1. 1 \in Nat \ {0} /\ Count(1) <= 1 - 1 /\ Count(1) \in Nat
    BY CountIs
  <2> QED
    BY <1>3, <2>1
<1>5. e - 1 \in Nat \ {0} /\ e - 1 \in 1 .. n - 1 /\ e - 1 \in 1 .. n /\ (e - 1) + 1 = e
  BY <1>3, <1>4
<1>6. e - 1 \notin above
  BY <1>2, <1>3
<1>7. Count(e - 1) \in Nat /\ ~(Count(e - 1) > pos)
  BY <1>5, <1>6, CountIs
<1>8. Count(e) = IF Used(disk[Root][e - 1]) THEN Count(e - 1) + 1 ELSE Count(e - 1)
  BY <1>5, CountNext
<1> QED
  BY <1>3, <1>5, <1>7, <1>8

-----------------------------------------------------------------------------
(* The steps of a listing *)

LEMMA ListStep == LookupInv /\ List => LookupInv'
<1> SUFFICES ASSUME LookupInv, List PROVE LookupInv'
  OBVIOUS
<1>1. /\ stage = "idle" /\ lookups < MaxLookups /\ lookups' = lookups + 1
      /\ listed' = <<>> /\ stage' = "list"
      /\ UNCHANGED <<disk, path, input, nodename, where, entry, live, leaked>>
  BY DEF List
<1>2. Counters'
  BY <1>1, SeenAssumption DEF LookupInv, Counters, Stages
<1>3. Rest' /\ Bearings' /\ FreesWhatItOwns'
  BY <1>1 DEF LookupInv, Rest, Bearings, FreesWhatItOwns
<1>4. Route'
  BY <1>1 DEF LookupInv, Rest, Route, Plain
<1>5. Shown'
  BY <1>1, EmptySeq DEF Shown
<1> QED
  BY <1>2, <1>3, <1>4, <1>5 DEF LookupInv

\* The slot that answers an index has as many used ones in front of it.
LEMMA AnswerIs ==
  ASSUME disk \in Disks, NEW index \in Nat, Answers(index) # {}
  PROVE  LET n == CHOOSE n \in Answers(index) : \A m \in Answers(index) : n <= m
         IN  /\ n \in 1 .. Seen /\ n \in DOMAIN disk[Root]
             /\ Used(disk[Root][n]) /\ Count(n) = index
<1> DEFINE n == CHOOSE n \in Answers(index) : \A m \in Answers(index) : n <= m
<1>1. DOMAIN disk[Root] = 1 .. Len(disk[Root]) /\ Len(disk[Root]) \in Nat
  BY DisksAssumption, Zenon
<1>2. Answers(index) \subseteq Nat
  BY <1>1 DEF Answers
<1>3. n \in Answers(index) /\ \A m \in Answers(index) : n <= m
  BY <1>2, LeastOf
<1> HIDE DEF n
<1>4. /\ n \in DOMAIN disk[Root] /\ index <= Seen /\ n <= Seen /\ Used(disk[Root][n])
      /\ Count(n) >= index /\ n \in Nat \ {0} /\ n \in 1 .. Seen
  BY <1>1, <1>3, SeenAssumption DEF Answers, Reaches
<1>5. ~(Count(n) > index)
  <2> SUFFICES ASSUME Count(n) > index PROVE FALSE
    OBVIOUS
  <2>1. PICK m \in 1 .. n - 1 : Used(disk[Root][m]) /\ Count(m) = index
    BY <1>4, CountGap
  <2>2. m \in DOMAIN disk[Root] /\ m <= Seen /\ m < n /\ m \in Nat
    BY <1>1, <1>4, SeenAssumption
  <2>3. m \in Answers(index)
    BY <1>4, <2>1, <2>2 DEF Answers, Reaches
  <2> QED
    BY <1>3, <1>4, <2>2, <2>3
<1>6. Count(n) \in Nat
  BY <1>4, CountIs
<1> QED
  BY <1>4, <1>5, <1>6 DEF n

LEMMA ReadDirStep == LookupInv /\ ReadDir => LookupInv'
<1> SUFFICES ASSUME LookupInv, ReadDir PROVE LookupInv'
  OBVIOUS
<1> DEFINE index == Len(listed)
           n == CHOOSE n \in Answers(index) : \A m \in Answers(index) : n <= m
<1>1. /\ stage = "list" /\ Answers(index) # {} /\ listed' = Append(listed, n) /\ leaked' = leaked + 1
      /\ UNCHANGED <<disk, path, input, nodename, where, entry, live, lookups, stage>>
  BY DEF ReadDir
<1>2. /\ disk \in Disks /\ listed \in Seq(1 .. Seen) /\ index \in Nat
      /\ \A pos \in DOMAIN listed : /\ listed[pos] \in DOMAIN disk[Root] /\ Used(disk[Root][listed[pos]])
                                  /\ Count(listed[pos]) = pos - 1
  BY LenProperties DEF LookupInv, Counters, Shown
<1>3. /\ n \in 1 .. Seen /\ n \in DOMAIN disk[Root] /\ Used(disk[Root][n]) /\ Count(n) = index
  BY <1>1, <1>2, AnswerIs
<1> HIDE DEF n
<1>4. Counters' /\ Rest' /\ Bearings' /\ FreesWhatItOwns'
  BY <1>1 DEF LookupInv, Counters, Rest, Bearings, FreesWhatItOwns
<1>5. Route'
  BY <1>1 DEF LookupInv, Rest, Route, Plain
<1>6. Shown'
  <2>1. /\ listed' \in Seq(1 .. Seen) /\ Len(listed') = index + 1 /\ listed'[index + 1] = n
        /\ \A pos \in 1 .. index : listed'[pos] = listed[pos]
    BY <1>1, <1>2, <1>3, AppendProperties
  <2>2. DOMAIN listed = 1 .. index /\ DOMAIN listed' = 1 .. index + 1
    BY <1>2, <2>1, LenProperties
  <2>3. ASSUME NEW pos \in 1 .. index + 1
        PROVE  /\ listed'[pos] \in DOMAIN disk[Root] /\ Used(disk[Root][listed'[pos]])
               /\ Count(listed'[pos]) = pos - 1
    <3>1. CASE pos = index + 1
      BY <1>2, <1>3, <2>1, <3>1
    <3>2. CASE pos # index + 1
      <4>1. pos \in 1 .. index
        BY <1>2, <3>2
      <4> QED
        BY <1>2, <2>1, <2>2, <4>1
    <3> QED
      BY <3>1, <3>2
  <2> QED
    BY <1>1, <2>1, <2>2, <2>3 DEF Shown, Count, Used
<1> QED
  BY <1>4, <1>5, <1>6 DEF LookupInv

LEMMA ReadDirEndStep == LookupInv /\ ReadDirEnd => LookupInv'
<1> SUFFICES ASSUME LookupInv, ReadDirEnd PROVE LookupInv'
  OBVIOUS
<1>1. /\ stage = "list" /\ stage' = "idle" /\ listed' = <<>>
      /\ UNCHANGED <<disk, path, input, nodename, where, entry, live, leaked, lookups>>
  BY DEF ReadDirEnd
<1>2. Counters' /\ Rest' /\ Bearings' /\ FreesWhatItOwns'
  BY <1>1 DEF LookupInv, Counters, Stages, Rest, Bearings, FreesWhatItOwns
<1>3. Route'
  BY <1>1 DEF LookupInv, Rest, Route, Plain
<1>4. Shown'
  BY <1>1, EmptySeq DEF Shown
<1> QED
  BY <1>2, <1>3, <1>4 DEF LookupInv

LEMMA LookupStepInv == LookupInv /\ [LookupNext]_lookupVars => LookupInv'
<1> SUFFICES ASSUME LookupInv, [LookupNext]_lookupVars PROVE LookupInv'
  OBVIOUS
<1>1. ASSUME NEW p \in Paths, Lookup(p) PROVE LookupInv'
  BY <1>1, LookupStep
<1>2. CASE Step
  BY <1>2, SearchRootStep, NextTokenStep, FindEntryStep, NotFoundStep, FreeNullStep, ReturnStep DEF Step
<1>3. CASE List \/ ReadDir \/ ReadDirEnd
  BY <1>3, ListStep, ReadDirStep, ReadDirEndStep
<1>4. CASE UNCHANGED lookupVars
  <2>1. Counters' /\ Rest' /\ Bearings' /\ FreesWhatItOwns'
    BY <1>4 DEF lookupVars, LookupInv, Counters, Stages, Rest, Behind, Bearings, FreesWhatItOwns
  <2>2. Route'
    BY <1>4, SamePath DEF lookupVars, LookupInv, Route, Behind
  <2>3. Shown'
    BY <1>4 DEF lookupVars, LookupInv, Shown, Count, Used
  <2> QED
    BY <2>1, <2>2, <2>3 DEF LookupInv
<1> QED
  BY <1>1, <1>2, <1>3, <1>4 DEF LookupNext

LEMMA LookupInvariance == LookupSpec => []LookupInv
<1>1. LookupInit => LookupInv
  BY LookupInitInv
<1>2. LookupInv /\ [LookupNext]_lookupVars => LookupInv'
  BY LookupStepInv
<1> QED
  BY <1>1, <1>2, PTL DEF LookupSpec

-----------------------------------------------------------------------------
(* The theorems about lookups and listings *)

\* The variables have their types: strtok's static input is always a rest of a
\* path that was looked up, and the directory in the buffer one of the disk's
\* (fat.c:144-224).
THEOREM LookupTypeCorrect == LookupSpec => []LookupTypeOK
<1>1. LookupInv => LookupTypeOK
  <2> SUFFICES ASSUME LookupInv PROVE LookupTypeOK
    OBVIOUS
  <2>1. live \in Nat
    BY DEF LookupInv, FreesWhatItOwns
  <2>2. path \in Paths \cup {<<>>}
    BY DEF LookupInv, Rest
  <2> QED
    BY <2>1, <2>2 DEF LookupInv, LookupTypeOK, Counters, Stages, Rest, Bearings, Shown
<1> QED
  BY <1>1, LookupInvariance, PTL

\* A plain path leads a lookup to its entry, to a failure only where it leads
\* nowhere and to a page fault only where it leads to a directory, in every tree,
\* with every mixture of empty components and whatever was looked up before; and
\* what the root directory lacks is never reported missing (fat.c:186-224).
THEOREM LookupFindsItsEntry == LookupSpec => []Resolves
<1>1. LookupInv => Resolves
  BY DEF LookupInv, Route, Resolves
<1> QED
  BY <1>1, LookupInvariance, PTL

\* strtok loses a block only for an empty component in front of another one.
LEMMA StrtokLeaks ==
  ASSUME NEW p \in Paths, NEW k \in 0 .. Len(p) - 1, strtok(SubSeq(p, k + 1, Len(p))),
         leaked \in Nat, leaked' > leaked
  PROVE  \E n \in 1 .. Len(p) - 1 : p[n] = <<>>
<1>1. PICK j \in k + 1 .. Len(p) :
        (\A m \in k + 1 .. j - 1 : p[m] = <<>>) /\ leaked' = leaked + j - k - 1
  BY StrtokIs
<1>2. Len(p) \in Nat
  BY PathFacts
<1>3. j > k + 1 /\ k \in Nat /\ j \in Nat /\ j <= Len(p)
  BY <1>1, <1>2
<1>4. k + 1 \in k + 1 .. j - 1 /\ k + 1 \in 1 .. Len(p) - 1
  BY <1>2, <1>3
<1> QED
  BY <1>1, <1>4

LEMMA StepOwns ==
  LookupInv /\ [LookupNext]_lookupVars => [FreesWhatItOwns' /\ LeaksOnlyForSlashes]_lookupVars
<1> SUFFICES ASSUME LookupInv, LookupNext PROVE FreesWhatItOwns' /\ LeaksOnlyForSlashes
  OBVIOUS
<1>1. FreesWhatItOwns'
  BY LookupStepInv DEF LookupInv
<1>2. leaked \in Nat
  BY DEF LookupInv, Counters
<1>3. ASSUME UNCHANGED leaked PROVE LeaksOnlyForSlashes
  BY <1>2, <1>3 DEF LeaksOnlyForSlashes
<1>4. ASSUME NEW p \in Paths, Lookup(p), leaked' > leaked
      PROVE  stage # "list" /\ \E n \in 1 .. Len(path') - 1 : path'[n] = <<>>
  <2>1. p \in Seq(Names) /\ Len(p) \in Nat \ {0} /\ 0 \in 0 .. Len(p) - 1
    BY PathFacts
  <2>2. SubSeq(p, 0 + 1, Len(p)) = p
    BY <2>1, SubSeqFull
  <2>3. strtok(SubSeq(p, 0 + 1, Len(p))) /\ path' = p /\ stage = "idle"
    BY <1>4, <2>2 DEF Lookup, strtok
  <2> QED
    BY <1>2, <1>4, <2>1, <2>3, StrtokLeaks
<1>5. ASSUME NextToken, leaked' > leaked
      PROVE  stage # "list" /\ \E n \in 1 .. Len(path') - 1 : path'[n] = <<>>
  <2>1. stage = "walk" /\ path' = path /\ input # <<>> /\ strtok(input)
    BY <1>2, <1>5 DEF NextToken
  <2>2. PICK k \in 1 .. Len(path) : Behind(k)
    BY <2>1 DEF LookupInv, Rest
  <2>3. path \in Paths /\ path \in Seq(Names) /\ Len(path) \in Nat \ {0}
    BY <2>1, PathFacts DEF LookupInv, Rest
  <2>4. input = SubSeq(path, k + 1, Len(path))
    BY <2>2 DEF Behind
  <2> DEFINE l == Len(path)
  <2>5. l \in Nat /\ k \in 1 .. l
    BY <2>3
  <2>6. Len(input) = l - k /\ (input # <<>> => Len(input) # 0) /\ Len(input) \in Nat
    <3>1. k \in 0 .. l
      BY <2>5
    <3>2. input \in Seq(Names) /\ Len(input) = l - k
      BY <2>3, <2>4, <3>1, RestIs
    <3> QED
      BY <3>2, EmptySeq, LenProperties
  <2> HIDE DEF l
  <2>7. k \in 0 .. l - 1
    BY <2>1, <2>5, <2>6
  <2>8. strtok(SubSeq(path, k + 1, Len(path)))
    BY <2>1, <2>4 DEF strtok
  <2> QED
    BY <1>2, <1>5, <2>1, <2>3, <2>7, <2>8, StrtokLeaks DEF l
<1>6. ASSUME ReadDir PROVE LeaksOnlyForSlashes
  <2>1. stage = "list" /\ leaked' = leaked + 1 /\ Len(listed') > Len(listed)
    <3>1. listed \in Seq(1 .. Seen) /\ Len(listed) \in Nat
      BY LenProperties DEF LookupInv, Shown
    <3>2. /\ stage = "list" /\ leaked' = leaked + 1 /\ Answers(Len(listed)) # {}
          /\ listed' = Append(listed, CHOOSE n \in Answers(Len(listed)) :
                                        \A m \in Answers(Len(listed)) : n <= m)
      BY <1>6 DEF ReadDir
    <3>3. (CHOOSE n \in Answers(Len(listed)) : \A m \in Answers(Len(listed)) : n <= m) \in 1 .. Seen
      BY <3>1, <3>2, AnswerIs DEF LookupInv, Counters
    <3>4. Len(listed') = Len(listed) + 1
      BY <3>1, <3>2, <3>3, AppendProperties
    <3> QED
      BY <3>1, <3>2, <3>4
  <2> QED
    BY <2>1 DEF LeaksOnlyForSlashes
<1>7. \/ UNCHANGED leaked \/ NextToken \/ ReadDir
      \/ \E p \in Paths : Lookup(p)
  BY DEF LookupNext, Step, SearchRoot, FindEntry, NotFound, FreeNull, Return, List, ReadDirEnd
<1>8. LeaksOnlyForSlashes
  BY <1>3, <1>4, <1>5, <1>6, <1>7 DEF LeaksOnlyForSlashes
<1> QED
  BY <1>1, <1>8

\* Each block belongs to a lookup that runs, and none is left between lookups,
\* whichever of its ways out a lookup took; only a doubled or leading slash and
\* a listed entry cost memory for ever (fat.c:144-260).
THEOREM LookupsFreeTheirBlocks == LookupSpec => Ownership
<1>1. LookupInv /\ [LookupNext]_lookupVars => [FreesWhatItOwns' /\ LeaksOnlyForSlashes]_lookupVars
  BY StepOwns
<1> QED
  BY <1>1, LookupInvariance, PTL DEF LookupSpec, Ownership

-----------------------------------------------------------------------------
(* Every lookup moves on *)

\* A bound on the steps that are left of a lookup: each component that is still
\* in strtok's input is taken once and looked for once.
WayLeft ==
  CASE stage = "root" -> 2 * Len(input) + 3
    [] stage = "walk" -> 2 * Len(input) + 2
    [] stage = "find" -> IF nodename = NULL THEN 1 ELSE 2 * Len(input) + 3
    [] stage \in {"ok", "failed"} -> 1
    [] OTHER -> 0

LEMMA InputFacts ==
  ASSUME LookupInv
  PROVE  input \in Seq(Names) /\ Len(input) \in Nat
<1>1. CASE input = <<>>
  <2>1. input \in Seq(Names)
    BY <1>1, EmptySeq
  <2> QED
    BY <2>1, LenProperties
<1>2. ASSUME NEW p \in Paths, NEW n \in DOMAIN p, input = SubSeq(p, n + 1, Len(p))
      PROVE  input \in Seq(Names)
  <2>1. p \in Seq(Names) /\ n \in 0 .. Len(p)
    BY PathFacts
  <2> QED
    BY <1>2, <2>1, RestIs
<1>3. input \in Seq(Names)
  BY <1>1, <1>2, EmptySeq DEF LookupInv, Rest
<1> QED
  BY <1>3, LenProperties

\* strtok takes at least one component away.
LEMMA StrtokShortens ==
  ASSUME NEW s \in Seq(Names), s # <<>>, strtok(s)
  PROVE  Len(input') \in Nat /\ Len(input') < Len(s) /\ Len(s) \in Nat
<1>1. Token(s) \in 1 .. Len(s) /\ Len(s) \in Nat
  BY TokenIs, LenProperties
<1>2. Len(input') = Len(s) - Token(s)
  <2>1. Token(s) \in 0 .. Len(s)
    BY <1>1
  <2>2. input' = SubSeq(s, Token(s) + 1, Len(s))
    BY DEF strtok
  <2> HIDE DEF strtok
  <2> QED
    BY <2>1, <2>2, RestIs
<1> QED
  BY <1>1, <1>2

LEMMA WayCounted ==
  ASSUME LookupInv
  PROVE  WayLeft \in Nat
BY InputFacts DEF WayLeft

LEMMA WayShortens ==
  ASSUME LookupInv, Step
  PROVE  WayLeft' < WayLeft
<1> DEFINE l == Len(input)
<1>1. l \in Nat
  BY InputFacts
<1>2. CASE SearchRoot
  <2>1. stage = "root" /\ stage' \in {"walk", "ok"} /\ Len(input') = l
    BY <1>2 DEF SearchRoot
  <2> QED
    BY <1>1, <2>1 DEF WayLeft
<1>3. CASE NextToken
  <2>1. stage = "walk" /\ stage' = "find"
    BY <1>3 DEF NextToken
  <2>2. WayLeft = 2 * l + 2
    BY <2>1 DEF WayLeft
  <2>3. CASE input = <<>>
    <3>1. nodename' = NULL
      BY <1>3, <2>3 DEF NextToken
    <3>2. WayLeft' = 1
      BY <2>1, <3>1 DEF WayLeft
    <3> HIDE DEF l
    <3> QED
      BY <1>1, <2>2, <3>2
  <2>4. CASE input # <<>>
    <3>1. strtok(input)
      BY <1>3, <2>4 DEF NextToken
    <3>2. Len(input') \in Nat /\ Len(input') < l
      BY <2>4, <3>1, InputFacts, StrtokShortens
    <3>3. WayLeft' = IF nodename' = NULL THEN 1 ELSE 2 * Len(input') + 3
      BY <2>1 DEF WayLeft
    <3> HIDE DEF l
    <3> QED
      BY <1>1, <2>2, <3>2, <3>3
  <2> QED
    BY <2>3, <2>4
<1>4. CASE FindEntry
  <2>1. stage = "find" /\ nodename # NULL /\ stage' \in {"walk", "ok"} /\ Len(input') = l
    BY <1>4 DEF FindEntry
  <2> QED
    BY <1>1, <2>1 DEF WayLeft
<1>5. CASE NotFound
  <2>1. stage = "find" /\ nodename # NULL /\ stage' = "failed"
    BY <1>5 DEF NotFound
  <2> QED
    BY <1>1, <2>1 DEF WayLeft
<1>6. CASE FreeNull
  BY <1>6 DEF FreeNull, WayLeft
<1>7. CASE Return
  BY <1>7 DEF Return, WayLeft
<1> QED
  BY <1>2, <1>3, <1>4, <1>5, <1>6, <1>7 DEF Step

\* The way that a caller's path leaves to go.
LEMMA WayOfPath ==
  ASSUME NEW p \in Paths, Lookup(p)
  PROVE  WayLeft' <= 2 * Len(p) + 1
<1>1. p \in Seq(Names) /\ p # <<>>
  BY PathFacts
<1>2. strtok(p) /\ stage' = "root"
  BY DEF Lookup
<1>3. Len(input') \in Nat /\ Len(input') < Len(p) /\ Len(p) \in Nat
  BY <1>1, <1>2, StrtokShortens
<1>4. WayLeft' = 2 * Len(input') + 3
  BY <1>2 DEF WayLeft
<1> QED
  BY <1>3, <1>4

\* A lookup goes round nowhere, in any tree, also in one whose directories lead
\* back to each other: each of its steps lowers a bound that begins at one above
\* twice the path's components and is never below 0 (fat.c:191-224).
THEOREM LookupShortens ==
  LookupSpec => /\ [](WayLeft \in Nat)
                /\ [][/\ Step => WayLeft' < WayLeft
                      /\ \A p \in Paths : Lookup(p) => WayLeft' <= 2 * Len(p) + 1]_lookupVars
<1>1. LookupInv => WayLeft \in Nat
  BY WayCounted
<1>2. LookupInv /\ [LookupNext]_lookupVars =>
        [/\ Step => WayLeft' < WayLeft
         /\ \A p \in Paths : Lookup(p) => WayLeft' <= 2 * Len(p) + 1]_lookupVars
  <2>1. LookupInv /\ Step => WayLeft' < WayLeft
    BY WayShortens
  <2>2. \A p \in Paths : Lookup(p) => WayLeft' <= 2 * Len(p) + 1
    BY WayOfPath
  <2> QED
    BY <2>1, <2>2
<1> QED
  BY <1>1, <1>2, LookupInvariance, PTL DEF LookupSpec

-----------------------------------------------------------------------------
(* Listings *)

\* When a listing ends, it has returned every used slot that is read, in order.
Listed ==
  stage = "list" /\ stage' = "idle" =>
    /\ \A m, n \in DOMAIN listed : m < n => listed[m] < listed[n]
    /\ ToSet(listed) = {n \in DOMAIN disk[Root] : n <= Seen /\ Used(disk[Root][n])}

LEMMA ListingEnds == LookupInv /\ [LookupNext]_lookupVars => [Listed]_lookupVars
<1> SUFFICES ASSUME LookupInv, LookupNext, stage = "list", stage' = "idle"
             PROVE  /\ \A m, n \in DOMAIN listed : m < n => listed[m] < listed[n]
                    /\ ToSet(listed) = {n \in DOMAIN disk[Root] : n <= Seen /\ Used(disk[Root][n])}
  BY DEF Listed
<1> DEFINE index == Len(listed)
<1>1. Answers(index) = {}
  <2>1. ReadDirEnd
    BY DEF LookupNext, Lookup, Step, SearchRoot, NextToken, FindEntry, NotFound, FreeNull, Return,
           List, ReadDir
  <2> QED
    BY <2>1 DEF ReadDirEnd
<1>2. /\ disk \in Disks /\ listed \in Seq(1 .. Seen)
      /\ \A pos \in DOMAIN listed : /\ listed[pos] \in DOMAIN disk[Root] /\ Used(disk[Root][listed[pos]])
                                  /\ Count(listed[pos]) = pos - 1
  BY DEF LookupInv, Counters, Shown
<1>3. index \in Nat /\ DOMAIN listed = 1 .. index /\ Seen \in Nat \ {0}
  BY <1>2, LenProperties, SeenAssumption
<1>4. \A pos \in 1 .. index : listed[pos] \in Nat \ {0} /\ listed[pos] <= Seen
  <2> TAKE pos \in 1 .. index
  <2>1. listed[pos] \in 1 .. Seen
    BY <1>2, <1>3, ElementOfSeq
  <2> QED
    BY <1>3, <2>1
<1> HIDE DEF index
<1>5. ASSUME NEW m \in 1 .. index, NEW n \in 1 .. index, m < n PROVE listed[m] < listed[n]
  <2>1. Count(listed[m]) = m - 1 /\ Count(listed[n]) = n - 1 /\ Used(disk[Root][listed[n]])
    BY <1>2, <1>3
  <2>2. ~(listed[n] < listed[m])
    <3>1. listed[n] < listed[m] => Count(listed[n]) < Count(listed[m])
      BY <1>4, <2>1, CountGrows
    <3> QED
      BY <1>3, <1>5, <2>1, <3>1
  <2>3. listed[m] # listed[n]
    BY <1>3, <1>5, <2>1
  <2> QED
    BY <1>4, <2>2, <2>3
<1>6. index <= Seen
  <2>1. CASE index = 0
    BY <1>3, <2>1
  <2>2. CASE index # 0
    <3>1. index \in 1 .. index
      BY <1>3, <2>2
    <3>2. Count(listed[index]) = index - 1 /\ Count(listed[index]) <= listed[index] - 1
      BY <1>2, <1>3, <1>4, <3>1, CountIs
    <3> QED
      BY <1>3, <1>4, <3>1, <3>2
  <2> QED
    BY <2>1, <2>2
<1>7. DOMAIN disk[Root] = 1 .. Len(disk[Root]) /\ Len(disk[Root]) \in Nat
  BY <1>2, DisksAssumption, Zenon
<1>8. ASSUME NEW n \in DOMAIN disk[Root], n <= Seen, Used(disk[Root][n])
      PROVE  n \in ToSet(listed)
  <2>1. n \in Nat \ {0}
    BY <1>7
  <2>2. Count(n) \in Nat /\ ~(Count(n) >= index)
    <3>1. Count(n) \in Nat
      BY <2>1, CountIs
    <3>2. n \notin Answers(index)
      BY <1>1
    <3> QED
      BY <1>6, <1>8, <3>1, <3>2 DEF Answers, Reaches
  <2> DEFINE pos == Count(n) + 1
  <2>3. pos \in 1 .. index
    BY <1>3, <2>2
  <2>4. Count(listed[pos]) = Count(n) /\ Used(disk[Root][listed[pos]]) /\ listed[pos] \in Nat \ {0}
    <3>1. Count(listed[pos]) = pos - 1
      BY <1>2, <1>3, <2>3
    <3> QED
      BY <1>2, <1>3, <1>4, <2>2, <2>3, <3>1
  <2>5. ~(n < listed[pos]) /\ ~(listed[pos] < n)
    BY <1>8, <2>1, <2>2, <2>4, CountGrows
  <2>6. n = listed[pos]
    BY <2>1, <2>4, <2>5
  <2> QED
    BY <1>3, <2>3, <2>6 DEF ToSet
<1>9. ASSUME NEW pos \in DOMAIN listed
      PROVE  /\ listed[pos] \in DOMAIN disk[Root] /\ listed[pos] <= Seen
             /\ Used(disk[Root][listed[pos]])
  BY <1>2, <1>3, <1>4
<1>10. ToSet(listed) = {n \in DOMAIN disk[Root] : n <= Seen /\ Used(disk[Root][n])}
  BY <1>8, <1>9 DEF ToSet
<1> QED
  BY <1>3, <1>5, <1>10

\* A listing of the root directory is complete: it returns every used slot among
\* those that are read, each once and in their order (fat.c:234-260).
THEOREM ListingIsComplete == LookupSpec => ListsUsed
<1>1. LookupInv /\ [LookupNext]_lookupVars => [Listed]_lookupVars
  BY ListingEnds
<1> QED
  BY <1>1, LookupInvariance, PTL DEF LookupSpec, ListsUsed, Listed

=============================================================================
