------------------------------ MODULE Vfs_proofs ------------------------------
(***************************************************************************)
(* Proofs about the search for mount points and the nodes of Vfs.tla, for  *)
(* every alphabet, every set of absolute paths and every mount table that  *)
(* begins with the root; and about the callbacks and the listing of        *)
(* Syscalls.tla, for every number of nodes that programs hold, every       *)
(* naming of the four devices and whatever unused memory holds.            *)
(***************************************************************************)
EXTENDS Vfs, Syscalls, SequenceTheorems, WellFoundedInduction, TLAPS

-----------------------------------------------------------------------------
(* Least and greatest numbers *)

LEMMA Least ==
  ASSUME NEW S, S \subseteq Nat, S # {}
  PROVE  FirstOf(S) \in S /\ \A m \in S : FirstOf(S) <= m
<1>1. \E x \in S : \A y \in S : <<y, x>> \notin OpToRel(<, Nat)
  BY NatLessThanWellFounded, WFMin
<1>2. PICK x \in S : \A y \in S : <<y, x>> \notin OpToRel(<, Nat)
  BY <1>1
<1>3. \A y \in S : x <= y
  <2> SUFFICES ASSUME NEW y \in S, y < x PROVE FALSE
    OBVIOUS
  <2>1. <<y, x>> \in OpToRel(<, Nat)
    BY DEF OpToRel
  <2> QED
    BY <2>1, <1>2
<1> QED
  BY <1>3 DEF FirstOf

LEMMA Greatest ==
  ASSUME NEW n \in Nat, NEW S, S \subseteq 1 .. n, S # {}
  PROVE  \E x \in S : \A y \in S : y <= x
<1> DEFINE T == {n - x : x \in S}
<1>0. \A x \in S : n - x \in Nat
  OBVIOUS
<1>1. T \subseteq Nat /\ T # {}
  BY <1>0, Zenon
<1>2. FirstOf(T) \in T /\ \A m \in T : FirstOf(T) <= m
  BY <1>1, Least
<1>3. PICK x \in S : FirstOf(T) = n - x
  BY <1>2
<1>4. \A y \in S : n - x <= n - y
  BY <1>2, <1>3
<1> QED
  BY <1>4

-----------------------------------------------------------------------------
(* Sequences *)

LEMMA InDomain ==
  ASSUME NEW T, NEW q \in Seq(T), NEW n \in DOMAIN q
  PROVE  n \in 1 .. Len(q) /\ q[n] \in T
  OBVIOUS

LEMMA Beginning ==
  ASSUME NEW T, NEW s \in Seq(T), NEW n \in 0 .. Len(s)
  PROVE  /\ SubSeq(s, 1, n) \in Seq(T)
         /\ Len(SubSeq(s, 1, n)) = n
         /\ \A k \in 1 .. n : SubSeq(s, 1, n)[k] = s[k]
  OBVIOUS

USE PathsAssumption, MountsAssumption, BoundsAssumption

-----------------------------------------------------------------------------
(* Prefixes *)

\* Being a prefix, character by character.
LEMMA PrefixIff ==
  ASSUME NEW s \in Seq(Chars), NEW t \in Seq(Chars)
  PROVE  IsPrefix(s, t) <=> Len(s) <= Len(t) /\ \A k \in 1 .. Len(s) : s[k] = t[k]
<1>1. SubSeq(s, 1, Len(s)) = s
  BY SubSeqFull
<1>2. CASE Len(s) <= Len(t)
  <2>1. Len(s) \in 0 .. Len(t)
    BY <1>2
  <2>2. /\ SubSeq(t, 1, Len(s)) \in Seq(Chars)
        /\ Len(SubSeq(t, 1, Len(s))) = Len(s)
        /\ \A k \in 1 .. Len(s) : SubSeq(t, 1, Len(s))[k] = t[k]
    BY <2>1, Beginning
  <2>3. s = SubSeq(t, 1, Len(s)) <=> \A k \in 1 .. Len(s) : s[k] = t[k]
    BY <2>2
  <2> QED
    BY <1>1, <1>2, <2>3 DEF IsPrefix
<1>3. CASE ~(Len(s) <= Len(t))
  BY <1>3 DEF IsPrefix
<1> QED
  BY <1>2, <1>3

\* A prefix of the same length is the whole.
LEMMA WholePrefix ==
  ASSUME NEW s \in Seq(Chars), NEW t \in Seq(Chars), IsPrefix(s, t), Len(s) = Len(t)
  PROVE  s = t
<1>1. SubSeq(s, 1, Len(s)) = s /\ SubSeq(t, 1, Len(t)) = t
  BY SubSeqFull
<1> QED
  BY <1>1 DEF IsPrefix

\* strdeltoc cuts s no shorter than any proper prefix of it that ends in a slash.
LEMMA CutKeeps ==
  ASSUME NEW s \in Seq(Chars)
  PROVE  /\ strdeltoc(s) \in Seq(Chars)
         /\ IsPrefix(strdeltoc(s), s)
         /\ \A p \in Seq(Chars) :
              IsPrefix(p, s) /\ p # s /\ p # <<>> /\ Last(p) = Slash
                => IsPrefix(p, strdeltoc(s))
<1> DEFINE slashes == {n \in CutAt(s) : s[n] = Slash}
<1>1. Len(s) \in Nat /\ slashes \subseteq 1 .. Len(s)
  BY DEF CutAt
<1>2. IsPrefix(s, s)
  BY PrefixIff
<1>3. CASE slashes = {}
  <2>1. strdeltoc(s) = s
    BY <1>3 DEF strdeltoc
  <2> QED
    BY <2>1, <1>2
<1>4. CASE slashes # {}
  <2> DEFINE c == CHOOSE n \in slashes : \A m \in slashes : m <= n
  <2>1. c \in slashes /\ \A m \in slashes : m <= c
    BY <1>1, <1>4, Greatest
  <2>2. strdeltoc(s) = SubSeq(s, 1, c)
    BY <1>4 DEF strdeltoc
  <2> HIDE DEF c
  <2>3. c \in 0 .. Len(s)
    BY <2>1, <1>1
  <2>4. /\ strdeltoc(s) \in Seq(Chars) /\ Len(strdeltoc(s)) = c
        /\ \A k \in 1 .. c : strdeltoc(s)[k] = s[k]
    BY <2>2, <2>3, Beginning
  <2>5. IsPrefix(strdeltoc(s), s)
    BY <2>3, <2>4, PrefixIff
  <2>6. ASSUME NEW p \in Seq(Chars), IsPrefix(p, s), p # s, p # <<>>, Last(p) = Slash
        PROVE  IsPrefix(p, strdeltoc(s))
    <3>1. Len(p) <= Len(s) /\ \A k \in 1 .. Len(p) : p[k] = s[k]
      BY <2>6, PrefixIff
    <3>2. Len(p) # Len(s)
      BY <2>6, WholePrefix
    <3>3. Len(p) \in 1 .. Len(s) - 1
      BY <2>6, <3>1, <3>2
    <3>4. s[Len(p)] = Slash
      BY <2>6, <3>1, <3>3 DEF Last
    <3>5. Len(p) \in slashes
      BY <3>3, <3>4 DEF CutAt
    <3>6. Len(p) <= c
      BY <3>5, <2>1
    <3>7. \A k \in 1 .. Len(p) : p[k] = strdeltoc(s)[k]
      BY <3>1, <3>3, <3>6, <2>3, <2>4
    <3> QED
      BY <3>6, <3>7, <2>4, PrefixIff
  <2> QED
    BY <2>4, <2>5, <2>6
<1> QED
  BY <1>3, <1>4

-----------------------------------------------------------------------------
(* The invariant *)

\* The first mount is the root's, and the shell starts only when it is there.
RootFirst ==
  /\ mount_points # <<>> => mount_points[1].path = <<Slash>>
  /\ pc # "boot" => mount_points # <<>>

\* The search has passed no mount point of the path.
NonePassed ==
  pc = "find" =>
    /\ mount_path \in Seq(Chars)
    /\ path \in Paths
    /\ \A n \in Above(path) : IsPrefix(mount_points[n].path, mount_path)

\* The blocks, at every step.
Blocks ==
  live = handles["NULL"] + handles["garbage"]
         + (CASE pc = "find" -> 2 [] pc \in {"open", "fault"} -> 1 [] OTHER -> 0)

IInv == TypeOK /\ RootFirst /\ NonePassed /\ DeepestMount /\ Blocks

\* The mount points' paths.
LEMMA MountFacts ==
  ASSUME TypeOK, NEW n \in DOMAIN mount_points
  PROVE  /\ n \in Nat /\ n \in 1 .. Len(mount_points)
         /\ mount_points[n].path \in MountPaths
         /\ mount_points[n].path \in Seq(Chars)
         /\ mount_points[n].path # <<>>
         /\ Last(mount_points[n].path) = Slash
         /\ mount_points[n].close \in Callbacks
<1>1. mount_points \in Seq([path : MountPaths, type : {0, 1}, close : Callbacks])
  BY DEF TypeOK
<1>2. n \in 1 .. Len(mount_points)
      /\ mount_points[n] \in [path : MountPaths, type : {0, 1}, close : Callbacks]
  BY <1>1, InDomain
<1> QED
  BY <1>2

\* The root lies above every path.
LEMMA RootAbove ==
  ASSUME TypeOK, RootFirst, pc # "boot", NEW p \in Seq(Chars), p # <<>>, p[1] = Slash
  PROVE  1 \in Above(p) /\ 1 \in DOMAIN mount_points /\ mount_points[1].path = <<Slash>>
<1>1. mount_points \in Seq([path : MountPaths, type : {0, 1}, close : Callbacks])
  BY DEF TypeOK
<1>2. 1 \in DOMAIN mount_points /\ mount_points[1].path = <<Slash>>
  BY <1>1 DEF RootFirst
<1>3. <<Slash>> \in Seq(Chars) /\ Len(<<Slash>>) = 1 /\ <<Slash>>[1] = Slash
  <2>1. <<Slash>> \in Seq(Chars)
    BY <1>2, MountFacts
  <2> QED
    BY <2>1
<1>4. Len(p) >= 1
  OBVIOUS
<1>5. IsPrefix(<<Slash>>, p)
  BY <1>3, <1>4, PrefixIff
<1> QED
  BY <1>2, <1>5 DEF Above

-----------------------------------------------------------------------------
(* The steps *)

LEMMA InitInv == Init => IInv
<1> SUFFICES ASSUME Init PROVE IInv
  OBVIOUS
<1>1. handles \in [Callbacks -> Nat] /\ handles["NULL"] = 0 /\ handles["garbage"] = 0
  BY DEF Init, Callbacks
<1>2. IsPrefix(mount_path, path)
  BY DEF Init, IsPrefix
<1>3. TypeOK
  BY <1>1, <1>2 DEF Init, TypeOK
<1> QED
  BY <1>1, <1>3 DEF IInv, RootFirst, NonePassed, DeepestMount, Blocks, Init

LEMMA MountInv ==
  ASSUME IInv, NEW p \in MountPaths, NEW type \in {0, 1}, NEW close \in Callbacks,
         Mount(p, type, close)
  PROVE  IInv'
<1> DEFINE m == [path |-> p, type |-> type, close |-> close]
<1> USE DEF IInv
<1>1. /\ mount_points \in Seq([path : MountPaths, type : {0, 1}, close : Callbacks])
      /\ m \in [path : MountPaths, type : {0, 1}, close : Callbacks]
      /\ mount_points' = Append(mount_points, m)
      /\ UNCHANGED <<handles, live, path, mount_path, mnt_i, pc>> /\ pc = "boot"
  BY DEF Mount, TypeOK
<1> HIDE DEF m
<1>2. /\ mount_points' \in Seq([path : MountPaths, type : {0, 1}, close : Callbacks])
      /\ Len(mount_points') = Len(mount_points) + 1
      /\ \A n \in 1 .. Len(mount_points) : mount_points'[n] = mount_points[n]
      /\ mount_points'[Len(mount_points) + 1] = m
  BY <1>1
<1>3. TypeOK'
  <2>1. mnt_i' \in 0 .. Len(mount_points')
    BY <1>1, <1>2 DEF TypeOK
  <2> QED
    BY <2>1, <1>1, <1>2 DEF TypeOK
<1>4. RootFirst'
  <2>1. CASE mount_points = <<>>
    <3>1. Len(mount_points) = 0 /\ p = <<Slash>>
      BY <2>1 DEF Mount
    <3>2. mount_points'[1] = m
      BY <3>1, <1>2
    <3> QED
      BY <3>1, <3>2, <1>1 DEF RootFirst, m
  <2>2. CASE mount_points # <<>>
    <3>1. 1 \in 1 .. Len(mount_points)
      BY <2>2, <1>1
    <3> QED
      BY <2>2, <3>1, <1>1, <1>2 DEF RootFirst
  <2> QED
    BY <2>1, <2>2
<1>5. NonePassed' /\ DeepestMount' /\ Blocks'
  BY <1>1 DEF NonePassed, DeepestMount, Blocks
<1> QED
  BY <1>3, <1>4, <1>5

LEMMA BootInv == IInv /\ Boot => IInv'
<1> SUFFICES ASSUME IInv, Boot PROVE IInv'
  OBVIOUS
<1> USE DEF IInv
<1>1. TypeOK' /\ RootFirst'
  BY DEF Boot, TypeOK, RootFirst
<1> QED
  BY <1>1 DEF Boot, NonePassed, DeepestMount, Blocks

LEMMA FopenInv == ASSUME IInv, NEW p \in Paths, Fopen(p) PROVE IInv'
<1> USE DEF IInv
<1>1. p \in Seq(Chars) /\ IsPrefix(p, p)
  BY PrefixIff
<1>2. TypeOK'
  BY <1>1 DEF Fopen, TypeOK
<1>3. RootFirst'
  BY DEF Fopen, RootFirst
<1>4. NonePassed'
  BY <1>1 DEF Fopen, NonePassed, Above
<1>5. Blocks'
  <2>1. handles["NULL"] \in Nat /\ handles["garbage"] \in Nat
    BY DEF TypeOK, Callbacks
  <2> QED
    BY <2>1 DEF Fopen, Blocks
<1> QED
  BY <1>2, <1>3, <1>4, <1>5 DEF Fopen, DeepestMount

LEMMA FindMountInv == IInv /\ FindMount => IInv'
<1> SUFFICES ASSUME IInv, FindMount PROVE IInv'
  OBVIOUS
<1> USE DEF IInv
<1>1. /\ mount_path \in Seq(Chars) /\ path \in Paths /\ path \in Seq(Chars)
      /\ \A n \in Above(path) : IsPrefix(mount_points[n].path, mount_path)
      /\ IsPrefix(mount_path, path)
  BY DEF NonePassed, FindMount, TypeOK
<1>2. 1 \in Above(path) /\ 1 \in DOMAIN mount_points /\ mount_points[1].path = <<Slash>>
  BY <1>1, RootAbove DEF FindMount
<1>3. Hits # {}
  BY <1>2 DEF FindMount, Hits
<1>4. Hits \subseteq Nat
  BY MountFacts DEF Hits
<1>5. /\ mnt_i' = FirstOf(Hits) /\ mnt_i' \in Hits
      /\ \A m \in Hits : mnt_i' <= m
  BY <1>3, <1>4, Least DEF FindMount
<1>6. /\ mnt_i' \in DOMAIN mount_points /\ mnt_i' \in 1 .. Len(mount_points)
      /\ mount_points[mnt_i'].path = mount_path
  BY <1>5, MountFacts DEF Hits
<1>7. DeepestMount'
  <2>1. mnt_i' \in Above(path)
    BY <1>1, <1>6 DEF Above
  <2>2. ASSUME NEW n \in Above(path)
        PROVE  \/ Len(mount_points[n].path) < Len(mount_points[mnt_i'].path)
               \/ n >= mnt_i' /\ Len(mount_points[n].path) = Len(mount_points[mnt_i'].path)
    <3>1. /\ n \in DOMAIN mount_points /\ n \in Nat
          /\ mount_points[n].path \in Seq(Chars)
          /\ IsPrefix(mount_points[n].path, mount_path)
      BY <2>2, <1>1, MountFacts DEF Above
    <3>2. Len(mount_points[n].path) <= Len(mount_path)
      BY <3>1 DEF IsPrefix
    <3>3. CASE Len(mount_points[n].path) = Len(mount_path)
      <4>1. mount_points[n].path = mount_path
        BY <3>1, <3>3, <1>1, WholePrefix
      <4>2. n \in Hits
        BY <4>1, <3>1 DEF Hits
      <4> QED
        BY <4>2, <3>1, <3>3, <1>5, <1>6
    <3> QED
      BY <3>1, <3>2, <3>3, <1>1, <1>6
  <2> QED
    BY <2>1, <2>2 DEF DeepestMount, FindMount, Above
<1>8. TypeOK'
  <2>1. mnt_i' \in 0 .. Len(mount_points') /\ mnt_i' > 0
    BY <1>6 DEF FindMount
  <2>2. live' \in Nat
    BY DEF FindMount, Blocks, TypeOK, Callbacks
  <2> QED
    BY <2>1, <2>2 DEF FindMount, TypeOK
<1>9. Blocks'
  <2>1. handles["NULL"] \in Nat /\ handles["garbage"] \in Nat
    BY DEF TypeOK, Callbacks
  <2> QED
    BY <2>1 DEF FindMount, Blocks
<1> QED
  BY <1>7, <1>8, <1>9 DEF FindMount, RootFirst, NonePassed

LEMMA ShortenInv == IInv /\ Shorten => IInv'
<1> SUFFICES ASSUME IInv, Shorten PROVE IInv'
  OBVIOUS
<1> USE DEF IInv
<1>1. /\ mount_path \in Seq(Chars) /\ path \in Paths /\ path \in Seq(Chars)
      /\ \A n \in Above(path) : IsPrefix(mount_points[n].path, mount_path)
      /\ IsPrefix(mount_path, path)
  BY DEF NonePassed, Shorten, TypeOK
<1>2. mount_path' = strdeltoc(mount_path)
  BY DEF Shorten
<1>3. mount_path' \in Seq(Chars) /\ IsPrefix(mount_path', mount_path)
  BY <1>1, <1>2, CutKeeps
<1>4. IsPrefix(mount_path', path)
  <2>1. Len(mount_path') <= Len(mount_path)
        /\ \A k \in 1 .. Len(mount_path') : mount_path'[k] = mount_path[k]
    BY <1>1, <1>3, PrefixIff
  <2>2. Len(mount_path) <= Len(path)
        /\ \A k \in 1 .. Len(mount_path) : mount_path[k] = path[k]
    BY <1>1, PrefixIff
  <2>3. Len(mount_path') <= Len(path)
        /\ \A k \in 1 .. Len(mount_path') : mount_path'[k] = path[k]
    BY <2>1, <2>2, <1>1, <1>3
  <2> QED
    BY <2>3, <1>1, <1>3, PrefixIff
<1>5. NonePassed'
  <2>1. ASSUME NEW n \in Above(path)
        PROVE  IsPrefix(mount_points[n].path, mount_path')
    <3> DEFINE p == mount_points[n].path
    <3>1. /\ n \in DOMAIN mount_points
          /\ p \in Seq(Chars) /\ p # <<>> /\ Last(p) = Slash
          /\ IsPrefix(p, mount_path)
      BY <2>1, <1>1, MountFacts DEF Above
    <3>2. p # mount_path
      BY <3>1 DEF Shorten, Hits
    <3> HIDE DEF p
    <3>3. IsPrefix(p, mount_path')
      BY <3>1, <3>2, <1>1, <1>2, CutKeeps
    <3> QED
      BY <3>3 DEF p
  <2> QED
    BY <2>1, <1>1, <1>3 DEF NonePassed, Shorten, Above
<1>6. TypeOK'
  BY <1>4 DEF Shorten, TypeOK
<1> QED
  BY <1>5, <1>6 DEF Shorten, RootFirst, DeepestMount, Blocks

\* A node is handed out, or none is; either ends the call.
LEMMA GiveInv ==
  ASSUME IInv, pc = "open", UNCHANGED mount_points,
         (\E c \in Callbacks : Give(c)) \/ GiveNothing
  PROVE  IInv'
<1> USE DEF IInv
<1>1. /\ path' = <<>> /\ mount_path' = <<>> /\ mnt_i' = 0 /\ pc' = "idle"
  BY DEF Give, GiveNothing, Return
<1>2. /\ handles \in [Callbacks -> Nat] /\ handles["NULL"] \in Nat
      /\ handles["garbage"] \in Nat /\ "NULL" \in Callbacks /\ "garbage" \in Callbacks
  BY DEF TypeOK, Callbacks
<1>3. live = handles["NULL"] + handles["garbage"] + 1
  BY DEF Blocks
<1>4. /\ handles' \in [Callbacks -> Nat]
      /\ live' = handles'["NULL"] + handles'["garbage"]
  <2>1. CASE Give("NULL")
    BY <2>1, <1>2, <1>3 DEF Give
  <2>2. CASE Give("garbage")
    BY <2>2, <1>2, <1>3 DEF Give
  <2>3. CASE GiveNothing
    BY <2>3, <1>2, <1>3 DEF GiveNothing, NodeFreed
  <2> QED
    BY <2>1, <2>2, <2>3 DEF Callbacks
<1>5. live' \in Nat
  BY <1>2, <1>4
<1>6. IsPrefix(mount_path', path')
  BY <1>1 DEF IsPrefix
<1>7. TypeOK'
  <2>1. Len(mount_points) \in Nat
    BY DEF TypeOK
  <2>2. mnt_i' \in 0 .. Len(mount_points')
    BY <2>1, <1>1
  <2> QED
    BY <2>2, <1>1, <1>4, <1>5, <1>6 DEF TypeOK
<1>8. Blocks'
  BY <1>1, <1>4, <1>5, <1>2, <1>7 DEF Blocks, TypeOK, Callbacks
<1> QED
  BY <1>1, <1>7, <1>8 DEF RootFirst, NonePassed, DeepestMount

LEMMA OpenInv == IInv /\ (OpenRoot \/ OpenFat \/ OpenDevice) => IInv'
<1> SUFFICES ASSUME IInv, OpenRoot \/ OpenFat \/ OpenDevice PROVE IInv'
  OBVIOUS
<1> USE DEF IInv
<1>1. pc = "open" /\ UNCHANGED mount_points
  BY DEF OpenRoot, OpenFat, OpenDevice
<1>2. CASE OpenRoot
  <2>1. mnt_i \in DOMAIN mount_points
    BY <1>1 DEF DeepestMount, Above
  <2>2. mount_points[mnt_i].close \in Callbacks
    BY <2>1, MountFacts
  <2> QED
    BY <1>1, <1>2, <2>2, GiveInv DEF OpenRoot
<1>3. CASE OpenFat
  <2>1. CASE Give("NULL") \/ GiveNothing
    BY <2>1, <1>1, GiveInv DEF Callbacks
  <2>2. CASE pc' = "fault" /\ UNCHANGED <<handles, live, path, mount_path, mnt_i>>
    <3>1. TypeOK' /\ RootFirst'
      BY <1>1, <2>2 DEF TypeOK, RootFirst
    <3> QED
      BY <1>1, <2>2, <3>1 DEF NonePassed, DeepestMount, Blocks
  <2> QED
    BY <1>3, <2>1, <2>2 DEF OpenFat
<1>4. CASE OpenDevice
  BY <1>1, <1>4, GiveInv DEF OpenDevice, Callbacks
<1> QED
  BY <1>2, <1>3, <1>4

LEMMA FcloseInv == IInv /\ (Fclose \/ FcloseWild) => IInv'
<1> SUFFICES ASSUME IInv, Fclose \/ FcloseWild PROVE IInv'
  OBVIOUS
<1> USE DEF IInv
<1>1. /\ handles \in [Callbacks -> Nat] /\ handles["NULL"] \in Nat
      /\ handles["garbage"] \in Nat /\ "NULL" \in Callbacks /\ "garbage" \in Callbacks
      /\ pc = "idle" /\ live = handles["NULL"] + handles["garbage"]
  BY DEF TypeOK, Callbacks, Blocks, Fclose, FcloseWild
<1>2. CASE Fclose
  <2>1. /\ handles' \in [Callbacks -> Nat] /\ handles'["NULL"] = handles["NULL"] - 1
        /\ handles'["garbage"] = handles["garbage"] /\ handles["NULL"] > 0
        /\ live' = live - 1
    BY <1>1, <1>2 DEF Fclose, NodeFreed
  <2>2. live' \in Nat /\ live' = handles'["NULL"] + handles'["garbage"]
    BY <1>1, <2>1
  <2>3. TypeOK' /\ RootFirst'
    BY <1>2, <2>1, <2>2 DEF Fclose, TypeOK, RootFirst
  <2>4. Blocks'
    BY <1>1, <1>2, <2>1, <2>2 DEF Fclose, Blocks
  <2> QED
    BY <1>1, <1>2, <2>3, <2>4 DEF Fclose, NonePassed, DeepestMount
<1>3. CASE FcloseWild
  <2>1. TypeOK' /\ RootFirst'
    BY <1>3 DEF FcloseWild, TypeOK, RootFirst
  <2> QED
    BY <1>1, <1>3, <2>1 DEF FcloseWild, NonePassed, DeepestMount, Blocks
<1> QED
  BY <1>2, <1>3

LEMMA StepInv == IInv /\ [Next]_vars => IInv'
<1> SUFFICES ASSUME IInv, [Next]_vars PROVE IInv'
  OBVIOUS
<1>1. ASSUME NEW p \in MountPaths, NEW type \in {0, 1}, NEW close \in Callbacks,
             Mount(p, type, close)
      PROVE  IInv'
  BY <1>1, MountInv
<1>2. CASE Boot
  BY <1>2, BootInv
<1>3. ASSUME NEW p \in Paths, Fopen(p) PROVE IInv'
  BY <1>3, FopenInv
<1>4. CASE FindMount
  BY <1>4, FindMountInv
<1>5. CASE Shorten
  BY <1>5, ShortenInv
<1>6. CASE OpenRoot \/ OpenFat \/ OpenDevice
  BY <1>6, OpenInv
<1>7. CASE Fclose \/ FcloseWild
  BY <1>7, FcloseInv
<1>8. CASE UNCHANGED vars
  BY <1>8 DEF vars, IInv, TypeOK, RootFirst, NonePassed, DeepestMount, Blocks, Above
<1> QED
  BY <1>1, <1>2, <1>3, <1>4, <1>5, <1>6, <1>7, <1>8 DEF Next, Step

LEMMA Invariance == Spec => []IInv
<1>1. IInv /\ [Next]_vars => IInv'
  BY StepInv
<1> QED
  BY <1>1, InitInv, PTL DEF Spec

-----------------------------------------------------------------------------
(* The theorems *)

\* The variables of vfs.c keep their types; the copy of the path that the search
\* cuts stays a prefix of the path.
THEOREM TypeCorrect == Spec => []TypeOK
<1>1. IInv => TypeOK
  BY DEF IInv
<1> QED
  BY <1>1, Invariance, PTL

\* _find_relative_mount returns the deepest mount point above the path, for every
\* mount table with the root in front, nested and shadowed mounts included.
THEOREM DeepestMountIsUsed == Spec => []DeepestMount
<1>1. IInv => DeepestMount
  BY DEF IInv
<1> QED
  BY <1>1, Invariance, PTL

\* Between calls of fopen and fclose one block is allocated per open node.
THEOREM NoBlockIsLost == Spec => []BlocksAreHandles
<1>1. IInv => BlocksAreHandles
  BY DEF IInv, Blocks, BlocksAreHandles, TypeOK, Callbacks
<1> QED
  BY <1>1, Invariance, PTL

-----------------------------------------------------------------------------
(* Every fopen moves on *)

\* A bound on the rounds that are left of a call: one for each character of the
\* path that is not cut off yet, and one for the mount's own find_dir.
RoundsLeft ==
  CASE pc = "find" -> Len(mount_path) + 1
    [] pc = "open" -> 1
    [] OTHER       -> 0

\* strdeltoc shortens every path that has a slash in front of its last character.
LEMMA CutShortens ==
  ASSUME NEW s \in Seq(Chars), Len(s) > 1, s[1] = Slash
  PROVE  Len(strdeltoc(s)) < Len(s) /\ Len(strdeltoc(s)) \in Nat
<1> DEFINE slashes == {n \in CutAt(s) : s[n] = Slash}
           c == CHOOSE n \in slashes : \A m \in slashes : m <= n
<1>1. Len(s) \in Nat /\ slashes \subseteq 1 .. Len(s) /\ slashes \subseteq 1 .. Len(s) - 1
  BY DEF CutAt
<1>2. slashes # {}
  <2>1. 1 \in slashes
    BY <1>1 DEF CutAt
  <2> QED
    BY <2>1
<1>3. c \in slashes
  BY <1>1, <1>2, Greatest
<1>4. strdeltoc(s) = SubSeq(s, 1, c)
  BY <1>2 DEF strdeltoc
<1>5. c \in 0 .. Len(s) /\ c \in Nat /\ c < Len(s)
  BY <1>1, <1>3
<1> HIDE DEF c
<1>6. Len(strdeltoc(s)) = c
  BY <1>4, <1>5, Beginning
<1> QED
  BY <1>5, <1>6

LEMMA StepShortens ==
  ASSUME IInv, Step
  PROVE  RoundsLeft' < RoundsLeft
<1>1. CASE Shorten
  <2>1. /\ pc = "find" /\ pc' = "find" /\ mount_path # <<Slash>>
        /\ mount_path' = strdeltoc(mount_path)
    BY <1>1 DEF Shorten
  <2>2. /\ mount_path \in Seq(Chars) /\ path \in Seq(Chars) /\ path # <<>> /\ path[1] = Slash
        /\ \A n \in Above(path) : IsPrefix(mount_points[n].path, mount_path)
    BY <2>1 DEF IInv, NonePassed
  <2>3. 1 \in Above(path) /\ mount_points[1].path = <<Slash>>
    BY <2>1, <2>2, RootAbove DEF IInv
  <2>4. IsPrefix(<<Slash>>, mount_path) /\ <<Slash>> \in Seq(Chars)
    <3>1. 1 \in DOMAIN mount_points
      BY <2>3 DEF Above
    <3> QED
      BY <2>2, <2>3, <3>1, MountFacts DEF IInv
  <2>5. Len(<<Slash>>) = 1 /\ <<Slash>>[1] = Slash
    OBVIOUS
  <2>6. 1 <= Len(mount_path) /\ mount_path[1] = Slash
    BY <2>2, <2>4, <2>5, PrefixIff
  <2>7. Len(mount_path) # 1
    BY <2>1, <2>2, <2>4, <2>5, WholePrefix
  <2>8. Len(mount_path) \in Nat /\ Len(mount_path) > 1
    BY <2>2, <2>6, <2>7
  <2>9. Len(mount_path') < Len(mount_path) /\ Len(mount_path') \in Nat
    BY <2>1, <2>2, <2>6, <2>8, CutShortens
  <2> QED
    BY <2>1, <2>8, <2>9 DEF RoundsLeft
<1>2. CASE FindMount
  <2>1. pc = "find" /\ pc' = "open"
    BY <1>2 DEF FindMount
  <2>2. mount_path \in Seq(Chars) /\ mount_path # <<>>
    <3>1. CASE mount_path = <<Slash>>
      BY <2>1, <3>1 DEF IInv, NonePassed
    <3>2. CASE Hits # {}
      <4>1. PICK n \in DOMAIN mount_points : mount_points[n].path = mount_path
        BY <3>2 DEF Hits
      <4> QED
        BY <4>1, MountFacts DEF IInv
    <3> QED
      BY <1>2, <3>1, <3>2 DEF FindMount
  <2>3. Len(mount_path) \in Nat /\ Len(mount_path) > 0
    BY <2>2
  <2> QED
    BY <2>1, <2>3 DEF RoundsLeft
<1>3. CASE OpenRoot \/ OpenFat \/ OpenDevice
  <2>1. pc = "open" /\ pc' \in {"idle", "fault"}
    BY <1>3 DEF OpenRoot, OpenFat, OpenDevice, Give, GiveNothing, Return
  <2> QED
    BY <2>1 DEF RoundsLeft
<1> QED
  BY <1>1, <1>2, <1>3 DEF Step

LEMMA RoundsCounted ==
  ASSUME IInv
  PROVE  RoundsLeft \in Nat
<1>1. pc = "find" => Len(mount_path) \in Nat
  BY DEF IInv, NonePassed
<1> QED
  BY <1>1 DEF RoundsLeft

\* _find_relative_mount never tries a path twice: each step of a fopen lowers a
\* bound that is one above the length of the path at the start, since a cut
\* always finds the slash that an absolute path begins with (vfs.c:146-157).
\* What SearchEnds adds is that the steps are taken.
THEOREM SearchShortens ==
  Spec => [](RoundsLeft \in Nat) /\ [][Step => RoundsLeft' < RoundsLeft]_vars
<1>1. IInv => RoundsLeft \in Nat
  BY RoundsCounted
<1>2. IInv /\ [Next]_vars => [Step => RoundsLeft' < RoundsLeft]_vars
  BY StepShortens
<1> QED
  BY <1>1, <1>2, Invariance, PTL DEF Spec

-----------------------------------------------------------------------------
(* The nodes of Syscalls.tla *)

\* The device table stays as the boot leaves it.
Table ==
  /\ behind \in Junk
  /\ \E tail \in Tails :
       m_devices = <<ata_device, term_device(tail), devfs_device, kb_device>>

\* A device's node, and a file's: no callback of theirs is unset, and none is
\* there that a directory has.
IsLeaf(node) ==
  /\ {node.read, node.write, node.open, node.close} \subseteq
       {"NULL", "fat_file_read", "ata_read_callback", "keyboard_read_callback", "term_write_callback"}
  /\ node.open = "NULL" /\ node.read_dir = "NULL" /\ node.find_dir = "NULL"
  /\ node.flag \in {"FILE", "BLOCK_DEV", "CHAR_DEV"}

LEMMA Leaves ==
  ASSUME Table
  PROVE  /\ Len(m_devices) = 4 /\ DOMAIN m_devices = 1 .. 4
         /\ \A n \in 1 .. 4 :
              /\ IsLeaf(m_devices[n])
              /\ m_devices[n].name \in Seq(Letters) /\ Len(m_devices[n].name) <= DirentMax
         /\ IsLeaf(fat_file)
<1>1. PICK tail \in Tails : m_devices = <<ata_device, term_device(tail), devfs_device, kb_device>>
  BY DEF Table
<1>2. /\ tail \in Seq(Letters) /\ Len(Video) + Len(tail) <= DirentMax
      /\ \A n \in 1 .. 4 : TableNames[n] \in Seq(Letters) /\ Len(TableNames[n]) <= DirentMax
  <2>1. /\ NameMax \in Nat /\ DirentMax \in Nat /\ NameMax + 2 <= DirentMax
        /\ Junk \subseteq Seq(Letters)
        /\ \A n \in 1 .. 4 : TableNames[n] \in Seq(Letters) /\ Len(TableNames[n]) < NameMax
    BY NamesAssumption
  <2>2. tail \in Seq(Letters) /\ Len(Video) + Len(tail) <= NameMax + 2
    BY <2>1 DEF Tails
  <2>3. TableNames[2] = Video
    BY DEF TableNames
  <2>4. Len(Video) \in Nat /\ Len(tail) \in Nat
    BY <2>1, <2>2, <2>3
  <2>5. Len(Video) + Len(tail) <= DirentMax
    BY <2>1, <2>2, <2>4
  <2>6. ASSUME NEW n \in 1 .. 4
        PROVE  Len(TableNames[n]) <= DirentMax
    <3>1. Len(TableNames[n]) \in Nat /\ Len(TableNames[n]) < NameMax
      BY <2>1
    <3> QED
      BY <2>1, <3>1
  <2> QED
    BY <2>1, <2>2, <2>5, <2>6
<1>3. /\ TableNames[1] = Ata /\ TableNames[2] = Video /\ TableNames[3] = Devman /\ TableNames[4] = Kb
  BY DEF TableNames
<1>4. IsLeaf(ata_device) /\ IsLeaf(term_device(tail)) /\ IsLeaf(devfs_device) /\ IsLeaf(kb_device)
      /\ IsLeaf(fat_file)
  BY DEF IsLeaf, ata_device, term_device, devfs_device, kb_device, fat_file, vfs_node_new
<1>5. /\ ata_device.name = Ata /\ term_device(tail).name = Video \o tail
      /\ devfs_device.name = Devman /\ kb_device.name = Kb
  BY DEF ata_device, term_device, devfs_device, kb_device, vfs_node_new
<1>7. Video \o tail \in Seq(Letters) /\ Len(Video \o tail) = Len(Video) + Len(tail)
  BY <1>2, <1>3, ConcatProperties
<1> HIDE DEF TableNames
<1>8. Len(m_devices) = 4 /\ DOMAIN m_devices = 1 .. 4
  BY <1>1
<1>9. ASSUME NEW n \in 1 .. 4
      PROVE  /\ IsLeaf(m_devices[n])
             /\ m_devices[n].name \in Seq(Letters) /\ Len(m_devices[n].name) <= DirentMax
  <2>1. CASE n = 1
    BY <2>1, <1>1, <1>2, <1>3, <1>4, <1>5
  <2>2. CASE n = 2
    <3>1. m_devices[n] = term_device(tail) /\ m_devices[n].name = Video \o tail
      BY <2>2, <1>1, <1>5
    <3> QED
      BY <3>1, <1>2, <1>4, <1>7
  <2>3. CASE n = 3
    BY <2>3, <1>1, <1>2, <1>3, <1>4, <1>5
  <2>4. CASE n = 4
    BY <2>4, <1>1, <1>2, <1>3, <1>4, <1>5
  <2>5. n = 1 \/ n = 2 \/ n = 3 \/ n = 4
    OBVIOUS
  <2> QED
    BY <2>1, <2>2, <2>3, <2>4, <2>5, Zenon
<1> QED
  BY <1>4, <1>8, <1>9

-----------------------------------------------------------------------------
(* What a dirent shows *)

LEMMA TextIs ==
  ASSUME NEW b \in [1 .. DirentMax -> Letters \cup {Nul}]
  PROVE  /\ Text(b) \in Seq(Letters) /\ Len(Text(b)) \in 0 .. DirentMax
         /\ \A m \in 1 .. Len(Text(b)) : b[m] # Nul /\ Text(b)[m] = b[m]
         /\ Len(Text(b)) < DirentMax => b[Len(Text(b)) + 1] = Nul
<1> DEFINE ends == {n \in 0 .. DirentMax : n = DirentMax \/ b[n + 1] = Nul}
           len  == strlen(b)
<1>1. DirentMax \in Nat /\ Nul \notin Letters
  BY NamesAssumption
<1>2. ends \subseteq Nat /\ ends # {}
  <2>1. DirentMax \in ends
    BY <1>1
  <2>2. \A n \in 0 .. DirentMax : n \in Nat
    OBVIOUS
  <2> QED
    BY <2>1, <2>2, Zenon
<1>3. PICK e \in ends : \A n \in ends : e <= n
  BY <1>2, Least
<1>4. \A m \in 1 .. e : b[m] # Nul
  <2> SUFFICES ASSUME NEW m \in 1 .. e, b[m] = Nul PROVE FALSE
    OBVIOUS
  <2>1. m - 1 \in ends /\ m - 1 < e
    BY <1>1, <1>3
  <2> QED
    BY <2>1, <1>3
<1>5. /\ len \in 0 .. DirentMax /\ \A m \in 1 .. len : b[m] # Nul
      /\ len < DirentMax => b[len + 1] = Nul
  <2>1. e \in 0 .. DirentMax /\ (e < DirentMax => b[e + 1] = Nul)
    BY <1>1, <1>3
  <2> QED
    BY <2>1, <1>4 DEF strlen
<1>6. Text(b) = SubSeq(b, 1, len)
  BY DEF Text
<1> HIDE DEF len
<1>7. \A m \in 1 .. len : b[m] \in Letters
  BY <1>1, <1>5
<1>8. b \in Seq(Letters \cup {Nul}) /\ Len(b) = DirentMax
  BY <1>1, IsASeq
<1>9. Len(Text(b)) = len /\ \A m \in 1 .. len : Text(b)[m] = b[m]
  BY <1>5, <1>6, <1>8, Beginning
<1>10. Text(b) \in Seq(Letters)
  <2>1. Text(b) \in Seq(Letters \cup {Nul}) /\ \A m \in 1 .. Len(Text(b)) : Text(b)[m] \in Letters
    BY <1>5, <1>6, <1>7, <1>8, <1>9, Beginning
  <2> QED
    BY <2>1
<1> QED
  BY <1>5, <1>9, <1>10

LEMMA CopiedIs ==
  ASSUME dirent \in [1 .. DirentMax -> Letters \cup {Nul}],
         NEW name \in Seq(Letters), Len(name) <= DirentMax
  PROVE  /\ Copied(name) \in [1 .. DirentMax -> Letters \cup {Nul}]
         /\ Text(Copied(name)) \in Seq(Letters)
         /\ SubSeq(Text(Copied(name)), 1, Len(name)) = name
<1> DEFINE c == Copied(name)
           l == Len(name)
           q == Text(c)
<1>1. DirentMax \in Nat /\ Nul \notin Letters /\ l \in Nat /\ l <= DirentMax
  BY NamesAssumption
<1>2. \A n \in 1 .. l : name[n] \in Letters /\ name[n] # Nul
  BY <1>1
<1>3. \A n \in 1 .. DirentMax : c[n] = IF n <= l THEN name[n] ELSE dirent[n]
  BY DEF Copied
<1>4. c \in [1 .. DirentMax -> Letters \cup {Nul}]
  <2>1. \A n \in 1 .. DirentMax : (IF n <= l THEN name[n] ELSE dirent[n]) \in Letters \cup {Nul}
    BY <1>1, <1>2
  <2> QED
    BY <2>1 DEF Copied
<1> HIDE DEF c
<1>5. /\ q \in Seq(Letters) /\ Len(q) \in 0 .. DirentMax
      /\ \A m \in 1 .. Len(q) : c[m] # Nul /\ q[m] = c[m]
      /\ Len(q) < DirentMax => c[Len(q) + 1] = Nul
  BY <1>4, TextIs
<1> HIDE DEF q
<1>6. ~(Len(q) < l)
  <2> SUFFICES ASSUME Len(q) < l PROVE FALSE
    OBVIOUS
  <2>1. Len(q) + 1 \in 1 .. l /\ Len(q) + 1 \in 1 .. DirentMax
    BY <1>1, <1>5
  <2> QED
    BY <1>1, <1>2, <1>3, <1>5, <2>1
<1>7. l \in 0 .. Len(q)
  BY <1>1, <1>5, <1>6
<1>8. /\ SubSeq(q, 1, l) \in Seq(Letters) /\ Len(SubSeq(q, 1, l)) = l
      /\ \A m \in 1 .. l : SubSeq(q, 1, l)[m] = q[m]
  BY <1>5, <1>7, Beginning
<1>9. \A m \in 1 .. l : SubSeq(q, 1, l)[m] = name[m]
  <2> TAKE m \in 1 .. l
  <2>1. m \in 1 .. Len(q) /\ m \in 1 .. DirentMax /\ m <= l
    BY <1>1, <1>5, <1>7
  <2> QED
    BY <1>3, <1>5, <1>8, <2>1
<1>10. SubSeq(q, 1, l) = name
  BY <1>8, <1>9, SeqEqual
<1> QED
  BY <1>4, <1>5, <1>10 DEF c, q

-----------------------------------------------------------------------------
(* The callbacks that are called *)

\* Copies of roots, of devices and of a file's node are all that a program holds,
\* until it has called finddir.
Kept(node) == node = Closed \/ node \in Roots \/ IsLeaf(node)
KeptWhenCareful == careful => \A h \in Handles : Kept(nodes[h])

CallsInv == SyscallTypeOK /\ Table /\ CarefulNeverWild /\ KeptWhenCareful /\ ListsDevices

LEMMA RootsAre ==
  /\ \A node \in Roots : /\ node.flag = "FILESYSTEM"
                         /\ node.read_dir \in {"fat_read_dir", "devfs_read_dir"}
                         /\ node.find_dir \in {"fat_find_dir", "devfs_find_dir"}
                         /\ node.open = "unset" /\ node # Closed
  /\ Closed.flag = "CLOSED"
BY DEF Roots, fat_root, devfs_root, Closed, malloced, Unset

\* What the listing has shown is about the table, the dirent and itself alone.
LEMMA ListingStays ==
  ASSUME CallsInv, UNCHANGED <<m_devices, behind, dirent, shown, listings>>,
         state' = "running" => state = "running"
  PROVE  ListsDevices'
<1>1. ListsDevices
  BY DEF CallsInv
<1>2. LastNameStays'
  BY <1>1 DEF ListsDevices, LastNameStays, Name, devices_number
<1> QED
  BY <1>1, <1>2 DEF ListsDevices, Text, strlen, devices_number

LEMMA SyscallInitInv == SyscallInit => CallsInv
<1> SUFFICES ASSUME SyscallInit PROVE CallsInv
  OBVIOUS
<1>1. Table
  BY DEF SyscallInit, Table
<1>2. SyscallTypeOK
  <2>1. dirent \in [1 .. DirentMax -> Letters \cup {Nul}]
    BY NamesAssumption DEF SyscallInit
  <2>2. shown \in Seq(Seq(Letters)) /\ Len(shown) <= devices_number + 1
    BY <1>1, Leaves, EmptySeq DEF SyscallInit, devices_number
  <2>3. listings \in 0 .. MaxListings
    BY NamesAssumption DEF SyscallInit
  <2> QED
    BY <2>1, <2>2, <2>3 DEF SyscallInit, SyscallTypeOK
<1>3. ListsDevices
  BY EmptySeq DEF SyscallInit, ListsDevices, LastNameStays
<1>4. CarefulNeverWild /\ KeptWhenCareful
  BY DEF SyscallInit, CarefulNeverWild, KeptWhenCareful, Kept
<1> QED
  BY <1>1, <1>2, <1>3, <1>4 DEF CallsInv

\* A node that opens without a callback.
LEMMA Opens ==
  ASSUME SyscallTypeOK, Table, NEW h \in Handles, NEW node, vopen(h, node),
         node \in {fat_file, malloced} \cup {m_devices[n] : n \in DOMAIN m_devices}
  PROVE  /\ \/ state' = "wild" /\ nodes' = nodes
            \/ state' = state /\ nodes' = [nodes EXCEPT ![h] = node]
         /\ IsLeaf(node) => state' = state
<1>1. CASE node.open = "NULL"
  BY <1>1 DEF vopen, Callback, Unset
<1>2. CASE node.open # "NULL"
  <2>1. ~IsLeaf(node)
    BY <1>2 DEF IsLeaf
  <2> QED
    BY <2>1 DEF vopen
<1> QED
  BY <1>1, <1>2

\* What the calls return, and whom they call.
LEMMA Dispatches ==
  ASSUME NEW c, NEW hs, Dispatch(c, hs)
  PROVE  \/ c \in {"unset", "wild"} /\ state' = "wild" /\ UNCHANGED <<nodes, retval>>
         \/ retval' \in {-1, 0, 1, 64, AnyResult} /\ nodes' = hs /\ UNCHANGED state
<1>1. \A to : Returns(to) \subseteq {-1, 0, 1, 64, AnyResult}
  <2> TAKE to
  <2>1. CASE to = "NULL"
    BY <2>1 DEF Returns
  <2>2. CASE to = "fat_file_read"
    BY <2>2 DEF Returns
  <2>3. CASE to = "keyboard_read_callback"
    BY <2>3 DEF Returns
  <2>4. CASE to \notin {"NULL", "fat_file_read", "keyboard_read_callback"}
    BY <2>4 DEF Returns
  <2> QED
    BY <2>1, <2>2, <2>3, <2>4
<1>2. PICK to \in Callback(c) :
        IF to = "wild" THEN state' = "wild" /\ UNCHANGED <<nodes, retval>>
        ELSE retval' \in Returns(to) /\ nodes' = hs /\ UNCHANGED state
  BY DEF Dispatch
<1>3. to = "wild" => c = "unset" \/ c = "wild"
  BY DEF Callback, Unset
<1> QED
  BY <1>1, <1>2, <1>3

\* What a program holds may be read, written, closed and listed.
LEMMA KeptCallbacks ==
  ASSUME NEW node, IsLeaf(node)
  PROVE  /\ node.read \notin {"unset", "wild"} /\ node.write \notin {"unset", "wild"}
         /\ node.close \notin {"unset", "wild"}
  BY DEF IsLeaf

\* A call that changes nothing of the listing and little of the nodes.
LEMMA CallStep ==
  ASSUME CallsInv, state = "running", UNCHANGED <<m_devices, behind, listing>>,
         state' \in {"running", "wild", "fault"},
         retval' \in {-1, 0, 1, 64, AnyResult}, careful' \in BOOLEAN, careful' => careful,
         \/ nodes' = nodes
         \/ \E h \in Handles :
              \E node \in {Closed, fat_file, malloced} \cup Roots \cup {m_devices[n] : n \in DOMAIN m_devices} :
                nodes' = [nodes EXCEPT ![h] = node] /\ (careful' => Kept(node)),
         careful' /\ Len(behind) <= DirentMax => state' # "wild"
  PROVE  CallsInv'
<1>1. Table'
  <2>1. PICK tail \in Tails : m_devices = <<ata_device, term_device(tail), devfs_device, kb_device>>
    BY DEF CallsInv, Table
  <2>2. behind' \in Junk /\ m_devices' = <<ata_device, term_device(tail), devfs_device, kb_device>>
    BY <2>1 DEF CallsInv, Table
  <2> QED
    BY <2>2, Zenon DEF Table, ata_device, term_device, devfs_device, kb_device, vfs_node_new
<1>2. SyscallTypeOK'
  <2>1. /\ nodes' \in [Handles -> {Closed, fat_file, malloced} \cup Roots
                                  \cup {m_devices[n] : n \in DOMAIN m_devices}]
    BY DEF CallsInv, SyscallTypeOK
  <2>2. /\ handle' \in {Closed, devfs_root}
        /\ dirent' \in [1 .. DirentMax -> Letters \cup {Nul}]
        /\ shown' \in Seq(Seq(Letters)) /\ Len(shown') <= devices_number' + 1
        /\ listings' \in 0 .. MaxListings
    BY DEF CallsInv, SyscallTypeOK, listing, devices_number
  <2> QED
    BY <2>1, <2>2 DEF SyscallTypeOK, devices_number
<1>3. ListsDevices'
  BY ListingStays DEF listing
<1>4. KeptWhenCareful'
  BY DEF CallsInv, KeptWhenCareful, SyscallTypeOK
<1> QED
  BY <1>1, <1>2, <1>3, <1>4 DEF CallsInv, CarefulNeverWild

LEMMA OpenStep ==
  ASSUME CallsInv, NEW h \in Handles, NEW p \in OpenPaths, sc_open(h, p)
  PROVE  CallsInv'
<1>1. /\ state = "running" /\ UNCHANGED <<m_devices, behind, careful, listing>>
      /\ DOMAIN m_devices = 1 .. 4 /\ \A n \in 1 .. 4 : IsLeaf(m_devices[n])
      /\ IsLeaf(fat_file) /\ careful \in BOOLEAN /\ retval \in {-1, 0, 1, 64, AnyResult}
  BY Leaves DEF sc_open, CallsInv, SyscallTypeOK
<1>2. ASSUME NEW node \in Opened(p), retval' = 1,
             IF node \in Roots THEN nodes' = [nodes EXCEPT ![h] = node] /\ UNCHANGED state
             ELSE vopen(h, node)
      PROVE  CallsInv'
  <2>1. CASE node \in Roots
    BY <1>1, <1>2, <2>1, CallStep DEF Kept
  <2>2. CASE node \notin Roots
    <3>1. node \in {fat_file} \cup {m_devices[n] : n \in DOMAIN m_devices}
      BY <2>2 DEF Opened, Roots, devfs_find_dir, Named
    <3>2. IsLeaf(node)
      BY <1>1, <3>1
    <3>3. state' = state /\ (nodes' = nodes \/ nodes' = [nodes EXCEPT ![h] = node])
      BY <1>2, <2>2, <3>1, <3>2, Opens DEF CallsInv
    <3> QED
      BY <1>1, <1>2, <3>1, <3>2, <3>3, CallStep DEF Kept
  <2> QED
    BY <2>1, <2>2
<1>3. CASE retval' = 0 /\ UNCHANGED <<nodes, state>>
  BY <1>1, <1>3, CallStep
<1>4. CASE state' = "fault" /\ UNCHANGED <<nodes, retval>>
  BY <1>1, <1>4, CallStep
<1> QED
  BY <1>2, <1>3, <1>4 DEF sc_open

\* Close, read and write.
LEMMA DispatchStep ==
  ASSUME CallsInv, NEW h \in Handles, NEW c, NEW hs, IsOpen(h), Takes(h), Dispatch(c, hs),
         UNCHANGED <<m_devices, behind, listing>>, hs \in {nodes, NodeGone(h)},
         IsLeaf(nodes[h]) => c \notin {"unset", "wild"}
  PROVE  CallsInv'
<1>1. /\ state = "running" /\ nodes[h] # Closed /\ careful \in BOOLEAN
      /\ retval \in {-1, 0, 1, 64, AnyResult}
  BY DEF IsOpen, CallsInv, SyscallTypeOK
<1>2. careful' \in BOOLEAN /\ (careful' => careful /\ nodes[h] \notin Roots)
  BY <1>1 DEF Takes
<1>3. careful' => IsLeaf(nodes[h])
  BY <1>1, <1>2 DEF CallsInv, KeptWhenCareful, Kept
<1>4. hs = nodes \/ hs = [nodes EXCEPT ![h] = Closed]
  BY DEF NodeGone
<1>5. Kept(Closed)
  BY DEF Kept
<1>6. \/ c \in {"unset", "wild"} /\ state' = "wild" /\ UNCHANGED <<nodes, retval>>
      \/ retval' \in {-1, 0, 1, 64, AnyResult} /\ nodes' = hs /\ UNCHANGED state
  BY Dispatches
<1>7. CASE c \in {"unset", "wild"} /\ state' = "wild" /\ UNCHANGED <<nodes, retval>>
  BY <1>1, <1>2, <1>3, <1>7, CallStep
<1>8. CASE retval' \in {-1, 0, 1, 64, AnyResult} /\ nodes' = hs /\ UNCHANGED state
  BY <1>1, <1>2, <1>4, <1>5, <1>8, CallStep
<1> QED
  BY <1>6, <1>7, <1>8

LEMMA Four == ASSUME CallsInv PROVE devices_number = 4
BY Leaves DEF CallsInv, devices_number

\* Only the name behind the table can be longer than a dirent.
LEMMA OverrunIs ==
  ASSUME CallsInv, NEW index \in Nat, Overruns(index)
  PROVE  Len(behind) > DirentMax
<1>1. Len(Name(index)) > DirentMax
  BY DEF Overruns
<1>2. CASE index < 4
  <2>1. index + 1 \in 1 .. 4 /\ Name(index) = m_devices[index + 1].name
    BY <1>2, Four DEF Name
  <2>2. Len(m_devices[index + 1].name) <= DirentMax /\ m_devices[index + 1].name \in Seq(Letters)
    BY <2>1, Leaves DEF CallsInv
  <2> QED
    BY <1>1, <2>1, <2>2, NamesAssumption
<1>3. CASE ~(index < 4)
  BY <1>1, <1>3, Four DEF Name
<1> QED
  BY <1>2, <1>3

LEMMA ReaddirStep ==
  ASSUME CallsInv, NEW h \in Handles, NEW index \in Nat, sc_readdir(h, index)
  PROVE  CallsInv'
<1>1. /\ state = "running" /\ nodes[h] # Closed /\ careful \in BOOLEAN
      /\ retval \in {-1, 0, 1, 64, AnyResult}
      /\ UNCHANGED <<m_devices, behind, nodes, careful, listing>>
  BY DEF sc_readdir, IsOpen, CallsInv, SyscallTypeOK
<1>2. PICK listable \in Listable(nodes[h]), to \in Callback(nodes[h].read_dir) :
        CASE ~listable \/ to = "NULL" -> retval' = -1 /\ UNCHANGED state
          [] listable /\ (to = "wild" \/ (to = "devfs_read_dir" /\ Overruns(index))) ->
               state' = "wild" /\ UNCHANGED retval
          [] listable /\ to = "devfs_read_dir" /\ ~Overruns(index) ->
               retval' = (IF BeyondLast(index) THEN 1 ELSE 0) /\ UNCHANGED state
          [] listable /\ to = "fat_read_dir" -> retval' \in {0, 1} /\ UNCHANGED state
  BY DEF sc_readdir
<1>3. careful => to # "wild"
  <2> SUFFICES ASSUME careful PROVE to # "wild"
    OBVIOUS
  <2>1. nodes[h] \in Roots \/ IsLeaf(nodes[h])
    BY <1>1 DEF CallsInv, KeptWhenCareful, Kept
  <2>2. nodes[h].read_dir \in {"NULL", "fat_read_dir", "devfs_read_dir"}
    BY <2>1, RootsAre DEF IsLeaf
  <2> QED
    BY <1>2, <2>2 DEF Callback, Unset
<1>4. to \in {"NULL", "wild", "fat_read_dir", "devfs_read_dir"}
  <2>1. nodes[h] \in {fat_file, malloced} \cup Roots \cup {m_devices[n] : n \in DOMAIN m_devices}
    BY <1>1 DEF CallsInv, SyscallTypeOK
  <2>2. \A n \in DOMAIN m_devices : IsLeaf(m_devices[n])
    BY Leaves DEF CallsInv
  <2>3. IsLeaf(fat_file) /\ malloced.read_dir = "unset"
    BY Leaves DEF CallsInv, malloced, Unset
  <2>4. nodes[h].read_dir \in {"NULL", "unset", "fat_read_dir", "devfs_read_dir"}
    BY <2>1, <2>2, <2>3, RootsAre DEF IsLeaf
  <2> QED
    BY <1>2, <2>4 DEF Callback, Unset
<1>5. /\ state' \in {"running", "wild"} /\ retval' \in {-1, 0, 1, 64, AnyResult}
      /\ state' = "wild" => to = "wild" \/ Overruns(index)
  <2>1. CASE ~listable \/ to = "NULL"
    BY <1>1, <1>2, <2>1
  <2>2. CASE listable /\ (to = "wild" \/ (to = "devfs_read_dir" /\ Overruns(index)))
    BY <1>1, <1>2, <2>2
  <2>3. CASE listable /\ to = "devfs_read_dir" /\ ~Overruns(index)
    BY <1>1, <1>2, <2>3
  <2>4. CASE listable /\ to = "fat_read_dir"
    BY <1>1, <1>2, <2>4
  <2> QED
    BY <1>2, <1>4, <2>1, <2>2, <2>3, <2>4
<1>6. Len(behind) <= DirentMax => ~Overruns(index)
  <2> SUFFICES ASSUME Overruns(index) PROVE ~(Len(behind) <= DirentMax)
    OBVIOUS
  <2>1. Len(behind) > DirentMax
    BY OverrunIs
  <2>2. Len(behind) \in Nat /\ DirentMax \in Nat
    BY NamesAssumption DEF CallsInv, Table
  <2> QED
    BY <2>1, <2>2
<1>7. careful' /\ Len(behind) <= DirentMax => state' # "wild"
  BY <1>1, <1>3, <1>5, <1>6
<1> QED
  BY <1>1, <1>5, <1>7, CallStep

LEMMA FinddirStep ==
  ASSUME CallsInv, NEW h \in Handles, NEW target \in Handles, NEW asked, sc_finddir(h, target, asked)
  PROVE  CallsInv'
<1>1. /\ state = "running" /\ careful' = FALSE /\ retval \in {-1, 0, 1, 64, AnyResult}
      /\ UNCHANGED <<m_devices, behind, listing>>
  BY DEF sc_finddir, IsOpen, CallsInv, SyscallTypeOK
<1>2. \A node \in devfs_find_dir(asked) : node \in {m_devices[n] : n \in DOMAIN m_devices}
  BY DEF devfs_find_dir, Named
<1>3. ASSUME retval' = 0,
             NEW node \in {fat_file, malloced} \cup {m_devices[n] : n \in DOMAIN m_devices},
             vopen(target, node)
      PROVE  CallsInv'
  <2>1. \/ state' = "wild" /\ nodes' = nodes
        \/ state' = state /\ nodes' = [nodes EXCEPT ![target] = node]
    BY <1>3, Opens DEF CallsInv
  <2> QED
    BY <1>1, <1>3, <2>1, CallStep
<1>4. CASE state' \in {"wild", "fault"} /\ UNCHANGED <<nodes, retval>>
  BY <1>1, <1>4, CallStep
<1>5. \/ state' \in {"wild", "fault"} /\ UNCHANGED <<nodes, retval>>
      \/ retval' = 0 /\ \E node \in {fat_file, malloced} \cup {m_devices[n] : n \in DOMAIN m_devices} :
                          vopen(target, node)
  <2>1. PICK listable \in Listable(nodes[h]), to \in Callback(nodes[h].find_dir) :
          CASE listable /\ to \in {"NULL", "wild"} -> state' = "wild" /\ UNCHANGED <<nodes, retval>>
            [] listable /\ to = "fat_find_dir" ->
                 \/ vopen(target, fat_file) /\ retval' = 0
                 \/ state' = "fault" /\ UNCHANGED <<nodes, retval>>
            [] listable /\ to = "devfs_find_dir" /\ devfs_find_dir(asked) # {} ->
                 (\E node \in devfs_find_dir(asked) : vopen(target, node)) /\ retval' = 0
            [] OTHER -> vopen(target, malloced) /\ retval' = 0
    BY DEF sc_finddir
  <2>2. CASE listable /\ to \in {"NULL", "wild"}
    BY <2>1, <2>2
  <2>3. CASE listable /\ to = "fat_find_dir"
    BY <2>1, <2>3
  <2>4. CASE listable /\ to = "devfs_find_dir" /\ devfs_find_dir(asked) # {}
    BY <1>2, <2>1, <2>4
  <2>5. CASE /\ ~(listable /\ to \in {"NULL", "wild"}) /\ ~(listable /\ to = "fat_find_dir")
             /\ ~(listable /\ to = "devfs_find_dir" /\ devfs_find_dir(asked) # {})
    BY <2>1, <2>5
  <2> QED
    BY <2>2, <2>3, <2>4, <2>5
<1> QED
  BY <1>3, <1>4, <1>5

LEMMA OtherCallsStep == CallsInv /\ (sc_returns_0 \/ sc_print \/ bad_opcode) => CallsInv'
<1> SUFFICES ASSUME CallsInv, sc_returns_0 \/ sc_print \/ bad_opcode PROVE CallsInv'
  OBVIOUS
<1>1. retval \in {-1, 0, 1, 64, AnyResult} /\ careful \in BOOLEAN
  BY DEF CallsInv, SyscallTypeOK
<1>2. CASE sc_returns_0
  BY <1>1, <1>2, CallStep DEF sc_returns_0
<1>3. CASE sc_print
  BY <1>1, <1>3, CallStep DEF sc_print
<1>4. CASE bad_opcode
  BY <1>1, <1>4, CallStep DEF bad_opcode
<1> QED
  BY <1>2, <1>3, <1>4

-----------------------------------------------------------------------------
(* The listing *)

\* What a listing leaves alone.
LEMMA ListStep ==
  ASSUME CallsInv, UNCHANGED <<m_devices, behind, nodes, retval>>, careful' \in BOOLEAN,
         careful' => careful, careful' /\ Len(behind) <= DirentMax => state' # "wild",
         handle' \in {Closed, devfs_root}, dirent' \in [1 .. DirentMax -> Letters \cup {Nul}],
         shown' \in Seq(Seq(Letters)), Len(shown') <= 5, listings' \in 0 .. MaxListings,
         state' \in {"running", "listing", "wild"}, ListsDevices'
  PROVE  CallsInv'
<1>1. Table'
  <2>1. PICK tail \in Tails : m_devices = <<ata_device, term_device(tail), devfs_device, kb_device>>
    BY DEF CallsInv, Table
  <2>2. behind' \in Junk /\ m_devices' = <<ata_device, term_device(tail), devfs_device, kb_device>>
    BY <2>1 DEF CallsInv, Table
  <2> QED
    BY <2>2, Zenon DEF Table, ata_device, term_device, devfs_device, kb_device, vfs_node_new
<1>2. devices_number' = 4
  BY Leaves DEF CallsInv, devices_number
<1>3. SyscallTypeOK'
  BY <1>2 DEF CallsInv, SyscallTypeOK
<1>4. KeptWhenCareful'
  BY DEF CallsInv, KeptWhenCareful, Kept, IsLeaf
<1> QED
  BY <1>1, <1>3, <1>4 DEF CallsInv, CarefulNeverWild

LEMMA ListOpenStep == CallsInv /\ ListOpen => CallsInv'
<1> SUFFICES ASSUME CallsInv, ListOpen PROVE CallsInv'
  OBVIOUS
<1>1. /\ UNCHANGED <<m_devices, behind, nodes, retval, careful>>
      /\ handle' = devfs_root /\ shown' = <<>> /\ state' = "listing"
      /\ dirent' \in [1 .. DirentMax -> Letters \cup {Nul}]
  BY NamesAssumption DEF ListOpen
<1>2. /\ dirent \in [1 .. DirentMax -> Letters \cup {Nul}] /\ careful \in BOOLEAN
      /\ listings' \in 0 .. MaxListings
  BY NamesAssumption DEF CallsInv, SyscallTypeOK, ListOpen
<1>3. ListsDevices'
  BY <1>1, EmptySeq DEF ListsDevices, LastNameStays
<1> QED
  BY <1>1, <1>2, <1>3, EmptySeq, ListStep

\* A round that copies the name at index.
LEMMA ListRound ==
  ASSUME CallsInv, ListNext, ~Overruns(Len(shown))
  PROVE  CallsInv'
<1> DEFINE index == Len(shown)
           name  == Name(index)
           text  == Text(Copied(name))
<1>1. /\ UNCHANGED <<m_devices, behind, nodes, retval, careful, handle, listings, state>>
      /\ state = "listing" /\ dirent' = Copied(name) /\ shown' = Append(shown, text)
      /\ ~BeyondLast(index)
  BY DEF ListNext
<1>2. /\ shown \in Seq(Seq(Letters)) /\ index \in Nat /\ index <= 4
      /\ dirent \in [1 .. DirentMax -> Letters \cup {Nul}]
  <2>1. devices_number = 4
    BY Four
  <2>2. shown \in Seq(Seq(Letters)) /\ dirent \in [1 .. DirentMax -> Letters \cup {Nul}]
    BY DEF CallsInv, SyscallTypeOK
  <2> QED
    BY <1>1, <2>1, <2>2 DEF BeyondLast
<1>3. /\ name \in Seq(Letters)
      /\ index < 4 => name = m_devices[index + 1].name
  <2>1. CASE index < 4
    <3>1. index + 1 \in 1 .. 4 /\ name = m_devices[index + 1].name
      BY <1>2, <2>1, Four DEF Name
    <3> QED
      BY <3>1, Leaves DEF CallsInv
  <2>2. CASE ~(index < 4)
    <3>1. name = behind
      BY <1>2, <2>2, Four DEF Name
    <3>2. behind \in Seq(Letters)
      BY NamesAssumption DEF CallsInv, Table
    <3> QED
      BY <2>2, <3>1, <3>2
  <2> QED
    BY <2>1, <2>2
<1>4. Len(name) <= DirentMax
  BY <1>1, <1>3, NamesAssumption DEF Overruns
<1> HIDE DEF name
<1>5. /\ Copied(name) \in [1 .. DirentMax -> Letters \cup {Nul}]
      /\ text \in Seq(Letters) /\ SubSeq(text, 1, Len(name)) = name
  BY <1>2, <1>3, <1>4, CopiedIs
<1>6. text = Text(dirent')
  BY <1>1 DEF Text, strlen
<1> HIDE DEF text
<1>7. /\ shown' \in Seq(Seq(Letters)) /\ Len(shown') = index + 1 /\ shown'[index + 1] = text
      /\ \A n \in 1 .. index : shown'[n] = shown[n]
  BY <1>1, <1>2, <1>5, AppendProperties
<1>8. \A k : Name(k)' = Name(k)
  BY <1>1 DEF Name, devices_number
<1>9. LastNameStays'
  <2> SUFFICES ASSUME NEW m \in 1 .. DirentMax, NEW k \in 1 .. index + 1,
                      m <= Len(Name(k - 1)),
                      \A j \in k + 1 .. index + 1 : m > Len(Name(j - 1))
               PROVE  dirent'[m] = Name(k - 1)[m]
    BY <1>7, <1>8 DEF LastNameStays
  <2>1. dirent'[m] = IF m <= Len(name) THEN name[m] ELSE dirent[m]
    BY <1>1 DEF Copied
  <2>2. CASE k = index + 1
    <3>1. k - 1 = index
      BY <1>2, <2>2
    <3> QED
      BY <2>1, <3>1 DEF name
  <2>3. CASE k # index + 1
    <3>1. k \in 1 .. index /\ index + 1 \in k + 1 .. index + 1 /\ (index + 1) - 1 = index
      BY <1>2, <2>3
    <3>2. m > Len(name)
      BY <3>1 DEF name
    <3>3. \A j \in k + 1 .. index : j \in k + 1 .. index + 1
      BY <1>2
    <3>4. dirent[m] = Name(k - 1)[m]
      BY <3>1, <3>3 DEF CallsInv, ListsDevices, LastNameStays
    <3> QED
      BY <1>3, <2>1, <3>2, <3>4
  <2> QED
    BY <2>2, <2>3
<1>10. ListsDevices'
  <2>1. ASSUME NEW n \in 1 .. index + 1, n <= 4
        PROVE  SubSeq(shown'[n], 1, Len(m_devices[n].name)) = m_devices[n].name
    <3>1. CASE n <= index
      <4>1. n \in 1 .. index
        BY <1>2, <3>1
      <4> QED
        BY <1>7, <2>1, <4>1, Four DEF CallsInv, ListsDevices
    <3>2. CASE ~(n <= index)
      <4>1. n = index + 1 /\ index < 4
        BY <1>2, <2>1, <3>2
      <4> QED
        BY <1>3, <1>5, <1>7, <4>1
    <3> QED
      BY <3>1, <3>2
  <2>2. devices_number' = 4
    BY <1>1, Four DEF devices_number
  <2>3. shown'[Len(shown')] = Text(dirent') /\ state' # "running"
    BY <1>1, <1>6, <1>7
  <2> QED
    BY <1>1, <1>7, <1>9, <2>1, <2>2, <2>3 DEF ListsDevices
<1>11. handle \in {Closed, devfs_root} /\ careful \in BOOLEAN /\ listings \in 0 .. MaxListings
  BY DEF CallsInv, SyscallTypeOK
<1> QED
  BY <1>1, <1>2, <1>5, <1>7, <1>10, <1>11, ListStep

LEMMA ListNextStep == CallsInv /\ ListNext => CallsInv'
<1> SUFFICES ASSUME CallsInv, ListNext PROVE CallsInv'
  OBVIOUS
<1>1. CASE ~Overruns(Len(shown))
  BY <1>1, ListRound
<1>2. CASE Overruns(Len(shown))
  <2>1. /\ UNCHANGED <<m_devices, behind, nodes, retval, careful, handle, listings, dirent, shown>>
        /\ state' = "wild"
    BY <1>2 DEF ListNext
  <2>2. /\ handle \in {Closed, devfs_root} /\ careful \in BOOLEAN /\ listings \in 0 .. MaxListings
        /\ dirent \in [1 .. DirentMax -> Letters \cup {Nul}]
        /\ shown \in Seq(Seq(Letters)) /\ Len(shown) <= 5
    BY Four DEF CallsInv, SyscallTypeOK
  <2>3. Len(shown) \in Nat
    BY <2>2
  <2>4. ~(Len(behind) <= DirentMax)
    <3>1. Len(behind) > DirentMax
      BY <1>2, <2>3, OverrunIs
    <3>2. Len(behind) \in Nat /\ DirentMax \in Nat
      BY NamesAssumption DEF CallsInv, Table
    <3> QED
      BY <3>1, <3>2
  <2>5. ListsDevices'
    BY <2>1, ListingStays
  <2> QED
    BY <2>1, <2>2, <2>4, <2>5, ListStep
<1> QED
  BY <1>1, <1>2

LEMMA ListCloseStep == CallsInv /\ ListClose => CallsInv'
<1> SUFFICES ASSUME CallsInv, ListClose PROVE CallsInv'
  OBVIOUS
<1>1. /\ UNCHANGED <<m_devices, behind, nodes, retval, dirent, shown, listings>>
      /\ handle' = Closed /\ careful' = FALSE /\ state' \in {"running", "wild"}
  BY DEF ListClose
<1>2. /\ dirent \in [1 .. DirentMax -> Letters \cup {Nul}] /\ listings \in 0 .. MaxListings
      /\ shown \in Seq(Seq(Letters)) /\ Len(shown) <= 5 /\ Len(shown) > 4
  BY Four DEF CallsInv, SyscallTypeOK, ListClose, BeyondLast
<1>3. ListsDevices'
  <2>1. ListsDevices /\ devices_number' = 4
    BY <1>1, Four DEF CallsInv, devices_number
  <2>2. LastNameStays'
    BY <1>1, <2>1 DEF ListsDevices, LastNameStays, Name, devices_number
  <2>3. Len(shown') >= devices_number'
    BY <1>1, <1>2, <2>1
  <2> QED
    BY <1>1, <2>1, <2>2, <2>3, Four DEF ListsDevices, Text, strlen
<1> QED
  BY <1>1, <1>2, <1>3, ListStep

-----------------------------------------------------------------------------
(* The theorems *)

LEMMA SyscallStepInv == CallsInv /\ [SyscallNext]_syscallVars => CallsInv'
<1> SUFFICES ASSUME CallsInv, [SyscallNext]_syscallVars PROVE CallsInv'
  OBVIOUS
<1>1. ASSUME NEW h \in Handles, NEW asked \in OpenPaths, sc_open(h, asked) PROVE CallsInv'
  BY <1>1, OpenStep
<1>2. ASSUME NEW h \in Handles, sc_close(h) PROVE CallsInv'
  BY <1>2, DispatchStep, KeptCallbacks DEF sc_close
<1>3. ASSUME NEW h \in Handles, sc_read(h) PROVE CallsInv'
  BY <1>3, DispatchStep, KeptCallbacks DEF sc_read
<1>4. ASSUME NEW h \in Handles, sc_write(h) PROVE CallsInv'
  BY <1>4, DispatchStep, KeptCallbacks DEF sc_write
<1>5. ASSUME NEW h \in Handles, NEW index \in 0 .. 5, sc_readdir(h, index) PROVE CallsInv'
  BY <1>5, ReaddirStep
<1>6. ASSUME NEW h \in Handles, NEW target \in Handles, NEW n \in 1 .. 4,
             sc_finddir(h, target, TableNames[n])
      PROVE  CallsInv'
  BY <1>6, FinddirStep
<1>7. CASE sc_returns_0 \/ sc_print \/ bad_opcode
  BY <1>7, OtherCallsStep
<1>8. CASE ListOpen \/ ListNext \/ ListClose
  BY <1>8, ListOpenStep, ListNextStep, ListCloseStep
<1>9. CASE UNCHANGED syscallVars
  <2>1. /\ handle \in {Closed, devfs_root} /\ careful \in BOOLEAN /\ listings \in 0 .. MaxListings
        /\ dirent \in [1 .. DirentMax -> Letters \cup {Nul}]
        /\ shown \in Seq(Seq(Letters)) /\ Len(shown) <= 5
        /\ state \in {"running", "listing", "wild", "fault"}
    BY Four DEF CallsInv, SyscallTypeOK
  <2>2. ListsDevices'
    BY <1>9, ListingStays DEF syscallVars, listing
  <2>3. Table'
    <3>1. PICK tail \in Tails : m_devices = <<ata_device, term_device(tail), devfs_device, kb_device>>
      BY DEF CallsInv, Table
    <3>2. behind' \in Junk /\ m_devices' = <<ata_device, term_device(tail), devfs_device, kb_device>>
      BY <1>9, <3>1 DEF CallsInv, Table, syscallVars
    <3> QED
      BY <3>2, Zenon DEF Table, ata_device, term_device, devfs_device, kb_device, vfs_node_new
  <2>4. SyscallTypeOK' /\ CarefulNeverWild' /\ KeptWhenCareful'
    BY <1>9 DEF syscallVars, listing, CallsInv, SyscallTypeOK, CarefulNeverWild, KeptWhenCareful,
                Kept, IsLeaf, devices_number
  <2> QED
    BY <2>2, <2>3, <2>4 DEF CallsInv
<1> QED
  BY <1>1, <1>2, <1>3, <1>4, <1>5, <1>6, <1>7, <1>8, <1>9 DEF SyscallNext

LEMMA CallsInvariance == SyscallSpec => []CallsInv
<1>1. SyscallInit => CallsInv
  BY SyscallInitInv
<1>2. CallsInv /\ [SyscallNext]_syscallVars => CallsInv'
  BY SyscallStepInv
<1> QED
  BY <1>1, <1>2, PTL DEF SyscallSpec

\* The variables have their types: what programs hold is a copy of a root, of a
\* device or of a file's node, or memory nobody has written, and no listing goes
\* more than one entry too far (devfs.c:21-30, systemcalls.h:24-75).
THEOREM SyscallTypeCorrect == SyscallSpec => []SyscallTypeOK
<1>1. CallsInv => SyscallTypeOK
  BY DEF CallsInv
<1> QED
  BY <1>1, CallsInvariance, PTL

\* However programs mix the calls on files, devices and listings, with any number
\* of handles: as long as none closes, reads or writes a root, calls finddir or
\* a number without a call, the dispatchers call no callback that was not set
\* (vfs.c:52-108).
THEOREM CarefulProgramsStaySafe == SyscallSpec => []CarefulNeverWild
<1>1. CallsInv => CarefulNeverWild
  BY DEF CallsInv
<1> QED
  BY <1>1, CallsInvariance, PTL

\* A listing shows each device's name, whole, whatever the names are, whatever lay
\* on the stack where the dirent is, and whatever lies in the memory behind the
\* table; and behind it what the dirent holds from the last of the rounds before
\* whose name was long enough (devfs.c:32-38, kernel.c's devfstest).
THEOREM ListingShowsDevices == SyscallSpec => []ListsDevices
<1>1. CallsInv => ListsDevices
  BY DEF CallsInv
<1> QED
  BY <1>1, CallsInvariance, PTL

=============================================================================
