-------------------------------- MODULE Vfs --------------------------------
(***************************************************************************)
(* The virtual file system, fs/vfs.c: the mount table, the search for the  *)
(* mount point of a path, and the nodes that fopen hands out and fclose    *)
(* takes back.  Below it lie the FAT16 file system, of which this module   *)
(* knows only how a search may end (FatLookup says when), and devfs, which *)
(* compares the rest of the path with the names of the devices.            *)
(*                                                                         *)
(* A path is a sequence of characters; what matters of them is where the   *)
(* slashes are.                                                            *)
(***************************************************************************)
EXTENDS Integers, Sequences, SequencesExt, FiniteSets

CONSTANTS
  Chars,        \* the characters of paths
  Paths,        \* the paths that are opened
  MountPaths,   \* the paths that devices are mounted at
  DeviceNames,  \* the names of the devices
  MaxMounts,    \* bound: mounted file systems
  MaxHandles    \* bound: nodes that are open at a time

Slash == "/"

\* fopen is given absolute paths: of any other, and of an empty one, the search
\* for a mount point does not end.  Mount points end in a slash.
ASSUME PathsAssumption ==
  \A p \in Paths \cup MountPaths : p \in Seq(Chars) /\ p # <<>> /\ p[1] = Slash
ASSUME MountsAssumption ==
  /\ <<Slash>> \in MountPaths
  /\ \A p \in MountPaths : Last(p) = Slash
ASSUME BoundsAssumption == MaxMounts \in Nat \ {0} /\ MaxHandles \in Nat

VARIABLES
  mount_points,  \* [path, type, close]: type 0 is FAT16, 1 devfs; close is what
                 \* the root node's memory holds for its close callback
  handles,       \* how many nodes of each kind of close callback are open
  live,          \* how many blocks fopen and fclose have allocated
  path, mount_path, mnt_i,   \* of the fopen that runs
  pc             \* "boot", "idle", "find", "open", "wild", "fault"

vars == <<mount_points, handles, live, path, mount_path, mnt_i, pc>>

\* A callback: absent, or whatever malloc's memory held.
Callbacks == {"NULL", "garbage"}

\* After vfs_init and devices_init.
Init ==
  /\ mount_points = <<>>
  /\ handles = [c \in Callbacks |-> 0]
  /\ live = 0
  /\ path = <<>> /\ mount_path = <<>> /\ mnt_i = 0
  /\ pc = "boot"

-----------------------------------------------------------------------------
(* Mounting *)

\* vmount_device.  The root node comes from malloc and gets read_dir and
\* find_dir; its other callbacks are not initialised.
Mount(p, type, close) ==
  /\ pc = "boot"
  /\ Len(mount_points) < MaxMounts
  /\ mount_points = <<>> => p = <<Slash>> /\ type = 0
  /\ mount_points' = Append(mount_points, [path |-> p, type |-> type, close |-> close])
  /\ UNCHANGED <<handles, live, path, mount_path, mnt_i, pc>>

\* The end of kernel_main's initialisation: the shell starts.
Boot ==
  /\ pc = "boot" /\ mount_points # <<>>
  /\ pc' = "idle"
  /\ UNCHANGED <<mount_points, handles, live, path, mount_path, mnt_i>>

-----------------------------------------------------------------------------
(* fopen *)

\* fopen allocates the node, _find_relative_mount a copy of the path.
Fopen(p) ==
  /\ pc = "idle"
  /\ handles["NULL"] + handles["garbage"] < MaxHandles
  /\ path' = p /\ mount_path' = p
  /\ live' = live + 2
  /\ pc' = "find"
  /\ UNCHANGED <<mount_points, handles, mnt_i>>

\* The mount points that mount_path names.
Hits == {n \in DOMAIN mount_points : mount_points[n].path = mount_path}

\* (mutant: the last character is looked at as well)
CutAll(s) == DOMAIN s

\* Where strdeltoc looks for the slash: everywhere but at the last character.
CutAt(s) == 1 .. Len(s) - 1

\* strdeltoc: s up to the last slash in front of its last character.
strdeltoc(s) ==
  LET slashes == {n \in CutAt(s) : s[n] = Slash}
  IN  IF slashes = {} THEN s
      ELSE SubSeq(s, 1, CHOOSE n \in slashes : \A m \in slashes : m <= n)

\* (mutant: the last of the table)
LastOf(S) == CHOOSE n \in S : \A m \in S : m <= n

\* The loop over the table takes the first.
FirstOf(S) == CHOOSE n \in S : \A m \in S : n <= m

\* A mount point is found, or the root, for which the first one stands in.
FindMount ==
  /\ pc = "find"
  /\ Hits # {} \/ mount_path = <<Slash>>
  /\ mnt_i' = IF Hits # {} THEN FirstOf(Hits) ELSE 1
  /\ live' = live - 1
  /\ pc' = "open"
  /\ UNCHANGED <<mount_points, handles, path, mount_path>>

\* The path's last component is cut off.
Shorten ==
  /\ pc = "find"
  /\ Hits = {} /\ mount_path # <<Slash>>
  /\ mount_path' = strdeltoc(mount_path)
  /\ UNCHANGED <<mount_points, handles, live, path, mnt_i, pc>>

\* fopen has returned, and its variables are gone.
Return ==
  /\ path' = <<>> /\ mount_path' = <<>> /\ mnt_i' = 0
  /\ pc' = "idle"

\* What the caller is given: a node whose close callback is c.
Give(c) ==
  /\ handles' = [handles EXCEPT ![c] = @ + 1]
  /\ Return
  /\ UNCHANGED live

\* (mutant: the node is kept)
NodeKept == live

\* free(file).
NodeFreed == live - 1

\* fopen returns NULL.
GiveNothing ==
  /\ live' = NodeFreed
  /\ Return
  /\ UNCHANGED handles

\* The rest of the path behind the mount point.
RealPath == SubSeq(path, Len(mount_points[mnt_i].path) + 1, Len(path))

\* The path is the mount point: a copy of the file system's root node.
OpenRoot ==
  /\ pc = "open"
  /\ Len(path) <= Len(mount_points[mnt_i].path)
  /\ Give(mount_points[mnt_i].close)
  /\ UNCHANGED mount_points

\* fat_find_dir: a new node, no file of that name, or the page fault at the end
\* of a path that names a directory.
OpenFat ==
  /\ pc = "open"
  /\ mount_points[mnt_i].type = 0 /\ RealPath # <<>>
  /\ \/ Give("NULL")
     \/ GiveNothing
     \/ pc' = "fault" /\ UNCHANGED <<handles, live, path, mount_path, mnt_i>>
  /\ UNCHANGED mount_points

\* devfs_find_dir: a copy of the device's node, if there is one of that name.
OpenDevice ==
  /\ pc = "open"
  /\ mount_points[mnt_i].type = 1 /\ RealPath # <<>>
  /\ IF RealPath \in DeviceNames THEN Give("NULL") ELSE GiveNothing
  /\ UNCHANGED mount_points

-----------------------------------------------------------------------------
(* fclose *)

\* No close callback: the node is freed.
Fclose ==
  /\ pc = "idle" /\ handles["NULL"] > 0
  /\ handles' = [handles EXCEPT !["NULL"] = @ - 1]
  /\ live' = NodeFreed
  /\ UNCHANGED <<mount_points, path, mount_path, mnt_i, pc>>

\* The close callback was never set: the kernel goes wherever it points.
FcloseWild ==
  /\ pc = "idle" /\ handles["garbage"] > 0
  /\ pc' = "wild"
  /\ UNCHANGED <<mount_points, handles, live, path, mount_path, mnt_i>>

Step == FindMount \/ Shorten \/ OpenRoot \/ OpenFat \/ OpenDevice

Next ==
  \/ \E p \in MountPaths, type \in {0, 1}, close \in Callbacks : Mount(p, type, close)
  \/ Boot
  \/ \E p \in Paths : Fopen(p)
  \/ Step
  \/ Fclose \/ FcloseWild

Spec == Init /\ [][Next]_vars

\* Nothing in fopen waits.
FairSpec == Spec /\ WF_vars(Step)

-----------------------------------------------------------------------------
(* Properties *)

\* The types of the variables.
TypeOK ==
  /\ mount_points \in Seq([path : MountPaths, type : {0, 1}, close : Callbacks])
  /\ handles \in [Callbacks -> Nat]
  /\ live \in Nat
  /\ path \in Paths \cup {<<>>}
  /\ IsPrefix(mount_path, path)
  /\ mnt_i \in 0 .. Len(mount_points)
  /\ pc = "open" => mnt_i > 0
  /\ pc \in {"boot", "idle", "find", "open", "wild", "fault"}

\* The mount points above p.
Above(p) == {n \in DOMAIN mount_points : IsPrefix(mount_points[n].path, p)}

\* The mount that fopen uses is the deepest one above the path, and of several
\* at the same place the oldest: cutting the path at its slashes passes none.
DeepestMount ==
  pc = "open" =>
    /\ mnt_i \in Above(path)
    /\ \A n \in Above(path) :
         \/ Len(mount_points[n].path) < Len(mount_points[mnt_i].path)
         \/ n >= mnt_i /\ Len(mount_points[n].path) = Len(mount_points[mnt_i].path)

\* The search of an absolute path ends, and with it fopen.
SearchEnds == pc = "find" ~> pc \in {"idle", "fault"}

\* Between calls there is one block for each node the callers hold: a search
\* that fails, at the mount table or below it, frees what it took.
BlocksAreHandles ==
  pc \in {"idle", "boot"} => live = handles["NULL"] + handles["garbage"]

=============================================================================
