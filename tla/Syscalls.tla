------------------------------ MODULE Syscalls ------------------------------
(***************************************************************************)
(* The device table (kernel/device.c), the nodes that drivers and file     *)
(* systems make, the dispatchers vread .. vfind_dir of fs/vfs.c that call  *)
(* a node's callbacks, devfs (fs/devfs.c), the system calls that lead a    *)
(* program there (kernel/systemcalls.h), and the shell's devfstest, which  *)
(* lists the devices.                                                      *)
(*                                                                         *)
(* A system call runs with interrupts off and to its end: it is one step.  *)
(* Of a file only the node is modelled; how fopen finds it is in Vfs and   *)
(* FatLookup, what reading it returns in FatFile and Ata, and the heap of  *)
(* kmalloc, kfree and realloc is KHeap.                                    *)
(***************************************************************************)
EXTENDS Integers, Sequences, FiniteSets

CONSTANTS
  Ata, Video, Devman, Kb,   \* the names of the devices, as sequences
  NameMax,                  \* VFS_NAME_MAX: 55
  DirentMax,                \* the bytes of a VfsDirent_t, name and inode_num: 60
  Letters,                  \* the bytes of names
  Nul,                      \* the end of a name
  Junk,                     \* what unused memory may hold up to its first Nul
  Stacks,                   \* what the stack may hold where a dirent will lie
  Handles,                  \* bound: a program's nodes
  MaxListings               \* bound: how often devfstest runs

TableNames == <<Ata, Video, Devman, Kb>>

ASSUME NamesAssumption ==
  /\ MaxListings \in Nat /\ Nul \notin Letters
  /\ NameMax \in Nat /\ DirentMax \in Nat /\ NameMax + 2 <= DirentMax
  /\ \A n \in 1 .. 4 : /\ TableNames[n] \in Seq(Letters) \ {<<>>}
                       /\ Len(TableNames[n]) < NameMax
  /\ Junk \subseteq Seq(Letters)
  /\ Stacks \subseteq [1 .. DirentMax -> Letters \cup {Nul}]

VARIABLES
  m_devices,   \* the table
  behind,      \* the name that lies behind its last entry
  nodes,       \* the nodes a program was given and has not closed
  retval,      \* what the last call returned
  careful,     \* whether the programs kept clear of roots and of finddir
  handle,      \* devfstest's handle
  dirent,      \* the bytes of its dirent
  shown,       \* the names that its listing has shown
  listings,    \* how often it ran
  state        \* "running", "listing", "wild", "fault"

listing == <<handle, dirent, shown, listings>>
syscallVars == <<m_devices, behind, nodes, retval, careful, listing, state>>

-----------------------------------------------------------------------------
(* Nodes *)

\* A callback that is not set is whatever malloc's memory held.
Unset == "unset"

\* (mutant: one callback is forgotten)
vfs_node_new_short ==
  [name |-> <<>>, flag |-> "INVALID", read |-> "NULL", write |-> "NULL", open |-> Unset,
   close |-> "NULL", read_dir |-> "NULL", find_dir |-> "NULL"]

vfs_node_new ==
  [name |-> <<>>, flag |-> "INVALID", read |-> "NULL", write |-> "NULL", open |-> "NULL",
   close |-> "NULL", read_dir |-> "NULL", find_dir |-> "NULL"]

malloced ==
  [name |-> <<>>, flag |-> Unset, read |-> Unset, write |-> Unset, open |-> Unset,
   close |-> Unset, read_dir |-> Unset, find_dir |-> Unset]

fat_root   == [malloced EXCEPT !.flag = "FILESYSTEM", !.read_dir = "fat_read_dir",
                               !.find_dir = "fat_find_dir"]
devfs_root == [malloced EXCEPT !.flag = "FILESYSTEM", !.read_dir = "devfs_read_dir",
                               !.find_dir = "devfs_find_dir"]
fat_file   == [vfs_node_new EXCEPT !.flag = "FILE", !.read = "fat_file_read"]

ata_device   == [vfs_node_new EXCEPT !.name = Ata, !.flag = "BLOCK_DEV", !.read = "ata_read_callback"]
kb_device    == [vfs_node_new EXCEPT !.name = Kb, !.flag = "CHAR_DEV", !.read = "keyboard_read_callback"]
devfs_device == [vfs_node_new EXCEPT !.name = Devman, !.flag = "BLOCK_DEV"]

\* The end of this name is not copied: whatever lay on the stack follows it, up to
\* the second byte of flag at most (VFS_CHAR_DEV is 3, and then 0).
Tails == {tail \in Junk : Len(Video) + Len(tail) <= NameMax + 2}
term_device(tail) == [vfs_node_new EXCEPT !.name = Video \o tail, !.flag = "CHAR_DEV",
                                          !.write = "term_write_callback"]

\* No node.
Closed == [malloced EXCEPT !.flag = "CLOSED"]

\* After kernel_main's initialisation.
SyscallInit ==
  /\ \E tail \in Tails : m_devices = <<ata_device, term_device(tail), devfs_device, kb_device>>
  /\ behind \in Junk
  /\ nodes = [h \in Handles |-> Closed]
  /\ retval = 0 /\ careful = TRUE
  /\ handle = Closed /\ dirent \in Stacks /\ shown = <<>> /\ listings = 0
  /\ state = "running"

-----------------------------------------------------------------------------
(* The dispatchers *)

\* What calling a node's callback may come to.
Callback(c) == IF c = Unset THEN {"NULL", "wild"} ELSE {c}

\* What a callback leaves in eax; two of them have no return statement.
AnyResult == 99
Returns(c) ==
  CASE c = "NULL"                   -> {-1}
    [] c = "fat_file_read"          -> {0, 1}
    [] c = "keyboard_read_callback" -> {0, 64}
    [] OTHER                        -> {AnyResult}

\* vread, vwrite, vclose: the callback c is called if it is there, and the
\* nodes are then hs.
Dispatch(c, hs) ==
  \E to \in Callback(c) :
    IF to = "wild"
    THEN state' = "wild" /\ UNCHANGED <<nodes, retval>>
    ELSE retval' \in Returns(to) /\ nodes' = hs /\ UNCHANGED state

\* What vread_dir and vfind_dir test; both look at read_dir.
Listable(node) ==
  IF node.flag = Unset THEN {TRUE, FALSE}
  ELSE {node.read_dir # "NULL" /\ node.flag \in {"DIRECTORY", "FILESYSTEM"}}

-----------------------------------------------------------------------------
(* devfs *)

devices_number == Len(m_devices)
Name(index) == IF index < devices_number THEN m_devices[index + 1].name ELSE behind

\* (mutant: two entries too far)
BeyondLastLate(index) == index > devices_number + 1

\* (mutant: the last device is left out)
BeyondLastEarly(index) == index + 1 >= devices_number

\* index > devices_number()
BeyondLast(index) == index > devices_number

\* The devices that strcmp finds.
Named(path) == {n \in DOMAIN m_devices : m_devices[n].name = path}

\* devfs_find_dir: a copy of the first of them, if there is one.
devfs_find_dir(path) ==
  {m_devices[n] : n \in {n \in Named(path) : \A m \in Named(path) : n <= m}}

\* memcpy(dirent->name, tar_name, strlen(tar_name)): the end is not copied.
Copied(name) == [n \in 1 .. DirentMax |-> IF n <= Len(name) THEN name[n] ELSE dirent[n]]

\* The copy is as long as the name, and the name of the entry behind the last
\* ends anywhere: it is written over what lies behind the dirent on the stack.
Overruns(index) == ~BeyondLast(index) /\ Len(Name(index)) > DirentMax

\* How many bytes of a dirent are in front of its first end, and what it shows;
\* what lies behind a dirent without an end is left out.
strlen(b) ==
  CHOOSE n \in 0 .. DirentMax : /\ \A m \in 1 .. n : b[m] # Nul
                                /\ n < DirentMax => b[n + 1] = Nul
Text(b) == SubSeq(b, 1, strlen(b))

-----------------------------------------------------------------------------
(* System calls *)

Roots == {fat_root, devfs_root}

\* The paths that are opened: the mount points, a file, and by their names
\* the devices.
RootPath == <<"/">>
DevPath  == <<"/", "/">>
FilePath == <<"/", ".">>
OpenPaths == {RootPath, DevPath, FilePath} \cup {TableNames[n] : n \in 1 .. 4}

\* The nodes that fopen may return: a copy of a root, a file, a device.
Opened(path) ==
  CASE path = RootPath -> {fat_root}
    [] path = DevPath  -> {devfs_root}
    [] path = FilePath -> {fat_file}
    [] OTHER           -> devfs_find_dir(path)

\* A new node is opened, unless it is a root; no callback of it, no call.
vopen(h, node) ==
  \E to \in Callback(node.open) :
    IF to = "wild" THEN state' = "wild" /\ UNCHANGED nodes
    ELSE nodes' = [nodes EXCEPT ![h] = node] /\ UNCHANGED state

\* 1 if there is a node, 0 if not.
sc_open(h, path) ==
  /\ state = "running" /\ nodes[h] = Closed
  /\ \/ \E node \in Opened(path) :
          /\ IF node \in Roots THEN nodes' = [nodes EXCEPT ![h] = node] /\ UNCHANGED state
             ELSE vopen(h, node)
          /\ retval' = 1
     \/ /\ Opened(path) = {} \/ path = FilePath
        /\ retval' = 0 /\ UNCHANGED <<nodes, state>>
     \/ path = FilePath /\ state' = "fault" /\ UNCHANGED <<nodes, retval>>
  /\ UNCHANGED <<m_devices, behind, careful, listing>>

IsOpen(h) == state = "running" /\ nodes[h] # Closed

\* The node is freed whatever its close callback returned.
NodeGone(h) == [nodes EXCEPT ![h] = Closed]

\* A careful program keeps a root to itself.
Takes(h) == careful' = (careful /\ nodes[h] \notin Roots)

sc_close(h) ==
  /\ IsOpen(h) /\ Takes(h)
  /\ Dispatch(nodes[h].close, NodeGone(h))
  /\ UNCHANGED <<m_devices, behind, listing>>

sc_read(h) ==
  /\ IsOpen(h) /\ Takes(h)
  /\ Dispatch(nodes[h].read, nodes)
  /\ UNCHANGED <<m_devices, behind, listing>>

sc_write(h) ==
  /\ IsOpen(h) /\ Takes(h)
  /\ Dispatch(nodes[h].write, nodes)
  /\ UNCHANGED <<m_devices, behind, listing>>

\* The dirent is sc_readdir's own, and not initialised.
sc_readdir(h, index) ==
  /\ IsOpen(h)
  /\ \E listable \in Listable(nodes[h]), to \in Callback(nodes[h].read_dir) :
       CASE ~listable \/ to = "NULL" -> retval' = -1 /\ UNCHANGED state
         [] listable /\ (to = "wild" \/ (to = "devfs_read_dir" /\ Overruns(index))) ->
              state' = "wild" /\ UNCHANGED retval
         [] listable /\ to = "devfs_read_dir" /\ ~Overruns(index) ->
              retval' = (IF BeyondLast(index) THEN 1 ELSE 0) /\ UNCHANGED state
         [] listable /\ to = "fat_read_dir" -> retval' \in {0, 1} /\ UNCHANGED state
  /\ UNCHANGED <<m_devices, behind, nodes, careful, listing>>

\* "TODO Fix": what vfind_dir returned is lost, and the node is opened and handed
\* over as it is.  fat_find_dir has made a file of it before it searches.
sc_finddir(h, target, path) ==
  /\ IsOpen(h) /\ nodes[target] = Closed
  /\ careful' = FALSE
  /\ \E listable \in Listable(nodes[h]), to \in Callback(nodes[h].find_dir) :
       CASE listable /\ to \in {"NULL", "wild"} -> state' = "wild" /\ UNCHANGED <<nodes, retval>>
         [] listable /\ to = "fat_find_dir" ->
              \/ vopen(target, fat_file) /\ retval' = 0
              \/ state' = "fault" /\ UNCHANGED <<nodes, retval>>
         [] listable /\ to = "devfs_find_dir" /\ devfs_find_dir(path) # {} ->
              (\E node \in devfs_find_dir(path) : vopen(target, node)) /\ retval' = 0
         [] OTHER -> vopen(target, malloced) /\ retval' = 0
  /\ UNCHANGED <<m_devices, behind, listing>>

\* sc_kmalloc, sc_kfree and sc_realloc return 0 whatever the heap did, and so
\* does sc_sysc_status once it has told the program what retval was.
sc_returns_0 ==
  /\ state = "running" /\ retval' = 0
  /\ UNCHANGED <<m_devices, behind, nodes, careful, listing, state>>

\* sc_print returns nothing: retval is what eax holds.
sc_print ==
  /\ state = "running" /\ retval' = AnyResult
  /\ UNCHANGED <<m_devices, behind, nodes, careful, listing, state>>

\* A number without a call: syscall_dispatch compares it with the address of
\* syscall_cnt, lets it through, and calls what lies behind the table.
bad_opcode ==
  /\ state = "running"
  /\ careful' = FALSE /\ state' = "wild"
  /\ UNCHANGED <<m_devices, behind, nodes, retval, listing>>

-----------------------------------------------------------------------------
(* devfstest *)

\* fopen("/DEV/").  The dirent will lie where other calls have left their variables.
ListOpen ==
  /\ state = "running" /\ listings < MaxListings
  /\ handle' = devfs_root /\ shown' = <<>> /\ listings' = listings + 1
  /\ state' = "listing" /\ dirent' \in Stacks
  /\ UNCHANGED <<m_devices, behind, nodes, retval, careful>>

\* One round of the loop.  The dirent lies where it lay the round before, and
\* nothing else has been there since.
ListNext ==
  LET index == Len(shown)
  IN  /\ state = "listing" /\ ~BeyondLast(index)
      /\ \/ /\ ~Overruns(index)
            /\ dirent' = Copied(Name(index))
            /\ shown' = Append(shown, Text(dirent'))
            /\ UNCHANGED state
         \/ Overruns(index) /\ state' = "wild" /\ UNCHANGED <<dirent, shown>>
      /\ UNCHANGED <<m_devices, behind, nodes, retval, careful, handle, listings>>

\* fclose(handle) of a copy of the root.
ListClose ==
  /\ state = "listing" /\ BeyondLast(Len(shown))
  /\ \E to \in Callback(handle.close) : state' = IF to = "wild" THEN "wild" ELSE "running"
  /\ handle' = Closed /\ careful' = FALSE
  /\ UNCHANGED <<m_devices, behind, nodes, retval, dirent, shown, listings>>

-----------------------------------------------------------------------------

SyscallNext ==
  \/ \E h \in Handles :
       \/ \E path \in OpenPaths : sc_open(h, path)
       \/ sc_close(h) \/ sc_read(h) \/ sc_write(h)
       \/ \E index \in 0 .. 5 : sc_readdir(h, index)
       \/ \E target \in Handles, n \in 1 .. 4 : sc_finddir(h, target, TableNames[n])
  \/ sc_returns_0 \/ sc_print \/ bad_opcode
  \/ ListOpen \/ ListNext \/ ListClose

SyscallSpec == SyscallInit /\ [][SyscallNext]_syscallVars

-----------------------------------------------------------------------------
(* Properties *)

\* The types of the variables: what programs hold are copies of the roots, of
\* devices and of a file's node, or memory nobody has written; and a listing goes
\* at most one entry too far.
SyscallTypeOK ==
  /\ nodes \in [Handles -> {Closed, fat_file, malloced} \cup Roots
                           \cup {m_devices[n] : n \in DOMAIN m_devices}]
  /\ retval \in {-1, 0, 1, 64, AnyResult} /\ careful \in BOOLEAN
  /\ handle \in {Closed, devfs_root}
  /\ dirent \in [1 .. DirentMax -> Letters \cup {Nul}]
  /\ shown \in Seq(Seq(Letters)) /\ Len(shown) <= devices_number + 1 /\ listings \in 0 .. MaxListings
  /\ state \in {"running", "listing", "wild", "fault"}

\* As long as no program closes, reads or writes a root's node, none calls
\* finddir or a number that is not there, nobody runs devfstest, which closes a
\* root, and the memory behind the table's last entry holds a name that fits into
\* a dirent, every callback that is called was set and every copy stays in its
\* dirent: by any order of opens and calls, of files, devices and listings.
CarefulNeverWild == careful /\ Len(behind) <= DirentMax => state # "wild"

\* What a dirent holds once its listing has gone round k times: of the names so
\* far, at each byte the last one that reaches it.
LastNameStays ==
  \A m \in 1 .. DirentMax, k \in 1 .. Len(shown) :
    /\ m <= Len(Name(k - 1))
    /\ \A j \in k + 1 .. Len(shown) : m > Len(Name(j - 1))
    => dirent[m] = Name(k - 1)[m]

\* Whatever the stack held, the listing shows of each device its whole name, and
\* behind it what is left in the dirent: of a longer name of a round before, if
\* there is one ("kb" after "devman" begins "kbvman").  A listing that has ended
\* has shown every device, in order.
ListsDevices ==
  /\ \A n \in 1 .. Len(shown) :
       n <= devices_number => SubSeq(shown[n], 1, Len(m_devices[n].name)) = m_devices[n].name
  /\ shown # <<>> => shown[Len(shown)] = Text(dirent)
  /\ LastNameStays
  /\ state = "running" /\ listings > 0 => Len(shown) >= devices_number

=============================================================================
