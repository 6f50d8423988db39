# CookiesOS, specified

TLA+ specifications of CookiesOS, the 32-bit x86 hobby kernel in this repository
(`src/src/...`), with the configurations that model-check them and the proofs
that hold for every value of their constants.

The kernel is one C program on one processor. After boot a single main thread
runs the built-in shell; what interrupts it is the keyboard, the timer and the
disk. There is no scheduler. The build does not optimise (`-m32`, no `-O`), so
every access to a global variable is a load or a store of its own.

## 1. Inventory

| component | source | state | operations | hard part |
|---|---|---|---|---|
| kernel heap | `kernel/kheap.c` | header list (`frist_hh`, `last_hh`), `curr_addr` | `malloc`, `free`, `realloc` | list surgery by split, merge and growth over long call sequences; the end of the mapped memory |
| frame allocator | `kernel/frame.c` | bitmap `frames`, `alloced_frames` | `frame_alloc_ex`, `frame_free_ex` | the scan's index arithmetic, word boundaries, exhaustion |
| paging | `kernel/paging.c` | page directory, page tables | `paging_init`, `paging_map`, `paging_dir_new` | tables live in frames the allocator hands out; one table behind many directory entries |
| ELF loader | `utils/elf.c` | none of its own | `elf_stat` | composes frames, paging and the running program |
| keyboard | `drivers/keyboard.c` | `buffer`, `handled_index`, `current_ch`, `signal` | interrupt handler, `kb_wait_get`, read callback | interrupts between the loads and stores of the main thread |
| ATA disk | `drivers/ata.c` | device registers | `ata_init`, `ata_read_sector` | polling protocol with a device that has its own pace |
| terminal | `kernel/framebuffer.c` | cursor, colour, the 80x25 buffer | `term_putchar`, `term_newline`, `term_clean` | scrolling and wrapping at the edges |
| VFS | `fs/vfs.c` | mount table | `vmount_device`, `fopen`, `v*`, `fclose` | resolution of paths to mounts; callbacks that may be absent; ownership of nodes |
| device table | `kernel/device.c`, `fs/devfs.c` | `m_devices` | `devices_add`, `devfs_*` | handles are copies of the table's entries; names without an end; an index one too far |
| FAT16 | `fs/fat.c` | `strtok`'s static input | lookup, cluster chains | chain following, end marks, lengths, ownership of buffers |
| system calls | `kernel/systemcalls.*` | `retval` | eleven calls | callbacks that were never set, failure paths, numbers without a call |
| interrupts and boot | `arch/x86/*`, `kernel/kernel.c`, `kernel/trap.c` | PIC masks and services, IDT, interrupt flag | `pic_*`, `set_idt_gate`, boot order, handlers | order of unmasking, gates and handlers; nesting; acknowledgements that name no line |
| shell | `kernel/kernel.c` | `input_buffer`, `input_index` | `mini_shell` | an 8-bit index over 255 characters, editing in step with the screen, `memcmp` over the line's length |
| C library | `libs/libc/string.c` | none | `mem*`, `str*` | pure functions |

How they interact: the shell calls everything; `fopen` goes through the mount
table to FAT or devfs, FAT reads sectors through the device's callback, the ELF
loader takes frames and page table entries; every one of them allocates from the
heap. The main thread and the keyboard handler share the keyboard's variables
without a lock. The frame allocator's bitmap lies at physical address 0x400, in
the first frame, which is the first one it hands out.

What each component must get right, in one line: the heap never loses, overlaps
or forgets a block; the allocator never gives a frame twice and never gives up
while a run is free; every key reaches the shell, once and in order; the screen
shows the last rows written; a read delivers the file and stays inside it; a
lookup finds the entry its path names and gives its memory back; a path is
resolved by the deepest mount above it; a mapping changes the page it names and
no other; the disk is read only when it offers data; interrupts are on only when
each open line has its handler, and each acknowledgement ends its own service;
a line runs the program it names, and is what stands on the screen; a system
call calls no callback that nobody set.

## 2. Modules

Names of variables and operators are the code's where TLA+ allows it (`frist_hh`
keeps its spelling). Every loop takes one step per iteration, so that what the
code does in the middle of an operation is a state. An operator marked
"(mutant: ...)" is a plausible mistake, kept beside the definition it would
replace; no behaviour uses it.

| module | code | what it models |
|---|---|---|
| `KHeap` | `kernel/kheap.c` | `malloc`, `free`, `realloc`: first-fit search, split, growth, merge; page faults beyond the mapped 4 MB. `curr_addr` grows by `PtrScale` = 4 bytes per byte asked for, as `uint32_t*` arithmetic does. A freed header may be freed again. |
| `Allocator` | what `kheap.h` promises | blocks are granted out of free bytes and released; no list |
| `Frame` | `kernel/frame.c` | the bitmap, the scan bit by bit with `bi`, `bj`, `cnt`, `frame_free_ex` clearing one bit |
| `Keyboard` | `drivers/keyboard.c` | the interrupt handler as one step; each load and store of the main thread in `kb_wait_get` and `kb_get` as one; the system call's read callback, asked for 0 characters too; `missed` records that such a read took a waiting key's signal |
| `Terminal` | `kernel/framebuffer.c` | the flat cell buffer, cursor and colour; scrolling cell by cell, in `memcpy`'s order |
| `Shell` (extends `Terminal`) | `kernel/kernel.c` | `mini_shell`: each key, backspace and line; the search of the table; what shell and programs write, as a queue of the terminal's operations. What lies behind `input_buffer` may be `input_index` |
| `Console` | what a reader of the screen expects | rows that leave at the top and come in blank at the bottom |
| `FatFile` | `fs/fat.c` 106-142, 226-232 | a read along the cluster chain, byte by byte. `buffer` is state: a cluster is read into all of it, the FAT's sector over its beginning, each in a step of its own; the copy and the next cluster's number are taken from what it then holds |
| `FatLookup` | `fs/fat.c` 79-260 | `strtok` with its static rest, the root directory, the walk down, ownership of every buffer; the listing of the root directory |
| `Vfs` | `fs/vfs.c`, parts of `fs/devfs.c` | mounts, the search for a path's mount, `fopen`'s ways out, `fclose` |
| `Paging` | `kernel/paging.c`, `utils/elf.c`, `kernel/frame.c` | the first page table with the frame bitmap inside it, the directory, `paging_map`, a program's load, run and end; the processor's accessed and dirty bits |
| `Ata` | `drivers/ata.c` | reset, identification and sector reads by polling, against an external disk |
| `Interrupts` | `kernel/kernel.c` 247-284, `arch/x86/idt.c`, `arch/x86/pic.c`, `kernel/trap.c`, the handlers of `ata.c` and `keyboard.c` | the kernel's writes to gates, controllers and the interrupt flag as data: a stack of frames, each with the writes its function has still to make; both 8259 controllers with masks, edges and services |
| `Syscalls` | `kernel/systemcalls.*`, `kernel/device.c`, `fs/devfs.c`, the dispatchers of `fs/vfs.c` | the nodes with every callback set, null or never set; the eleven calls as one step each; `devfstest`'s listing entry by entry, with the bytes of its dirent, which begin as whatever the stack holds (`Stacks`) |
| `X_proofs` | | the theorems about `X`; `Shell_proofs` has those about `Terminal`, `Fat_proofs` those about `FatFile` and `FatLookup`, `Vfs_proofs` those about `Vfs` and `Syscalls`, `Keyboard_proofs` those about `Keyboard` and `Interrupts` |
| `MCX` | | `X` with small sets for TLC |

The layers meet at narrow seams, so each is modelled over what the layer below
promises: `Vfs` knows of FAT only that a search gives a node, gives none, or page
faults (`FatLookup` shows when each happens); `FatLookup` and `FatFile` share the
directory's buffer, which `FatLookup` treats as the directory that was read last;
`malloc` is a counter of live blocks in both. `Paging` has the allocator's bitmap in
its own memory, because that is the point of it, and what `Frame` shows of the
scan as one operator (`frist_free`: the word the run begins in with the bit it ends
at). `Ata` answers the reads that `FatFile` and `FatLookup` take for granted.
`Interrupts` has the handlers' acknowledgements and what the keyboard's handler
reads; what it does with the key is in `Keyboard`. `Syscalls` takes from `Vfs` and
`FatLookup` the nodes that `fopen` may return, and `Shell` is checked together with
the terminal it writes to.
`Allocator` and `Console` are
abstract specifications; `KHeap` and `Terminal` implement them under the
refinement mappings at the end of each module (for the heap: a block is in use
between the grant and the release, whatever the list says; for the terminal: the
window of the scroll-back, hidden while `term_newline` is half done).

What the models take from the build: no optimisation, so each access to a global
in the main thread is a step; interrupt gates, so a handler is one step; one
processor.

## 3. Runs

| run | states that matter | shows |
|---|---|---|
| `kheap` | memory for a handful of headers of 4 bytes, requests of 1 and 9: 9 is served whole, split, or by merged blocks, and leaves remainders on both sides of a header's length | list, overlap, merging, lost bytes, needless growth, termination, refinement of `Allocator` |
| `frame` | words of 2 bits, 7 frames (three words, a broken fourth), runs of 1 to 3, four owners | a panic is justified; what the scan returns for a run; it ends; as long as all ask for one frame, as `paging_map` does, frames are exclusive |
| `keyboard` | keys at any point between loads and stores, buffer of 4; a typist who runs ahead, and a patient one who waits for the shell before each key | index in range; `kb_wait_get` sleeps on a key, and the shell is not woken for it, only after a program's read of 0 characters (finding 6); the patient typist's keys arrive once each, in order, with nothing left in the buffer |
| `keyboard_order` | the order of the keys, whoever types: **violated** | finding 1 |
| `shell` | 3 rows of 3 cells, a buffer of 3 characters and lines of up to 4, backspaces, a key without a character; four names, one the beginning of an earlier one; programs that list the names, clear the screen, yell, and do nothing: wrap, wrap in the last row, several scrolls, a line behind the buffer and the next line after it | echo and line in step, names run their programs, refinement of `Console` |
| `fat_read` | files of 1 to 3 clusters of 8 bytes, in any order on the disk; a cluster has two sectors and a sector of the FAT two entries, so that the FAT overwrites half of the data and entries lie in different sectors; lengths at, before and behind each boundary | delivery, order, overrun, own clusters only, end |
| `fat_lookup` | trees of a root and a subdirectory with a third slot behind the two that are read, files and directories, prefixes of each other; paths of one to three components, empty ones included; two lookups or listings in a row | resolution, page fault exactly for directories, what a missing name leads to (finding 2), buffers freed, listings complete |
| `vfs` | up to three mounts out of "/", "/a/", "/a/b/", doubled and shadowed ones included; every path of up to five characters; two open nodes | deepest mount, no lost block, the search ends |
| `paging` | the real word, flag and table sizes and addresses; the four pages under the bitmap and the directory's; programs of up to two segments in the first 4 MB and two regions behind it, run any number of times | the kernel's pages stay in place under the bitmap's marks; every frame has one use; programs do not drain the memory; no page moves while its translation may be cached; the allocator never panics |
| `ata` | sectors of two words, registers of one bit, calls for up to two sectors around every carry; a disk, a packet device or nothing, with errors or a late busy flag | only a disk becomes master, sectors arrive whole and are those asked for, calls end |
| `interrupts` | the real vectors, lines and boot order; ticks, keys, the disk and two devices without a driver asking at any time; the disk's trap gate lets one more interrupt in; system calls that read the disk with interrupts off | no interrupt without its handler, services match the stack, nesting at most two deep, keys are read |
| `syscalls` | the four devices with their own names, both roots, a file; two nodes, every order of calls, listings in between; a dirent of ends, of bytes behind an end, or without an end; behind the table names of no byte, a few, and more than a dirent holds | only callbacks that were set are called and every copy stays in its dirent, as long as the program keeps clear of what the code does not guard; listings show every device's whole name, and behind it what the dirent still holds |

Why the bounds are enough. The heap's header list reaches four headers, and every
case of split and merge involves at most three neighbours (before, at, behind).
The scan's cases are: inside a word, across a word, in the broken word. The
keyboard's races involve one press inside one pop; the buffer of 4 lets two pops
and two presses interleave. Three rows are the least that distinguish copying up
from copying down. A line of one character more than the buffer is the shell's
boundary; the names have every relation that matters to the search: equal, beginning,
other. `interrupts` has no bound besides the number of idle lines, one for each
controller; its state is finite because a frame ends. Two nodes and two listings are
what it takes for a call to follow another's leavings. Every program takes the same block once the first
has run, so that `paging` closes after two; two regions are what the bitmap bears
(section 4). One-bit registers make every carry of a sector number, from the first
register to the bits that are cut off, happen within 32 sectors. Three clusters have a first, a middle and a last. Two lookups
are the least at which `strtok`'s static rest can be stale. Bounds that the code
does not have are constants whose comment begins with "bound:"; `MaxVisited` in
`MCFatFile` is never reached there, because every chain is shorter.

Deadlock is checked where the system never stops (heap, frames, shell, paging,
ATA, interrupts; a panic is a step that repeats, and so is a poll that sees nothing new). It is switched off where a model ends: a read that has
returned, the typist's last key, a page fault, the bound on lookups, a call through an unset callback.

The type invariants of `KHeap`, `Frame`, `Keyboard`, `Shell`, `FatFile`, `Vfs` and `Ata`
are not listed in the runs: they are theorems (section 5).

Fairness. `WF_vars` of the steps *inside* a call, never of the calls themselves:
the heap's `Internal`, the frame allocator's `Scan`, the steps of `kb_wait_get`
and of the shell, the loop of a file read, the steps of `fopen`, the
disk driver's accesses. The one main
thread always runs on: an interrupt handler is finite and returns to it, and
nothing in those calls waits, except for the disk. `Ata` also assumes it of the disk: a command it has
taken comes to an end, in data or in an error, as the ATA protocol requires; without
this no polling driver ends. That a key is pressed, or a file opened, is never
assumed. `Interrupts` assumes the same two things, `WF_irqVars(Cpu)` and
`WF_irqVars(DiskDone)`; its timer ticks only after the main thread got on (`ran`), since
a tick every 55 ms does not starve a 32-bit processor. The keyboard needs no strong
fairness: a handler cannot disable the main
thread's next step.

## 4. Findings

1. `keyboard_order` (a run that ends in a violation). `kb_get` pops the end of the
   buffer at which the handler pushes. Two keys typed while the shell is busy come
   out in the wrong order, or one of them twice and another not at all. `keyboard`
   shows that the typist who waits is served properly.
2. `fat_lookup`. `_fat_get_filehandle_rootdir` copies from the null
   pointer when the name is not in the root directory. The identity map makes
   address 0 readable; what lies there is a page table, which passes for a file
   of cluster 0. "cannot find file" (`kernel.c:66`) is never printed. `Resolves`
   states it in its last clause.
3. `syscalls`. The root nodes of FAT and devfs come from `malloc` with their
   `open`, `close`, `read` and `write` callbacks never set; `fopen("/DEV/")` followed
   by `fclose`, which the shell's `devfstest` does, calls whatever the memory held.
   `CarefulNeverWild` holds because `careful` excludes these calls, and is violated
   by each of them alone.
4. `syscalls`. `devfs_read_dir` copies a name without its end into a dirent that
   `devfstest` does not initialise and that still holds the names before: it shows
   "kbvman" for "kb", and behind the longest name so far whatever the stack held. Its
   test `index > devices_number()` also lets the index behind the last device through:
   what lies there is copied by its own length, over the stack if that is more than the
   60 bytes of a dirent; `CarefulNeverWild` excludes this by `Len(behind) <= DirentMax`.
   `ListsDevices` says which byte of the dirent is whose: the whole name of the device in
   front, and at each byte the last name that reached it (`LastNameStays`).
5. `syscalls`. The range check of `syscall_dispatch` compares with the address of
   `syscall_cnt`: a number without a call goes through to what lies behind the table.
   And `sc_finddir` loses `vfind_dir`'s result and opens the node whether it was
   written or not; `careful` excludes both.
6. `keyboard`. `keyboard_read_callback` clears `signal` also when it was asked for 0
   characters and took no key, and `sc_read` passes on any size. A key that came while
   the program ran then has no signal: `kb_wait_get` spins until another key is
   pressed. The variable `missed` is true exactly then. `NoLostWakeup` says that the
   signal is gone if and only if `missed`; without the exception it is violated, and so
   is `KeyWakesShell`.

Noted while modelling, and part of the models as the code has them:
`frame_free_ex` clears one bit however many frames it is given; a run of several
frames is returned as the word it begins in with the bit it ends at; a read
writes one byte too many for each cluster it reads (`OverrunBounded`), ignores its offset, and takes
FAT16_EOF (0xFFF8) itself for a cluster; looking a directory up ends in a page
fault; `curr_addr` moves on four times as far as a block needs (`BytesAccounted`:
by exactly that factor, so no byte of a block gets lost otherwise); `fat_read_dir`
returns without freeing its buffer for each entry it lists; `_ata_wait_drq` waits for
RDY and an error is never seen, so that a bad sector's place in the caller's buffer
is filled with whatever the data register holds; `fat_check` returns 0 whatever it
found, so that "Not a Fat16 device" (`vfs.c:101`) is said only of a device without a
read callback; a key that waits while the controllers are reset leaves its line high
with its edge forgotten, and no key is handled any more (`early` in `KeyHandled`); the
256th character of a line is written behind `input_buffer` (`overrun` in `EchoIsLine`);
a line that is the beginning of a name runs its program, and the empty line the
table's first.

Paging works by a narrow margin, which `KernelInPlace` makes precise. The bitmap's
word 0 is the page table entry of the kernel's own code at 1 MB, and bits 12 to 30
of it are that page's frame number: the allocator must never mark, in any word, a
frame whose bit lies there. It does not, because the first program's block ends up
at frames 8 to 10, one frame of it comes back, and the odd index `frist_free` returns
leads the next program to frame 8 again. Tables for new 4 MB regions take frames 1
and 2. A third region takes frame 6, the next program's block then starts at 13, and
the kernel's first code page moves: with three new regions in `MCPrograms` the run
reports exactly this. A program linked at the usual 0x8048000 uses one new region.

## 5. Theorems

TLC checks the instances above. The theorems hold for all values of the constants
that satisfy the named assumptions of each module: any header size, scale and
memory, any word length, any screen, any cluster length and set of chains, any
alphabet and mount table. `PROJECT.json` lists them with the property each states.

* **Heap** (`KHeap_proofs`). `ListInOrder` is `HeapTiled`, that is `ListComplete` and
  `NoOverlap`, with `Coalesced`. It is not inductive: in
  the middle of a call the loop variables point into the list. `IInv` adds where
  they may point: `SearchLoop` (the search stands at a header, and none before it
  fits), `MergeLoop` (no two free neighbours before the cursor, and `current` is
  directly in front of `next`) and `CallState` (which call owns which variable).
  From it: types, the complete list, no overlap, no free neighbours, no needless
  growth, and that every step is a step of `Allocator` or a stutter. The grant
  needs that the block found is disjoint from all blocks in use, which is
  `NoOverlap` on the list plus its completeness. `BytesAccounted` is a sum along the
  list, a recursive function. No induction is needed to change it: each step's lemma
  (`SplitBytes`, `ExtendBytes`, `AbsorbBytes`) exhibits the sums of the new list, and
  `SumsUnique` says that a list whose links lead upwards has one solution of the
  function's equation (of two, the highest header at which they differ has a next at
  which they do not). `CallsAdvance`: a call's steps begin ever later parts of it, or
  bring the cursor of a loop nearer to the end of a list that stays where it is.
* **Frames** (`Frame_proofs`). `ScanLoop` says that `cnt` is the length of the run
  of clear bits that ends at `k`, that `bi` is the word it began in, and that no
  run long enough lies before it. A panic and the returned index are then read
  off. Exclusiveness (`SinglesAreExclusive`: if every
  request is for one frame, no frame has two owners) is proved from an invariant of
  its own: for longer runs the code does not have it.
* **Keyboard** (`Keyboard_proofs`). With the index in a register between load and
  store, the invariant is `reg <= handled_index`: presses only raise the index,
  so the store can lose a press but never take the index out of range. A key is slept on
  exactly if a read of 0 characters came behind it (`WakeupsAreKept`): `missed` is set by
  that read and cleared by the next press, wherever the main thread is then. For the
  patient typist (`PatientIsServed`) `InHand` follows the one
  key from the press to its delivery.
* **Terminal** (`Shell_proofs`). The refinement of `Console`: after `n` steps
  of the copy the first `n` cells are the old ones a row further down, and the
  rest is untouched, although source and destination overlap.
* **File read** (`Fat_proofs`). `InChain` ties the cluster read to the number
  of clusters visited, `InStep` the bytes written to cluster and `i`. `InBuffer` says what
  the shared buffer holds at each `pc`: the whole cluster as long as bytes are copied, the
  sector of the FAT with the cluster's entry when the next one is taken; `EntryPlace` is
  the arithmetic by which `fat_sector` and `ent_offset` meet that entry, for any even
  sector length up to the cluster's. All of it
  under `NoBareEof`: no chain ends in the bare mark 0xFFF8, which the loop takes
  for a cluster. Real FAT16 volumes usually end chains in 0xFFFF. `ReadShortens` gives
  the steps that are left of a read a bound, which begins at so many for each cluster of
  the file and which each step lowers.
* **Path lookup** (`Fat_proofs`). For any tree, any paths and any number of lookups and
  listings, `LookupInv`: `Rest` says what part of the path `strtok`'s static pointer is
  at, at each step of a lookup, and that the lookup before has left nothing that the
  next one sees; `Bearings` says that the directory in the buffer is the one the walk down
  the tree has reached after the components so far (`Reached`, a recursive function of
  the number of components, whose existence and uniqueness are shown by taking the
  least number at which they would fail); `FreesWhatItOwns` has the buffers of the
  lookup in progress, `Route` the way it is to end, `Shown` the entries listed so far.
  `LookupFindsItsEntry`, `LookupsFreeTheirBlocks` and `ListingIsComplete` follow.
  `LookupShortens`: since `strtok` takes at least one component away each time, a lookup
  has at most about two steps for each component, in any tree, also in one whose
  directories lead back to each other.
* **VFS** (`Vfs_proofs`). `NonePassed`: every mount above the path is still a
  prefix of what is left of it, since a mount point ends in a slash and the cut is
  at the last slash; `Blocks` counts the two blocks of a running `fopen`.
  `SearchShortens`: each cut leaves a shorter path that still begins with a slash, so no
  path is tried twice.
* **System calls** (`Vfs_proofs`). `CallsInv`: what the device table holds (`Table`),
  that a program that kept clear of the unguarded calls has only nodes whose callbacks
  were set (`KeptWhenCareful`, with `CarefulNeverWild`), and `ListsDevices` itself, which is
  inductive once it speaks of the bytes of the dirent: a round overwrites the first of
  them with a name and leaves the rest (`LastNameStays`), and changes nothing while no
  listing runs. `ListRound` is that step. All of it for any names of devices, any
  alphabet, any contents of the stack and of the memory behind the table.
* **Shell** (`Shell_proofs`). The shell's steps are steps of
  the terminal or leave it alone, so that the terminal's invariant and its refinement
  of `Console` carry over to the composition. `LineIsTyped` is the part of
  `EchoIsLine` about buffer and line; with it `NamedProgramRuns` follows from the
  search alone: a name typed in full agrees with itself, and an earlier name that
  agrees with it too must have it as its beginning. `EchoStandsOnScreen` is all of
  `EchoIsLine`. Its invariant `EchoInv` holds also while the shell writes: what is still
  to be written ends with the end of prompt and line (`Queued`), and what of them has
  been written stands before the cursor on the screen as it is shown, in the middle of a
  scroll too (`Trails`). What else is queued, programs' clear screens and rows sent to
  the top among it, comes before the prompt, and so disturbs nothing.
* **ATA** (`Ata_proofs`). The driver does not wait for the reset to end, so the
  identify command may be ignored or taken late. `ShowsSignature`: as long as the
  signature is still to be looked at, a packet device works or shows it. With this,
  the wait for BSY before the test is enough, and no strengthening about time is
  needed besides the 400 ns. `SectorsArrive` rests on `AddressOfRegisters`, by which the
  four registers put the sector's number together again, and on `DInv`: sectors before
  `call.i` have arrived if the disk had data for them, and in a transfer (`InTransfer`) the disk serves the sector that
  was asked for, `pos` and the driver's `word` agree, and a prompt disk has data as soon
  as it is not busy. `PowersAssumption` says of the powers of 2 that they are positive,
  above 1 where the exponent is, and that exponents add: the prover has no theory of
  `^`, and TLC evaluates it in `ata`.

* **Paging and loader** (`Paging_proofs`). With the machine's words and entries
  (`Machine`), any memory, any set of kernel pages and any programs, as long as these
  use at most two regions behind the first 4 MB between them (`FewRegions`; section 4
  says why a third breaks everything). The argument is the value of one word, the
  bitmap's first (`FirstWordIs`): its own bits as an entry, the boot's, the tables' and
  those of the program, present or past. From it every choice of the allocator follows
  (`FirstRunIs`), so that programs are always put in frame 8 and the entry's frame is
  never touched. `TablesInOrder` gives the first two regions frames 1 and 2. That
  frames are not the kernel's needs that the kernel lies at 1 MB (`LinkedHigh`).

* **Interrupts** (`Keyboard_proofs`). For any set of lines without a driver
  (`OtherAssumption`: none of the lines that the code uses, and not the second disk
  bus, whose line the code opens and which it never gives a command). The invariant
  `IrqInv` says which states are reachable. In the boot (`Booting`), `Before(k)`: main
  is alone with the boot code from its k-th write on, and gates, masks and the words
  the controllers expect are what the k - 1 writes before have made of them (`GatesAt`,
  `MasksAt`, `WordsAt`). `BootIs` lists the 65 writes that the concatenations in `Boot`
  come to. After the boot (`Running`) they stay as they are (`Ready`), and the stack is
  one of five (`Nested`): main, alone; main under a system call, under the timer's or
  keyboard's handler, under the disk's handler; and main under the disk's handler under
  one of the other two, each with what it has left to do and with exactly its
  unacknowledged lines in service. That a disk answer is not left undelivered when the
  next command is given (the third part of `Running`) is what keeps the disk from
  interrupting its own handler: main gives a command only if nothing can be delivered,
  and a system call begins, interrupts off, right after such a moment. `NoStray` follows
  from `Ready`, `InServiceIsStacked` and the depth of the stack from `Nested`.

Every invariant and every step property that a run checks is a theorem. Only
model-checked are the liveness properties (`CallsEnd`, `AllocEnds`, `KeyWakesShell`, `ReadEnds`, `SearchEnds`,
`KeyHandled`), because liveness under fairness is outside what the prover's temporal
backend does. Of three of them the half that does not need fairness is proved for all
instances: `CallsAdvance`, `ReadShortens` and `SearchShortens` say that no heap call, read
or search can go on for ever taking steps, by a measure that each step brings down. What
`CallsEnd`, `ReadEnds` and `SearchEnds` add is that the steps are taken.

## 6. Not modelled, and why

* The contents of heap blocks, and with them `free` of an absorbed header, the
  bytes `realloc` copies (it reads the new length from the old block), and the mount
  table's second entry, which lies behind the 8 bytes malloced for the table: in the
  order of the boot, on the header of the FAT root's node, whose magic number and size
  are looked at only if the node is freed.
* What the handlers of exceptions print. Two of them panic; `exception_div_by_zero` is a C
  function whose `ret` takes the gate's frame for its return address and leaves the rest
  of it on the stack, which no model follows. Page faults end the models they occur in.
* Spurious interrupts (a request that goes away while it is acknowledged), and what
  a controller does besides that the code never asks for.
* `runinit_prog` behind `mini_shell`, which never returns; `fat_dir_readdir` and
  `fat_dir_finddir`, which nothing reaches because opening a directory ends in a page
  fault; `paging_page_new` and `paging_page_get`, which nothing calls.
* What programs compute and what the system calls `kmalloc`, `kfree` and `realloc` do
  to the heap, which `KHeap` has: their results are lost in the call. A system call is
  one step, as its gate turns interrupts off.
* The 64-entry limit of the device table, which `devices_add` does not test: only four
  devices are ever added.
* In `Paging`: the contents of pages, so that all segments of a program being mapped
  to the first frame of its block, and the second and third page of a segment to
  none, is in the model but no property is about it. Programs are assumed to be
  linked to table indices that the kernel does not use, and the kernel's text to fill
  the pages under the bitmap (`linker.ld` puts it first), which nothing writes to.
* In `Ata`: the two interrupt handlers, which acknowledge and do nothing else
  (`Interrupts` has them), and the drive's second channel.
* Text formatting (`term_printf`, `term_puthex`), scan code tables, boot sector
  parsing, structure layouts: data without control.
* Relative and empty paths: `fopen` does not return for them. `PathsAssumption`
  names it; no caller in the kernel passes one.
* What `devfstest` shows behind a dirent without an end: `strlen` stops at its 60 bytes.
  A copy that is longer than the dirent ends the model (`wild`).
* Of the C library, `strdeltoc` is in `Vfs`, `memcmp` in `Shell`, the overlapping
  `memcpy` in `Terminal`, an unended copy in `Syscalls`; the rest is taken for what its
  name says.
* GDT, port access, boot stub, linker script: no state.

## 7. Plan

Done: heap, frames, keyboard, terminal, files, lookup, mounts, paging and loader, disk,
interrupts and boot, shell, system calls and devices, and the theorems about all of
them. Left, in this order:

1. **Composition of loader and memory**: the contents of a program's pages, with two
   segments in one frame; an abstract map from page to frame.
2. **Contents of heap blocks**, for `free` of an absorbed header and for `realloc`.

Runs are few on purpose: new questions about a component join its run.
