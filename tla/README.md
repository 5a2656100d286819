# Formal models of FYSOS

FYSOS is a hobby operating system and the set of utilities that come with the
books about it: boot sectors, a loader, a kernel heap (`bucket/`), a system
registry (`registry/`), and programs that drive a disk, a keyboard, a sound card,
a USB controller or a screen. This directory holds TLA+ models of the parts of it
whose correctness depends on more than one call or more than one thread, what
TLC finds out about them on small instances, and what TLAPS proves about them
for every instance.

Line numbers below are those of the repository's files.

## 1. Inventory

| Part | State | Operations | Who else touches it | What is hard | What makes it correct |
|---|---|---|---|---|---|
| Kernel heap, `bucket/malloc.cpp`, `malloc.h`, `bucket.cpp` | a list of buckets; in each a list of pebbles, `first`, `largest`, a spinlock | `kmalloc`, `mfree`, `realloc`, `malloc_init`; create, insert, remove bucket; split, melt, absorb, shrink pebble | every kernel thread; `mmap`, `mmap_free` | locks per bucket, list of buckets only partly locked, cached `first` and `largest`, alignment arithmetic | blocks are apart, aligned, large enough; lists are well formed; free memory is one piece; locks are released |
| Registry, `registry/registry.c`, `registry.h`, `checksum.c` | one block: header, and a stream of hives and cells; `kernel_reg`, `reg_spinlock` | exist, read and write per type, remove | every kernel thread; `realloc` | walks over a stream, moves of memory, the reserve, a pointer read before the lock | the stream is a tree; length and checksum match it; calls are atomic on a tree of values |
| Sound blaster player, `main/io/utils/sblaster/sblaster.c` | DMA buffer of two blocks, `fpos`, `cur_block`, `irq_fired` | `play_wav_file`, chunk by chunk or (`-auto`) round and round; interrupt handler | the card reads the buffer while the program fills it | one flag for several interrupts; an edge triggered line; waits with no time-out | the file is heard in order and to its end; the player ends |
| PS/2 keyboard, `main/io/utils/ps2/ps2key.c`, `ps2share.c`, `scancode.h` | `key_buffer`, a ring of 16, with two indices; `scan_buffer`, `is_break`, `key_flags` | `ps2_key_irq`; `key_translate`; `keyboard_toggle_led` | the interrupt; the keyboard, which is spoken to through the port its codes come from | the ring is never tested for being full; answers and scan codes share one byte | no modifier sticks, LEDs follow, nobody waits for ever |
| Serial mouse, `main/io/utils/serial/serial.c` | `cur_byte`, `ser_x`, `ser_y`, `ser_buttons`, `mouse_info` | `ser_mouse_irq` | the mouse, which may start in the middle of a packet | synchronisation with the first byte of a packet after a loss | a packet that came in full has its effect |
| xHCI reader, `main/usb/utils/gdevdesc/gd_xhci.c` | command ring, endpoint rings, status dwords in memory, `port_info`, a memory pool | port reset, `xhci_send_command`, `xhci_control_in`, `xhci_irq`, `heap_alloc` | the controller and the interrupt, at any time, also after a time-out | three actors on one ring; time-outs with late answers; pairs of ports | an answer is of the command it is taken for; each socket is tried in the right protocol; the program ends |
| UHCI, OHCI, EHCI readers | queues in memory | one control transfer at a time | the controller | time-outs | the descriptor read is the device's |
| Loader heap, `loader/lib/malloc.c` | one doubly linked list of memory blocks | `malloc`, `calloc`, `mfree`, `mrealloc` | nobody | splitting and merging at the ends of the list | the list covers memory; blocks are apart |
| Loader, `loader/loader.c`, file systems in `loader/lib` | the machine; buffers | load kernel and drivers | nobody | on-disk structures | the file loaded is the file on the disk |
| EFI loader, `efi/boot.c` | firmware's | one sequence of calls | nobody | order of firmware calls | the kernel gets what the BIOS loader gives it |
| GUI demo, `main/gui/source/gui_demo` | tree of objects, mouse pointer stack | one event loop | nobody | nesting of events and pointers | the pointer shown is the one set last |
| Ultimate image editor, FAT page, `main/filesys/utils/ultimate/Fat.cpp` | an image file; the FAT, in memory and in the image; the tree of the dialog; a count of free clusters | insert a file or a folder, delete, optimise a folder, make a label | nobody | insertions given up half way through nested folders; slots used again; two copies of the FAT | what is inserted and not deleted is there and whole; no cluster has two owners or none |
| Its other pages (Lean, FYSFS, ExFat, Ext2), file system utilities | an image file | format, check, show, insert | nobody | on-disk structures | the image is consistent |
| Media utilities | none | detect a controller | nobody | time-outs | the right controller is reported |

`mmap`, `mmap_free`, `spin_lock` and `spin_unlock` are for the kernel to supply:
`bucket/bucket.cpp` has them as empty stubs, and the models take them for what the
callers in `malloc.cpp` and `registry.c` use them for.

The parts meet in one place that matters here: the registry gets its memory
from the heap's `realloc`, and gives the old block up while another thread may
still have its address. That interaction is in the model of the registry
(`block`, `freed`).

`PROJECT.json` lists every part with what is modelled of it, and under
`hazards` each place where something can go wrong that a test would hardly reach.

## 2. Modules

    Pebbles ---- BucketHeap ---- BucketHeapProperties (with AbstractHeap, INSTANCE) ---- MCBucketHeap
                                      |
                               KernelHeapProofs ---- BucketProofs

    RegistryStream ---- Registry ---- RegistryProperties ---- MCRegistry
                                         |   \
                              RegistryProofs  AbstractRegistry (INSTANCE)

    XhciPorts --\
    DmaHeap ----- XhciReader ---- XhciReaderProperties ---------- Utilities ---- MCUtilities
                                     |                            | | | |
                              XhciReaderProofs                    | | | |
                                                                  | | | |
    LoaderList (with AbstractHeap, INSTANCE) ---------------------/ | | |
       |                                                            | | |
    LoaderHeap ---- LoaderHeapProofs                                | | |
                                                                    | | |
    SoundState ----------------------------------------------------/  | |
       |                                                              | |
    SoundPlayer ---- SoundPlayerProofs                                | |
                                                                      | |
    KeyboardState, SerialState --------------------------------------/  |
       |              |                                                 |
    Keyboard       SerialMouse ---- SerialMouseProofs                   |
       |                                                                |
    KeyboardProofs                                                      |
                                                                        |
    LoaderHeap, SoundPlayer, SerialMouse, Keyboard, FatImage (INSTANCE) /

The kernel's components are each a module of pure operators on a data structure, a
module of threads that use it, a module of properties, an abstract specification
it implements, and an MC module that only names values of constants. The utilities
have a module each; `Utilities` puts them on one machine.

### 2.1 The kernel heap

**`Pebbles`** is the pebble list of one bucket. An address is an offset in the
bucket. A list is a function from the offset of a header to the header, with
`prev` and `next` kept as the code keeps them: a merge that forgets a link gives
a list that is wrong, and not one that repairs itself. `split_pebble`,
`UPDATE_NODE`, `absorb_next`, `melt_prev`, `shrink_pebble` and
`bucket_update_largest` are the functions of that name. Sizes are those of a
64-bit build, in bytes: a bucket header is 64, a pebble header 128, a page 4096.
The walk of `place_pebble` (line 148) is `FirstFound`: the first pebble that
fits from `bucket->first` on, in list order, and then from the start. That list
order is address order is not assumed in silence: `InOrder` is a part of
`ListWellFormed`, which runs check and theorems prove: for `kernel_heap` always, for the other buckets
with one thread, or without alignment.

**`BucketHeap`** is the heap with its threads.

| State | Code |
|---|---|
| `buckets` | what is mapped: a record per `struct S_MEMORY_BUCKET`, its pebbles with it |
| `pc`, `loc` | where a thread is, and the locals of its call (`bucket`, `pebble`, `ptr`, `ret`) |
| `live` | what callers hold and what they asked for; no code stores it, properties need it |

| Actions | Code |
|---|---|
| `Kmalloc`, `Mfree`, `ReallocShrink`, `ReallocGrow` | a caller calls; only with a block it holds |
| `SpinLock` | `spin_lock` at any of the five places that take it |
| `WalkTry`, `SplitPebble`, `WalkFirst`, `WalkNext` | the loop of `kmalloc`, 461 to 509 |
| `CreateBucket`, `InsertLink`, `NewTry`, `SplitPebble`, `NewLargest` | a new bucket, 511 to 529; `mmap` may fail |
| `NewFirst`, `NewFirstStore` | `bucket->first = ret->next` (530), after the unlock: the load, and the store |
| `FreeMark`, `FreeMelt`, `FreeAbsorb` | `mfree` with the lock, 580 to 605 |
| `FreeCheck`, `LoadFirst`, `TestFirst` | 607 to 613, after the unlock: the pebble's bucket, `bucket->first`, and a field of the pebble there, one at a time; `first` may be loaded again or kept |
| `WalkLargest` | `bucket_update_largest(bucket, 0)` (615, 135 to 145), without the lock: a step for each pebble |
| `RemovePrev`, `RemoveNext`, `RemoveUnmap` | `remove_bucket` |
| `ShrinkSplit` | `realloc` in place |
| `Wild` | a thread would use an address where nothing is: it stops at "fault" |

A step ends wherever another thread can come in: at every spinlock, and at each
load or store of a pebble, of `first` or of `largest` made without one. Within a
critical section a step is a few statements, not all of it, so that a lost lock would
show. `remove_bucket` changes two links without a lock; each is a step, with
its load and its store, and nothing is claimed of the links with several threads.

A bucket that is given back may be mapped again. `mmap` is not in the
repository; it is taken to hand out pages again only when nobody has an address in them
any more (`Referenced`). A thread that waits for the lock of a bucket that is given back thus
comes to an address of no page, and not to the lock of a new bucket. That is what makes
it right that a split or a merge is one step: no two threads are ever in critical sections of
one bucket, which is a theorem (`BucketMutex`, section 4).

`Wild` is where the code's behaviour is no longer defined: an address of no page, a NULL
`first`, or a header that another thread has absorbed by the time it is looked at
without the lock (608, 135 to 145). The model stops that
thread and lets the others go on. A test of a pebble that was absorbed (611 to 613) does no
harm; it may come out either way (`MayPass`, `MayFail`). `realloc` passes a pebble's flags to `kmalloc`,
which reads them as a call's flags: IN_USE is VIRTUAL there and ALIGNED is
PHYSICAL, so a grown block is virtual memory, and growing an aligned block is
refused and the old one freed. `ReallocFlags` says so.

**`AbstractHeap`** is what a heap promises: the blocks callers hold share no byte.
It has a third action, `Resize`, for a heap whose `realloc` keeps a block where it
is; the loader's does.

### 2.2 The registry

**`RegistryStream`** is the block of memory: a sequence of tokens, each for `n`
dwords with a first dword `w`, which is all a walk looks at. The two walks differ
in the code and do here: `FindItem` (288) steps over the names of hives,
`FindEndTag` (319) does not. Sizes are in dwords. A name is
represented by its first dword; on a little-endian machine the end tag 'EVIH' is
the dword of the name "HIVE". Two names that begin with the same dword
are not told apart, and no instance has two. `crc32` is represented by what it is computed over,
that is, taken to tell contents apart.

**`Registry`** is the calls. All that the code does with `reg_spinlock` held is one
step (`registry_write`, `registry_read`, `registry_exist`, `registry_remove`),
between the step that begins a call and the one that unlocks. One thing is done
before the lock: `registry_remove` reads `kernel_reg` (647). `block` numbers the
memory the registry is in and `freed` what the blocks held that `realloc` has
given up; `RemoveStale` is a remove that works in one of those, and assumes the best, that the
freed memory still has its old contents. `abort()` in `registry_move_forward` is "halt".

**`AbstractRegistry`** is a tree: a set of hive paths and a function from paths to
values. Every call is one step on it. A write that stores nothing answers 0 there, as the
comment above `registry_write` has it (550). The code answers the length; so
`ImplementsAbstractRegistry` names that one wrong answer (`NamelessWrite`, a path that names
nothing) and allows no other, and BugLostWrite shows it. `TreeOf` is the refinement mapping.

### 2.3 Programs on a machine of their own

Under DOS one program runs, with its devices and the handlers of its own interrupts;
while the loader runs there is nothing else; and the image editor has its image to
itself. **`Utilities`** says just that: a behaviour begins with a choice of
`utility`, and only that program's actions are taken. It is what lets one run
check all of them, and it states the fairness (section 3). It EXTENDS the modules
about the xHCI reader and the loader's list, and `SoundState`,
`KeyboardState` and `SerialState`: the variables of the player, of the keyboard and of the
mouse, and what is claimed of them. The
modules with the other actions it INSTANCEs.

A device is not in the repository. What is modelled of one is what the code in
`src/` expects of it, with the freedom it has: such definitions are marked
external in the map.

**`XhciReader`** (with `XhciPorts`, the pairs of port registers, and `DmaHeap`,
`heap_alloc`) has three actors.

| State | Code |
|---|---|
| `pc`, `pass`, `port`, `step` | where the program is: the loops of `process_xhci` (428), which call of `xhci_get_descriptor` |
| `port_info` | the array of that name |
| `cur_heap_ptr` | the memory pool, as an address |
| `cmnd_trb`, `cmnd_trb_cycle`, `org_trb`, `ring` | the command ring; addresses of TRBs are indices |
| `dword`, `status_addr` | the status dwords, and the one `xhci_wait_for_interrupt` polls |
| `ctrl`, `xfers`, `events` | the controller: its place on the command ring, the transfers it has to do, events not handled (external) |
| `resets`, `history`, `failures` | histories and a bound |

| Actions | Code |
|---|---|
| `SkipPort`, `FirstReset`, `EndOfPorts`, `SecondReset` | the passes over the ports and `xhci_reset_port` |
| `WriteFirst`, `WriteSecond`, `Doorbell` | `xhci_send_command`, with the order of its writes |
| `CommandAnswered`, `CommandTimeout` | its wait; the time-out may come at any moment |
| `NoSlotMemory`, `NoTransferMemory` | `heap_alloc` leaves the program with `exit` |
| `DataStage`, `StatusStage`, `TransferAnswered`, `TransferTimeout` | `xhci_control_in`, `xhci_wait_for_interrupt` |
| `ExecuteCommand`, `CommandRingEmpty`, `ExecuteTransfer`, `FailTransfer`, `TransferRingEmpty` | the controller, which may be late, fail, or do nothing |
| `Interrupt` | `xhci_irq`: marks the TRB or the dword the event names |

**`SoundPlayer`** is `play_wav_file`, the card, and the interrupt handler whose only
word is `irq_fired`. A unit of the file stands for a run of samples; `buffer` is
the DMA buffer of two blocks. The interrupt line is edge triggered (`line`, `irr`).
`prompt` is a choice made at the start: whether the program is always done before
the card ends a block. What is claimed of the order in auto-init mode is claimed
of prompt programs (`InTime`); a late one is played over, as the code has no
defence.

**`Keyboard`** is the interrupt handler with its ring (`key_buffer`, `key_buff_us`,
`key_buff_irq`), the translator (`scan_buffer`, `is_break`, `key_flags`) in scan code
sets 1 and 2, and `keyboard_toggle_led` step by step: mask, disable, command,
acknowledge, argument, acknowledge, enable, unmask. A byte of the keyboard is a code and
whether it says "up". The program ends at ESC, but not under ALT, where the table has
another code for it (`AltCode`). Answers and scan codes come through one byte, `output`. `lost`
is a history: the ring wrapped over unread bytes, or a scan code was taken for an
answer. After that no claim is made of modifiers and LEDs, but the translator
must still not hang (`KeysArrive`).

**`SerialMouse`** is `ser_mouse_irq` on real bytes, since the packing of 8 bits of movement
into 6 and 2 is what it is about. The mouse may be in the middle of a packet
when the port is opened, and bytes are overrun.

**`LoaderList`** is the list of memory blocks of `loader/lib/malloc.c` and its splits
and merges; **`LoaderHeap`** is `malloc`, `calloc`, `mfree` and `mrealloc`. A block
is a record at its address, with the code's own links. `call` and `moving` split
`mrealloc` where it frees the old block. A `malloc` that finds nothing stops the machine
("frozen"). `vector2` notes the write through a NULL `next` at the end of the
list. `LoaderList` also has the refinement mapping to `AbstractHeap`.

**`FatImage`** is the FAT page of the image editor.

| State | Code |
|---|---|
| `fat`, `fat_file` | `m_fat_buffer`, and the FATs in the image (all copies are written together) |
| `data` | the clusters in the image: slots of a folder, or blocks of a file; cluster 0 stands for the root of FAT12 and FAT16 |
| `m_free_clusters` | the running count |
| `stack` | the recursion of `InsertFolder`: of each call the folder and the host's items still to do |
| `made`, `kept`, `orphans`, `spoiled` | histories: what was inserted, its contents, the clusters taken for an entry that found its folder full, and whether the user goes on |

| Actions | Code |
|---|---|
| `OnFatInsert`, `UpdateTheFATs` | the start and the end of `OnFatInsert` |
| `InsertFile`, `InsertFolder`, `InsertEmptyFile`, `InsertFails`, `ReturnFromFolder` | the two functions, a step for each entry; a failure ends all levels |
| `OnFatDelete`, `DeleteRoot` | `OnFatDelete` with `DeleteFolder` and `DeleteFile`, in the order of the tree, with "Show Deleted" on or off |
| `OnFatOptimize`, `OnInsertVLabel` | the functions of that name |

The tree of the dialog is not state: it is read from the volume after every operation
(`Items`), as `Start` does. With "Show Deleted" on it has the deleted entries too
(`ShownDeleted`), each with the first cluster it had. A name is its number of slots.
`spoiled` is set by what leaves the volume, or the program, beyond its own rules: to delete a
label, "." or "..", to optimise a folder of another size than the root's, and to
delete an entry that is deleted already (section 6). A delete of a folder stops at the first
such item below it. The user goes no further then, and the properties say nothing of such a volume.

## 3. Runs

Heap offsets need realistic sizes, so bounds are chosen on the number of blocks,
buckets and sizes. `kernel_heap` is 64 KiB in all runs; a block of 46000 bytes
leaves too little for another, one of 23000 leaves room for a second, and 69184
is more than a new bucket's minimum and needs one of its own.

| Run | Instance | What it shows |
|---|---|---|
| HeapKinds | 1 thread, 3 buckets, 2 sizes, alignments 128 and 4096, virtual and physical, 2 blocks | `ListsWellFormed` with the dummy pebbles of aligned splits, `Coalesced`, `NoOrphan`, `BlocksUsable`, `NewBucketFits`, and `BucketListWhole`, which also says that empty buckets are given back, after any sequence of calls without realloc |
| HeapRaces | 2 threads, kernel_heap and a bucket that comes and goes | types, that `first` of both buckets is NULL or a pebble there (`FirstIsPebble`), though it is written to a new bucket without the lock, and that kernel_heap's lock and list and what lies in it survive what goes wrong with the other bucket (`HeapMutualExclusion`, `HeapListWellFormed`, `HeapInOrder`) |
| HeapThreads | 2 threads, kernel_heap, blocks of 19950 that become 19830 or 25000 and back | with realloc: no byte is lost (`TilesExactly`), `HeapInOrder`, kernel_heap implements `AbstractHeap`; `LocksReleased` under fairness |
| RegistryCalls | 1 thread, 5 paths, 3 values, the registry grows | the stream is a tree, `length` and checksum match, the reserve is kept, and every call is one step of `AbstractRegistry`, but for the answer of a write whose path names nothing |
| RegistryThreads | 2 threads, `realloc` moves the registry up to twice | one thread at a time; a remove whose registry has not moved tells the truth |
| Utilities | one of six programs, with its devices | see below |
| BugHang, BugRemoveRace, BugLostWrite, BugRegistryRoom, BugHiveName, BugStaleRemove | | violations, section 6 |

Why the bounds are enough. The heap's list operations look at one pebble and its
two neighbours: two blocks and the free pebbles around them give every
combination of in-use and free neighbours, and the third bucket one that is
removed from the middle of the list. In HeapThreads a block of 19950 is a pebble of 19968
bytes. 19830 leaves 138 of them, enough for a header, and the mask of SPLIT_PEBBLE moves that
header up to 19840: the tail is a pebble of no bytes, which later splits and merges meet.
Two threads are enough for every pair of
critical sections and unlocked accesses. HeapThreads leaves out a second bucket
on purpose: what goes wrong in one that can be given back stops a thread (`Wild`,
BugRemoveRace), and the question here is whether threads that are not stopped release their locks. That the refinement holds
with other buckets too, whatever becomes of them, is proved. In the registry a depth limit of 2 and
a path of three names show the cut-off, "a" as a hive and a cell shows the clash, ["a", ""] a bad path,
and a stream of 10 tokens has hives in hives with cells before and behind them.
`REG_MAX_SIZE` is 2 or 3 dwords for 16384 and `REG_GROW` 20 or 40 for
a megabyte: what matters is that growth is at least the reserve, which
`RegistryAssumption` asks for. `MaxTokens` and `MaxBlocks` bound
when a write may begin; nothing else is cut off. Deadlock is checked in
HeapThreads. In the other runs the system really may stop: after "hang" or "fault" with one
thread, after `abort()`, and in Utilities when the program ends, the loader freezes
or the volume is spoiled.

### The run Utilities

| Program | Instance, and why it is enough | Properties |
|---|---|---|
| xHCI reader | a socket with two ports, and two USB2 ports without a companion: every kind of port twice. A ring of 14 TRBs, the least the assumption allows for two ports. One failed command, transfer or reset; any number of time-outs. Memory of 271500 bytes runs out on the way through the second port when both are used to the full, and not before | `AnswersMatch`, `ReadsAreDelivered`, `NeverTorn`, `RingInOrder`, `OneOfPair`, `UtilityEnds` |
| sound player | files of 0 to 9 units, blocks of 2: empty, shorter than a block, shorter than the buffer, whole numbers of blocks and of buffers, and neither, twice round the buffer; both modes | `PlaysInOrder`, `PlaysToTheEnd`, `UtilityEnds` |
| keyboard | a ring of 4 for 16, keys with one and two bytes, a modifier and a lock, 3 presses, repeats and releases: 3 keys of two or three bytes overrun the ring; both scan code sets | `NoStuckModifier`, `LedsFollow`, `KeysArrive` |
| mouse | movements -128 (its low six bits are zero, so it is all in the top bits) and 70 (both parts), all buttons, 2 packets after one that was cut, any byte overrun | `PacketApplied` |
| loader heap | free memory before and behind a region in use, sizes 70 and 140, 3 blocks: merges with neither, either and both neighbours, at both ends of the list, rests on both sides of `MIN_CHUNK_SIZE`, realloc in place and elsewhere | `LoaderListWhole`, `LoaderIsHeap` |
| image editor | 8 clusters, of which the code never uses the last; 3 slots to a cluster; the root larger (FAT12 and FAT16: 8 slots) and smaller (FAT32: one cluster of 3) than a new folder of 6; on the host an empty file, a file of 3 clusters with a name of 3 slots, a folder, and a folder with a folder and a file in it, which fails half way when the volume is not empty enough | `FilesIntact`, `SpaceAccounted` |

All of them have `MachineTypeOK`. `MaxKeyEvents`, `MaxPackets`, `MaxHeld` bound when a
key, a packet or an allocation may begin, and `MaxEntries` = 3 when an insertion may
(so that up to 5 entries come about).

Fairness. For threads, `FairSpec` says that a thread in the middle of a call is run
again (weak fairness of `Step(t)`). A spinlock gives no more than that: a waiting
thread may be passed by for ever, and nothing is claimed for it. `LocksReleased`
says that a lock that is taken is given up, not that everyone gets it. No thread has
to call. In `Utilities`, `Behaviour` assumes that the program that runs is run
(under DOS nothing else is), that the sound card goes on playing and the keyboard
sends what it has, and that the processor takes an interrupt that is raised and not
masked. All three are weak. Of the xHCI controller and its interrupt nothing is assumed: every
wait of `gd_xhci` has a time-out, and `UtilityEnds` says that this is enough.
The player has waits without one; for it `UtilityEnds` needs the card. Nothing
obliges the user, the mouse, the callers of the loader's heap or the image
editor, and no liveness is claimed of them.

## 4. Proofs

| Theorem | Module | Says |
|---|---|---|
| `LockInvariant`, `HeapMutex` | KernelHeapProofs | no two threads in critical sections of kernel_heap |
| `HeapInvariant`, `HeapList` | KernelHeapProofs | kernel_heap's list is well formed after any calls by any threads |
| `HeapOrderInvariant`, `HeapOrdered` | KernelHeapProofs | what lies in kernel_heap is owned by one caller or one call; `HeapInOrder` |
| `KernelHeapRefines`, `HeapBlocksApart` | KernelHeapProofs | kernel_heap implements `AbstractHeap`, and so the blocks in it share no byte |
| `OneThreadInvariant` | BucketProofs | with one thread: the invariant of all buckets that the other theorems about one thread rest on |
| `OneListsWellFormed`, `OneFirstIsPebble`, `OneLargestBounds`, `OneCoalesced` | BucketProofs | with one thread every bucket's list, `first` and `largest` are true, and its free memory is in one piece |
| `OneBlocksUsable`, `OneNewBucketFits` | BucketProofs | with one thread every block, in any bucket, is what its caller asked for, and a new bucket has room |
| `OneBucketListWhole` | BucketProofs | with one thread the buckets are one list, linked both ways, and none that could be given back is empty |
| `OneWildAtFirst` | BucketProofs | with one thread the only wild address is `bucket->first` in `mfree`, when it is NULL |
| `OneLeaks`, `OneNoOrphan` | BucketProofs | with one thread only a `realloc` to a smaller size loses memory, and without it every pebble in use has an owner |
| `OneTypes` | BucketProofs | with one thread everything in memory has its type, whatever is asked for |
| `BucketMutex` | BucketProofs | no two threads in critical sections of one bucket, whatever buckets come and go |
| `UnalignedInvariant` | BucketProofs | with any number of threads, when nobody asks for alignment: the invariant of all buckets that the next three rest on |
| `UnalignedTiles`, `UnalignedLists` | BucketProofs | then no byte of any bucket is lost, and every list is well formed |
| `UnalignedTypes` | BucketProofs | then everything in memory has its type: no size or offset falls below zero |
| `RegistryMutex` | RegistryProofs | no two threads at work on the registry |
| `RegistryInductive` | RegistryProofs | with plain names: nesting, names, sizes and calls: what the other theorems about the registry rest on |
| `RegistryNested`, `RegistryEndTags` | RegistryProofs | with plain names hives stay nested, and the walk to the end of a hive ends at its own tag |
| `RegistryTypes`, `RegistryLength`, `RegistryChecksum`, `RegistryRoom` | RegistryProofs | with plain names `length` is that of the stream, the checksum is wrong only by a size that has grown since, and there is always room for one cell |
| `RegistryIsTree` | RegistryProofs | with plain names the stream is a tree: hives nested, and no two items of a kind with a name in one hive |
| `RegistryImplementsAbstract` | RegistryProofs | with plain names and any number of threads the registry implements `AbstractRegistry`, but for the answer of a write whose path names nothing, as long as no remove has read `kernel_reg` before a write moved it |
| `OneThreadImplementsAbstract` | RegistryProofs | with plain names and one thread it does so, without a condition on removes |
| `RegistryRemoveTrue` | RegistryProofs | with plain names a remove whose base is still the registry says whether the item was there, and takes away what it should |
| `HeapAllocSound` | XhciReaderProofs | a block of `heap_alloc` is aligned, behind all blocks before it, within the pool, and crosses no boundary |
| `XhciInductive` | XhciReaderProofs | the invariant the next three rest on |
| `XhciRingInOrder`, `XhciNeverTorn`, `XhciAnswersMatch` | XhciReaderProofs | the command ring never wraps; no command is executed half written; a command marked as done is done, with its slot |
| `XhciReadsDelivered` | XhciReaderProofs | a read that is reported as done has brought its data |
| `XhciOneOfPair` | XhciReaderProofs | of the two ports of a socket one is in use at most, the USB2 one only when USB3 could not be reset |
| `LoaderInductive`, `LoaderListSound`, `LoaderHeld` | LoaderHeapProofs | the loader's blocks cover its memory, all links agree, what is held is in use |
| `LoaderRefines` | LoaderHeapProofs | the loader's heap implements `AbstractHeap` |
| `PlayerInOrder`, `PlayerToTheEnd` | SoundPlayerProofs | the card plays the file in order, nothing twice, and to its end |
| `KeyboardInductive` | KeyboardProofs | the bytes on their way lead to modifiers whose keys are down: the invariant the next two rest on |
| `KeyboardNotStuck`, `KeyboardLeds` | KeyboardProofs | unless a byte was lost, no modifier is stuck and the LEDs show the locks once all bytes are translated |
| `MousePacketApplied` | SerialMouseProofs | a packet that came whole is applied as it was meant |
| `XhciTypes`, `LoaderTypes`, `PlayerTypes`, `KeyboardTypes`, `MouseTypes` | the utilities' proof modules | all variables of the utility have their values: its part of `MachineTypeOK` |

They hold for every set of threads, of page runs, of sizes, alignments up to a
page, and flags; for every layout of up to 16 ports, ring, number of failures
and size of memory; for every list of regions and every size asked for; for every
length of file and size of block; and for all movements of 8 bits: from the named
assumptions in the modules that declare the constants. `Utilities` extends all of
these, or states what it needs for those it INSTANCEs, so that the runs evaluate them.

**The heap.** `HeapListWellFormed` is not inductive. Three things are missing, one
on top of the other.

1. `ShapeInv`: records have their fields, with sizes and offsets in Nat. It
   is weaker than `TypeOK`: nothing is claimed of sizes
   outside kernel_heap, where a thread may come with an offset that is out of date. When nobody asks for alignment, or with one thread, `TypeOK`
   itself holds, and is proved (below).
2. `LockInv`: kernel_heap is mapped, is PERSISTENT, and its spinlock protects
   its list. PERSISTENT is what makes the rest of the argument possible: `mfree`
   never removes such a bucket, so kernel_heap never disappears under a thread
   that waits for it. Of the other buckets that is false (BugRemoveRace), and
   nothing is claimed of them.
3. `HeapInv`: pebbles of kernel_heap lie on a grid of 64 bytes (`Sound`), which
   makes the mask in SPLIT_PEBBLE harmless, and the pebble a thread has chosen in
   "k_split" still fits what it wants (`Chosen`), since it holds the lock.

`HeapInOrder` needs a fourth, `HeapOrder`, on top of these.

4. `HeapOrder`: `largest` bounds every pebble of kernel_heap, in use or free, and
   `first` is a pebble or NULL (`HeapRecord`); a pebble in use that a caller or a call
   claims is claimed once, and is as large, as aligned and as mapped as was asked
   for (`Owned`); and where a free pebble lies before a free one, a thread in `mfree`
   holds the lock and is at the very place where it has still to merge them
   (`InPieces`, `AtFree`).

The refinement then reads off each step what becomes of the blocks held: the steps
that return a block to its caller are `Allocate` (`AllocateRefines`: the pebble was the call's,
so it was nobody's block, and pebbles share no byte), the call of `mfree` and
a `realloc` that moves are `Free`, and all else is a stutter. A `realloc` in place is a
`Free` and an `Allocate`, for the model takes the block from its caller in between.
`HeapBlocksApart` is what a caller gets from it.

`StepOK` says in one formula what a step of a thread may do to kernel_heap: take
the lock when it is free, give it back, or change the list in between. One lemma
per action shows `StepOK`, and the first three invariants and what the fourth needs of the
other threads are proved from that.

**The heap with one thread.** Of the blocks in buckets other than kernel_heap nothing can
be proved for several threads: BugRemoveRace ends in a block in a bucket that is
unmapped. `BucketProofs` proves, for every size, alignment and sequence of calls, what
is true of all buckets when `Threads` has one member, the way the author's test
program (`bucket.cpp`) uses them. Its invariant, on top of `Grounds` (the four above), has
six parts, each a predicate of what is mapped, the place the call is at, its locals, and
the blocks held.

- `AllTidy`: in every bucket the list is `Sound`, `largest` bounds it, and `first` is
  one of its pebbles or NULL.
- `Joined`: free pebbles lie side by side only where this call of `mfree` has still to
  merge them (`AtJoint`).
- `Knows`: what a call has seen is still so: the pebble found still fits, the new bucket
  still has room, the bucket about to be given back has nothing in use.
- `Claimed`: the blocks of the callers and what the call has in hand (`Claims`) are in
  use, are all different, and are as large, as aligned and of the kind asked for.
- `Linkage`: the buckets, but for one that is not yet in the list or no longer in it, are
  linked both ways; between the two writes of `remove_bucket` one link is
  wrong, and `HalfLinked` says which.
- `Occupied`: a bucket that may be given back holds something, or the call in it has
  still to use it or to unmap it.

None can be left out: that a merge touches no block needs `Claimed`, that a
bucket which is unmapped holds no block needs `Knows`, and `Knows` at that place comes
from `AllTidy` and `Linkage` (a list whose first pebble is free and alone is all there is).

For what leaks, `Owners` are the pebbles that a call or a caller has, and `Orphans` those in
use without an owner. A step hands every pebble on, but for the one that `mfree`
marks as free (`HandsStep`, `HandsCall`), and puts none to use but the one that
kmalloc keeps (`UsedSteps`). So the orphans only grow in `ShrinkSplit` (`OneLeaks`), where
the tail keeps IN_USE; `OneNoOrphan` is about behaviours without a `ReallocShrink`.

**All buckets, any number of threads.** `BucketMutex` is about the lock of every bucket. Its
invariant, `BucketLocks`, says that a thread in a critical section of a bucket that is
mapped has its lock, and is alone in it. A bucket may be unmapped under such a thread
(BugRemoveRace); its next step is then `Wild`. What must not be is that the same pages become a
bucket again, with a lock that is free, while the thread still is in there: `CreateBucket` takes no
pages that are `Referenced`. This is the one thing assumed of `mmap`, and what is
proved of all buckets with several threads rests on it.

One at a time, threads still come into a bucket with what they have read before: an offset of a
pebble that was merged since, in a list that is new. Every write that is not
aligned survives that. To cut off a
tail, to mark, and to merge with the next pebble or into the one before each leave a
list that fills its bucket as one that fills it, whichever of its pebbles they are
applied to, and a thread whose offset is no pebble goes no further (`Wild`). So with
`Unaligned` (no member of `FlagSets` has ALIGNED, as in HeapRaces and
HeapThreads) a single predicate of a record is enough: `Plain`, that is a list that is `Sound`
and `Capped` by `largest`,
`Tiled` (each pebble ends where the next begins, the last where the bucket does) and
`NoneAligned`. `UnalignedInv` says it of all buckets, and that no call in progress and no
block held has asked for alignment (`PlainCalls`): `realloc` passes on no ALIGNED, since it
takes the flags of the pebble for those of a call. Of `first` it says nothing: in a new bucket it
is stored from a link that was loaded earlier, without the lock (530), so that it may
name a header that has been absorbed in between. HeapRaces checks with two threads and small numbers of blocks that
it does not. An aligned split has no such
freedom. It relies on room that `place_pebble` has seen, and its dummy pebble leaves bytes to nobody even when the room is
there. `Offsets` and `LowKnown` are what `TypeOK` needs besides: they need only lists that are
well formed, so with one thread they follow from its invariant, for every alignment.

**The registry.** `RegistryMutex` needs only that every call passes "lock" to
"unlock" or "halt" by taking the lock when it was free (`WorkTakesLock`).

The other theorems suppose `PlainPaths`: no name of a path is, in its first dword, a
signature. It is needed (BugHiveName), and TLC evaluates it on the paths of the passing
runs (`PathsArePlain`). The registry is one
block of memory and what a call does to it depends on walks over streams of any
length. The provers have no induction over data, so it is done by hand: a set of
numbers that has 0 and with each its successor has them all (`SetInduction`, from the
well-foundedness of <), applied to sets that are written out.

1. A walk is a recursive function over positions, that is, a CHOOSE of a function that
   satisfies an equation. `EndWalkExists` and `ItemWalkExists` give one, built from the first
   place where the walk should stop; `EndWalkStops` and `ItemWalkStops` say
   that every function that satisfies it stops there.
2. `Nested(m, d)` gives every token of the stream a depth: what the tags open and close agrees
   with the depths, a hive has its name, with its depth, behind it. In such a stream the
   walk to the end of a hive stops at its own tag (`EndTagFound`) and the walk to an
   item at an item of that hive (`ItemFound`), or there is none.
3. What a call puts in, a cell or an empty hive, begins and ends at one depth, and
   so does what it takes out: the stream that is left is nested (`SpliceNested`)
   and its words are the old ones, less what went, and what came (`SpliceWords`).
4. A write goes down a path, with a hive reached at each name (`WriteState`, by
   induction over the path in `AddHivesSound`), replaces a cell there and restores the
   reserve. `RegistryInv` adds to this what threads have called, since a path a call has
   brought along is one of `Paths`.

Depths are then counted as `StreamNested` counts them (`DepthBetween`).

That it is a tree of values takes names as well.

5. `Pathed(m, d, p)` gives every token, besides its depth, the path that is open there. An
   item then is an entry: its signature, its path, its value. `Distinct`
   says that no two items have one signature and one path, and `Stands(m, E)` that E
   is the set of entries of `m`. A path that is looked up leads to the item of its entry, and
   to nothing if there is none (`FindInEntry`, `FindInStands`).
6. What a call puts in adds one entry and what it takes out takes away one, or a hive's with
   all behind its path (`InsertTree`, `RemoveTree`). So a write makes `Written` of the
   entries, and a remove `Removed` (`WriteStands`, `RemoveStands`). `TreeInv` is `RegistryInv`
   and that the registry stands for some entries. `NamesUnique` counts hives and
   cells, so `TreeCounts` shows that distinct entries are as many as their items.
7. `TreeOf`, the refinement mapping, is one more fold over the stream; `TreeOfStands` shows
   that it gathers the hives and the cells of the entries (`Shows`). Each step is then an
   operation of `AbstractRegistry` on them, or changes nothing of what callers see
   (`StepIsAbstract`). `CallsInv` adds that a read which waits for the lock is for
   a path and a buffer that a caller may bring (`ReadAssumption`: a number has bytes). `registry_read` compares the type
   with what it finds and copies no more than the caller's length, on both sides of the mapping.

A remove that has read `kernel_reg` before a write moved the registry works in freed memory
(`RemoveStale`), and its answer is about another tree: `RegistryImplementsAbstract` is about behaviours
without such a step, as BugStaleRemove shows it must be. With one thread there is none, since
nobody can move the registry between the two (`RemoveHereStep`), so
`OneThreadImplementsAbstract` has no condition on removes. `RegistryRemoveTrue` says the same of each
remove by itself: if its base still is the registry when it has the lock, it tells the truth, whatever other
removes have done.

**The xHCI reader.** Nothing in the code tells the producer where the consumer is.
What saves it is arithmetic: a port is visited at most once in each of the two
passes, and a visit sends at most three commands (`Room`). So 6n + 1 TRBs are
never used up, the link TRB is never reached, and no TRB is ever used again.
The program's place bounds the controller's (`Device`), for what is behind it has no
cycle bit (`Order`). And that no TRB is used again makes late completions
harmless: the TRB that an event names still is the command it was about
(`Agreed`). With `CMND_RING_TRBS` = 128 and 16 ports this is 97 < 128.

**The loader's heap.** `Listed` is `LoaderListWhole` said in links: each block's
`next` is where it ends, links have counterparts, blocks are in order. One lemma each for
marking, splitting and the two merges shows that `Listed` is kept and that nothing
else in use has moved (`Keeps`); `malloc`, `mfree` and both halves of
`mrealloc` are combinations of these. For the refinement, `LoaderInv` says that the
blocks held are in use, at least as large as asked for, and are different; blocks in order
do not overlap, and each step is an `Allocate`, a `Free`, a `Resize` or a stutter. `LoaderTypes`
needs of `mrealloc` besides that the block it frees later is one of its caller's (`CallsTyped`).

A read is reported as done when the program finds its status dword not zero. Who
wrote it? Each transfer has its dword in memory that `heap_alloc` has just given out, and `HeapAllocSound`
puts that behind all that was given out before: so no transfer still under
way, of any port and from before any time-out, names the new dword (`Fresh`). And the
status stage is behind the data stage on the ring of its endpoint, which the
controller does in order, so that a dword that says "ok" comes after the data
(`Current`). After a time-out the older transfer may still be done: it writes to
a dword nobody polls.

`XhciOneOfPair` is first about the pairing: `Offset` grows by one from port
to port of a version, so that the companion of a port is one port and that port's
companion is the first again. Then `Handed` says of a pair at which of its ports the
loops are, and that the USB2 port is made active only by a reset of the USB3 port that
failed. `PairAssumption` is needed (section 6). What the capabilities say of the pairs is
`XhciSockets`. `XhciTypes` adds that the companion of a port is a port (`Named`); that the index
stays on the ring is `Room` again.

**The player.** Without auto-init each chunk is a fresh one (`Single`): the bytes in
the buffer are the chunk read last, what was heard ends before it, and the
interrupt on its way is this chunk's. With auto-init (`AutoInit`) the card goes
round; `Due(i)` is the unit of the file that should be at place i when the card gets there next,
and `Filled` says that all up to `fpos` are. The half that is filled next is the one
that plays (`Ahead`) or, when the interrupt has come, the other (`Behind`): a prompt
program is never more than a block away. At the end the block
that plays is the last one that was read in full (`Ending`). `PlayInv` is inductive
as it stands; TLC checked it with blocks of 1 and 3 units. `PlayerTypes` claims nothing of the
order and so needs no prompt program: what is transferred is not empty and not more than the
buffer, and the card's place is within what it was given (`SoundTyped`).

**The keyboard.** `NoStuckModifier` says something of moments at which no byte is on its
way, and is far from inductive. `KeyInv` says of every moment that the bytes on their way
(`Pending`: in the ring, in the controller, in the keyboard), read one after another by an
automaton, lead to modifiers whose keys are down (`Settling`). `Reads` is one step of that
automaton and `Leads` the steps over a stream, as a run of states and not as a recursive
function, so that no induction is needed: a byte read takes the first state off the run
(`LeadsFromFirst`), a key pressed puts a run behind it (`LeadsOn`, `KeyLeads`), and
handing a byte on from one place to the next leaves `Pending` as it is, even where the ring goes
round (`RingGrows`, `RingShrinks`). While a lock key is handled, the interrupt is masked and the
acknowledgements, which are no part of `Pending`, come in their places (`Conversation`);
one that is met anywhere else, or a byte taken for one, makes `lost` true. That the table names
each key once (`KeysDiffer`) makes the automaton deterministic. The keys of a user
are keys of the tables (`KeyboardAssumption`).

`KeyboardTypes` holds whatever was lost: the key that is handled while the interrupt is masked is
a lock (`Typed`), and the types of the ring are the part of `KeyInv` that has no condition (`Types`).

TLC checked `KeyInv` with the automaton as a recursive function, a ring of 4, six keys and
4 presses, before it was proved.

**The mouse.** Bytes of a packet are handled, wait in the register, or have not been
sent; when they still add up to 3 none was lost, and the next comes to a decoder that has
understood those before it (`Progress`), since the first byte of a packet is told by
its bit 6 whatever state the decoder is in. `Formats` and `Meaning` are the
arithmetic: 8 bits packed as 2 and 6 and read as two's complement. `MouseTypes` is of all bytes,
of whole packets or not: `cur_byte` is bounded by the bytes sent, which `PacketsAssumption` makes
a number, and a movement is put together only of low bits that come after the first byte
that left the high ones (`Left`, `Held`).

What is only model-checked, and why:

- liveness and fairness, and with them `UtilityEnds`, `KeysArrive`, `LocksReleased`:
  out of the prover's reach.
- The image editor, whose chains and tree are recursive operators (`RECURSIVE`, in `FatImage`):
  `FilesIntact` and `SpaceAccounted`.
- The heap's properties of the blocks in all buckets with several threads: they are false of
  buckets that can be given back. With one thread they are proved; with several, `HeapInOrder`
  is what is left of them, and is proved.
- `TilesExactly` and the lists of all buckets with several threads that ask for alignment, of which the
  first is false (section 6). `UnalignedTiles` and `UnalignedLists` are what is proved.
- `MachineTypeOK` as a whole: five of its parts are the theorems `XhciTypes`, `LoaderTypes`,
  `PlayerTypes`, `KeyboardTypes` and `MouseTypes`, each of the utility's own specification; the sixth is the image
  editor's.

## 5. What is not modelled

Of the heap: contents of memory, the debug names and magic numbers, the best-fit
strategy (no bucket is created with it), alignments above a page (offsets in
a bucket do not show them), memory limits other than `mmap` failing. Of the
registry: `free_registry`, which nobody calls, `dump_registry`, which
prints, `realloc` that returns NULL, the arithmetic of CRC-32.

Of the xHCI reader: finding, stopping and resetting the controller, legacy
support, contents of contexts and descriptors, speeds. Of the player: detection
of the card, the header of a WAV file, the choice of a rate, the 16-bit
interrupt of version 4. Of the keyboard: start-up, set 3, the option that prints
codes, Print Screen and Pause, whose sequences fit no table, and the end of `scan_buffer` and
`break_buffer`: they have 16 bytes and no check (`ps2key.c` 384, 397, 413), where the
model has a sequence without a limit. As long as no byte is lost `scan_buffer` is the beginning of a
key's codes, and short. Of the mouse: detection
and the two kinds of mice that have no code. Of the loader's heap: printing, and
the BIOS's memory map.

Of the image editor's FAT page: formatting and checking, "Delete/Zero", the dialog that
changes an entry, copying to the host, names (a live name has no first byte with the
high bit), the widths of FAT entries, and a crash of the host between the writes of folders and of the FATs.
The user inserts at a folder itself and not at its "." or "..".

The other parts and the reason for each are in `PROJECT.json`. They are most of the
repository's lines: dialogs and pages that show and edit on-disk structures,
sequences of port I/O that detect and print, format and check programs that
write a file from front to back, drawing, firmware calls in a fixed order. They
have no state that outlives a call and is touched twice in an order that matters,
or they have all their logic in formats and layouts.

## 6. What was found

Each has a run that TLC ends with a counterexample.

- **BugHang.** `kmalloc` sets `bucket->first = ret->next`, NULL when it hands out
  the last pebble. `place_pebble` ends when it is back at `bucket->first`: never
  then, and the lock stays taken. The checks of the caller do not help, since
  `largest` never shrinks.
- **BugRemoveRace.** `mfree` unlocks, then looks whether the bucket is empty, then
  unmaps it. A `kmalloc` in between puts a block into memory that is unmapped.
- **BugLostWrite.** A write to a path that names nothing, or to "/System" itself, stores
  nothing and returns the length; the comment above the function says that it returns 0 if
  unsuccessful (registry.c 550).
- **BugRegistryRoom.** The reserve is for one cell; a write under new hives needs
  more and calls `abort()`.
- **BugHiveName.** A hive named HIVE: the walk to its end takes its name for an end
  tag, and a cell written to it lands between its tag and its name.
- **BugStaleRemove.** `registry_remove` reads `kernel_reg` before it locks, and
  may look in freed memory.

Seen while modelling, modelled as the code is, without a run of their own:

- *Kernel heap.* `mfree` uses `bucket->first` without a test for NULL (`Wild`); the tail
  cut off by a shrink keeps IN_USE and is never used again, so `NoOrphan` is checked
  without realloc only; a shrink to a size that is not rounded may leave a pebble of
  no bytes; `mfree` reads the pebble's parent after the unlock (608), and
  `bucket_update_largest(bucket, 0)` walks the list without the lock (615), when another thread may have
  absorbed the header they are at; an aligned split can leave 64 or 128 bytes to nobody, so `TilesExactly`
  is checked without alignment only.
- *Registry.* The checksum is stale after the registry has grown
  (`ChecksumStaleBySizeOnly` says that it is stale in no other way);
  `registry_write_exist` returns 0 always; a hive and a cell of one name may live
  side by side, if the cell came first; a path deeper than the limit is cut off in
  silence.
- *xHCI reader.* A USB3 port without power returns early (819) and its companion
  is never tried; `OneOfPair` claims it only for ports that could not be reset.
  `heap_alloc` compares with the absolute address of the next boundary.
  A port without a companion has `other_port_num` 0. When the reset of a USB3 port
  without one fails, port 0 is made active for it (870), also when that is a USB2
  port whose own USB3 companion works; the comment above says that the other
  port is known to be the USB2 one (866). `PairAssumption` excludes such a layout. A completion
  that is not a success marks nothing (1280), so a failed command costs the whole
  time-out. `exit(-1)` leaves the interrupt hooked (490). Outside the model: a speed
  that is none of the four leaves `max_packet` unset.
- *Player.* In auto-init mode the last block, when short, is not played, and a file
  shorter than the buffer is repeated (a TODO at 675 says so). On version 4 cards line 718 goes
  on without an acknowledgement of a 16-bit interrupt.
- *Keyboard.* The LEDs are lit at the start while `key_flags` is 0 (`LedsFollow`
  is about their changes); to release one shift key clears the flags of both;
  `keyboard_read` takes a scan code that waits for the acknowledgement. When a byte in the middle of
  a key's codes is lost, nothing in the tables matches any more: each byte that comes is
  added to `scan_buffer`, in the model as in the code, and after 16 of them the code writes behind its end.
  The run has too few keys for that.
- *Mouse.* `cur_byte` is incremented also for a byte that is ignored (462).
- *Loader heap.* Merging with the last block writes through a NULL `next`
  (`vector2`); the tail that `mrealloc` cuts off is not merged with a free successor.
- *FAT page.* For an empty file `cnt - 1` in `AllocateFAT` is 0xFFFFFFFF (1449). To delete a label
  frees entry 0 of the FAT. "." and ".." can be deleted, and free the chain of the
  folder or of the one above, on FAT32 the root's (2425 protects only the root's own
  item). "Directory is full" leaves the clusters allocated. `InsertFolder` does not
  update `m_free_clusters`. The last cluster is never used and the last two are not
  counted. `OnFatOptimize` takes the root's size for every folder: it reads behind a
  smaller one's buffer, and may leave the entries of a larger one behind a zero
  slot, where `ParseDir` does not see them. With "Show Deleted" on (927) a deleted entry is an item like
  any other; to delete it once more, or a folder it is in, frees the chain that begins at the cluster it once had
  (2454; the line that would have cleared it, 2460, is commented out), whosever that is now. `FilesIntact` and
  `SpaceAccounted` would be false after that: such a delete is modelled, and marks the volume as `spoiled`. Outside the model: `AllocateRoot` takes a live
  short name whose first byte is 0x80 or above for a free slot (1549).

## 7. Plan

Done: the kernel heap and the registry with their threads; the utilities that drive
a device, the loader's heap, and the image editor's FAT page; the proofs of section 4.

What is left, in this order:

1. The Lean page of the image editor (extents, bitmaps, a count of links) and a
   form of `FatImage` without recursion, to prove about: each chain as a set of
   edges with one owner.
2. The 16-bit path of the player, and Print Screen and Pause, with
   `scan_buffer` as an array of 16 bytes.
3. The stack of mouse pointers of the GUI demo, with the nesting of its events.
4. A crash of the host in the middle of an insertion, with the order of the writes to the image.
