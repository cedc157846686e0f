# Verification of the aarch64 kernel's memory management

This directory holds TLA+ modules for the kernel in this repository, the TLC
configurations that check them, and proofs checked by TLAPS. The kernel is a
bare-metal AArch64 program: an entry in assembly, a boot sequence in C++ that
reads a device tree, builds a map of physical memory and sets up a page
allocator over it, an object cache and a heap on top; and a kernel in Rust under
`kernel/` with its own device tree parser, memory map, page allocator, serial
port and set-up. Sources are named below without the leading `src/`.

## 1. Inventory

Everything below runs on one CPU with interrupts masked
(`bootstrap/start.S:173-175`), and the exception vectors of
`bootstrap/interrupts.S` only return. No call is interrupted by another: what
is hard here is not concurrency but long sequences of legal calls, state kept
in two places that must agree, loops over state they change, full tables and
calls that fail half way.

| Component | State | Operations | Hard part | Correct when |
|---|---|---|---|---|
| Page zone (`memory/memory.cc`, class `Zone`) | free lists by order, flag and order of each page, count of available pages | `AllocatePages`, `FreePages`, `Split`, `Unite` | `Unite` unlinks a buddy on the evidence of a flag and an order that stay behind in pages of merged blocks; zones that do not begin on a block boundary | no page is in two blocks, an unlinked buddy was linked, free buddies are merged, the count is right |
| Zones, set-up (`CreateZone(s)`, `FreeMemory`, `FreeUnusedMemory`, `SetupAllocator`, `AllocatePhysical`, `FreePhysical`) | up to 32 zones | fill the zones from the memory map, find a zone for a request | ranges that touch, ranges in several zones, page 0, the 33rd zone | each FREE page is released to its zone once |
| Memory map (`memory/phys.cc`) | vector of at most 128 sorted ranges, FREE or RESERVED | `Register`, `Reserve`, `Release`, `AllocateIn`, `Allocate` | ranges are cut before it is known that the pieces fit; a loop in `SetStatus` that does not advance | ranges sorted and disjoint, nothing registered is forgotten, allocated memory stays reserved |
| Object cache (`memory/cache.cc`) | slabs in three lists, a freelist and a count per slab, three byte counters | `Allocate`, `Free`, `Reclaim`, destructor | a slab moves between lists by its count alone | every object is free or handed out once, slabs in the right list |
| Heap (`memory/alloc.cc`) | 32 caches, a metadata record before each block | `Allocate`, `Reallocate`, `Free` | sizes that leave out the metadata | a block is at least as large as asked |
| Page tables (`memory/space.cc`) | - | - | not built | - |
| Intrusive lists (`common/intrusive_list.*`) | links | link, unlink, splice, pop | splice of empty lists, self links | a list is the sequence it stands for |
| Vectors (`common/fixed_vector.h`, `common/vector.h`, `common/allocator.h`) | size, capacity, storage | insert, erase, grow | capacity, growth that moves | contents survive growth |
| Device tree (`fdt/`) | a position in a blob | read tokens, properties, skip nodes | nesting, truncated blobs | the walk ends and stays inside the blob |
| Boot sequence (`bootstrap/main.cc`, `bootstrap/memory.cc`) | memory map, zones | find the blob, register, reserve, set up, self tests | order of the phases, a panic between them | memory in use is never handed to the allocator |
| Entry, exceptions (`bootstrap/*.S`) | exception level, masks | drop to EL2, clear .bss, relocate | two ways to reach `in_el2` | EL2, MMU off, masked |
| Serial port and log (`bootstrap/pl011.cc`, `common/stream.cc`, `common/logging.cc`) | device registers | configure, send | polling | a byte is sent only when the device is ready |
| C and C++ runtime (`c/`, `cc/`) | - | relocation, constructors, `optional`, algorithms | - | - |
| Rust zone (`kernel/memory`: `buddy.rs`, `page.rs`, `list.rs`, `Zone`) | free lists by level, through the pages; level and free bit of each page | `allocate_pages`, `free_pages`, `free_pages_at_level`, `free_page_range` | the merge believes the words of pages inside larger blocks; it names the list to remove from on their evidence | as the page zone; every removal names the right list |
| Rust intrusive list (`kernel/intrusive`) | `next`, `prev`, `head`, `tail` | `push`, `pop`, `remove` | a link does not say which list it is in | lists are sequences |
| Rust memory map (`memory_map.rs`) | two sorted vectors of ranges: memory with status, zones | `add_memory`, `reserve_memory`, `allocate*` | cut, replace and join; two parts updated by one call that may each refuse; wrap-around | both parts canonical and in agreement; each address as it was told |
| Rust `Memory` and set-up (`kernel/memory/src/lib.rs`, `setup.rs`) | map, zone table, page arrays, heap range | describe, place tables, release, hand over, `allocate_pages`, `free_pages` | order of the phases; memory taken from a clone of the map; rounding to pages | each free page is given to one zone once, no page in use is |
| Rust device tree (`kernel/devicetree`) | scanner, open nodes, tree | scan, parse header, reserved block and nodes, look up | unchecked offsets, duplicate names, cells inherited while a node is built | the tree is what the text says; nothing is half read |
| Rust serial port and log (`kernel/pl011`, `kernel/log`) | device registers | `new`, `reset`, `send`, `log` | order of stores, waits without limit | no character lost; configured at rest |
| Rust arithmetic (`kernel/numeric`) | - | `lsb`, `msb`, `ilog2`, `align_*` | off by one | the highest and the lowest bit |
| Rust locks, runtime, interrupts | - | - | the lock excludes nobody | - |

How they interact: the boot sequence registers memory nodes and reserves the
modules in the memory map; `SetupAllocator` makes one zone per run of touching
ranges, takes the array of `struct Page` from the same map (`AllocateIn`), and
releases what is still FREE to the zones; caches, heap and vectors take blocks
with `AllocatePhysical`. The Rust set-up does the same in one pass: `parse` reads
the blob, `mmap_from_devicetree` describes nodes and reserved ranges to the map,
`Memory::new` places the zone table and the page arrays in a clone of it and
releases what the clone has free, `from_devicetree` then hands over the pages of
the bootstrap heap one by one. A mistake in the map becomes memory that the zones
hand out while it is in use, which is why map and zone are modelled first.

## 2. Modules

| Module | Models | State and actions |
|---|---|---|
| `Buddy` | page arithmetic of `memory.h`/`memory.cc` | a block is `<<first page, order>>`, page numbers are absolute as in `Zone::PageOffset`; `BuddyOffset` flips bit `o` of the page number; `Size[o]` is 2^o, a function given as a constant so that the proofs need no exponentiation; `Inside`, `Apart`, `Within`, `Maximal` say how blocks lie |
| `PageAllocator` | what a zone promises | pages waiting, available or in a held block; `Release`, `Take`, `Give` |
| `Zone` | class `Zone` and the loop `FreeMemory` | `free`, `order`, `isFree`, `available` are the fields of the code; `call` holds the locals of the loop in progress. `AllocatePages` pops a block and starts a call, `SplitStep` is one iteration and `SplitDone` the end of `Split`; `FreePages` and `FreeMemoryStep` start, `UniteStep` iterates and `UniteDone` ends `Unite`. `usable` and `owned` are history: what boot has yet to release, what callers hold |
| `MCZone` | - | the powers of two for TLC |
| `ListLemmas` | - | lemmas about lists without repetitions, about multiples, and the least-number principle |
| `BuddyLemmas` | - | lemmas about blocks, whatever keeps their lists: what releasing, taking, cutting, settling and merging one does to all |
| `ZoneProofs` | - | theorems about `Zone` |
| `PhysMap` | class `MemoryMap` | `ranges` is the vector. A call is one step; each of its outcomes (true, false, never returns) is an action or a disjunct of one. `stopped` says that a call did not return, or returned false to a caller that panics; `registered`, `blocks`, `short` are history |
| `ObjectPool` | what a cache promises | slots of memory, objects in use |
| `Cache` | class `Cache` with `Slab` and `Allocator` | lists, freelists and counters of the code; `memory` is what `AllocatePhysical` can still return, which others take and return too |
| `PhysMapProofs`, `CacheProofs` | - | theorems about `PhysMap` and `Cache` |
| `MemoryRanges` | the functions of `memory_map.rs` on a sorted vector | operators: bounds, `Accepts`, `AddTo` (cut, replace, `Compact`), `Rooms` and `Found` of the search, `Overflows` of a build that checks for it |
| `MemoryMap` | Rust `struct MemoryMap` | `memory` and `zones`; `DescribeAs` is `add_memory` and `reserve_memory`, which update both; `Allocate`, `AllocateFails`, `AllocatePanics` |
| `MemoryBook` | what the map promises | for each address by itself what was said of it, and the blocks held |
| `IntrusiveList` | Rust `IntrusiveList` | operators on the links: `PushLink`, `PopLink`, `RemoveLink`, a store at a time as `Store` |
| `NodeLists` | what a list promises | a sequence of nodes per list |
| `BuddySystem`, `MCBuddySystem` | Rust zone | as `Zone`, but the free lists are `IntrusiveList`s through the pages, and `page` is the packed word (level, free). `FreePageRange` and its step are the loop of `Zone::free_page_range`, `HandOver` the pages of the bootstrap heap |
| `BuddySystemProofs` | - | theorems about `BuddySystem` and its `IntrusiveList` |
| `Numeric` | `lsb`, `msb`, `ilog2` halving by halving, and the order computed from them | compared in `MCBuddySystem` with what they are to find: assumptions TLC evaluates |
| `Memory`, `MCMemory` | `Memory` and `from_devicetree` | `phase` says how far set-up is; `Describe`, `CreateTable`, `CreateZone`, `Release`, `HandOver`, then `AllocatePages` and `GiveBack`. A zone is the set of its available pages, the abstraction `BuddySystem` is shown to implement |
| `Scanner`, `MCScanner` | `Scanner` | what each call reads at an offset, as operators; the run calls them in any order |
| `Fdt` | `parse`, `parse_header`, `parse_reserved` | one action per check, entry or slice; unit is the cell of four bytes |
| `FdtNodes`, `MCFdtNodes` | `parse_nodes`, `State`, `DeviceTreeNode` | one token per step; `parents`, `current` of the code; the text is kept as history |
| `MemoryNodes`, `MCMemoryNodes` | `mmap_from_devicetree` on top of `Fdt` | extends `Fdt`; what `parse_nodes` returns is chosen from all small trees; then the two loops over children and entries of `reg` |
| `PL011`, `MCPL011` | driver, `SerialSink::log` and the device | one store or wait per step beside `Load` and `ShiftOut` of the device, which is external and modelled as the driver uses it |
| `MemoryProofs` | - | theorems about `MemoryMap` and `Memory` |
| `DeviceProofs` | - | theorems about `Scanner`, `PL011`, `MemoryNodes` with `Fdt`, and `FdtNodes` |

Definitions whose comment begins with *Mistake* are variants of the definition
after them, each with one slip a programmer could make. They are used by no
specification: each property is checked to fail when one of them takes the
place of its original.

Why steps of this size. A call of a zone is modelled one loop iteration at a
time, because the correctness of `Unite` (`free_pages_at_level`) rests on what
holds between two iterations; `PhysMap`, `Cache` and `MemoryMap` are one step per
call, since a call's intermediate states are visible to nobody. Set-up is one
step per call it makes, the parser one step per token or entry, the serial port
one step per store, since the device runs meanwhile.

How the modules compose. `BuddySystem` instantiates `IntrusiveList` with pages
as nodes and levels as lists, and `PageAllocator` as its promise. `Memory`
extends `MemoryRanges`, which `MemoryMap` checks call by call, and uses zones as
`PageAllocator` promises them. `Fdt` and `MemoryNodes` call `Scanner`'s
operators, and end with the calls that are `Memory`'s input.

The loop at `memory/phys.cc:95` needs a word. It stores the new status through
`it` and advances `to`, so by the text it never ends; the store does not depend
on the iteration, and a compiler that may assume that loops end (the Makefile
says `-Ofast`) keeps one store and goes on. Both outcomes are in the model
(`StoresFirst`, `Loops`), and every property of the passing run holds under
both.

## 3. Runs

| Run | Bounds | Shows |
|---|---|---|
| `zone` (`MCZone.cfg`) | pages 3..9, orders 0..2, every subset of usable pages | `Disjoint`, `UnlinkSafe`, `NoFreeBuddies`, `Coalesced`; `Zone` implements `PageAllocator`; every call returns |
| `zone_invariant` (`MCZoneInv.cfg`) | pages 0..7, orders 0..3 | the inductive invariant of the proofs, where loops go three deep |
| `phys_map` (`PhysMap.cfg`) | 5 addresses, 3 ranges, pages of 2 addresses | order, coverage, allocated memory, what a call changes and what a failed one loses, compaction, completeness of allocation |
| `phys_map_reserve` (`PhysMapReserve.cfg`) | the same | a violation: `Reserve` returns true and leaves memory FREE |
| `cache` (`Cache.cfg`) | 3 slabs of 3 objects | lists, objects, counters, no panic; `Cache` implements `ObjectPool` |
| `memory_map` (`MemoryMap.cfg`) | 4 addresses, numbers wrap at 8, alignments 1 and 2, sizes to 5 | both parts canonical and in agreement; allocation complete; `MemoryMap` implements `MemoryBook` |
| `buddy_system` (`MCBuddySystem.cfg`) | pages 3..9, levels 0..2, every split of the pages into usable, heap and other | removals and pushes safe, blocks sound, allocation complete; implements `PageAllocator` and, through the links, `NodeLists`; every call returns |
| `memory_boot` (`MCMemory.cfg`) | pages of 4 units, three layouts of nodes, one reserved range and one of the bootstrap code at chosen points on and off page borders, heaps inside it | what is handed out, once each, nothing lost; boot ends, and in a running kernel if there is room |
| `memory_nodes` (`MCMemoryNodes.cfg`) | blobs of 3 or 10 to 22 cells, trees of up to two children, `reg` of up to 8 cells, up to 3 cells a number | what is described; what panics; that it ends |
| `scanner` (`MCScanner.cfg`) | every string of up to 5 bytes, 4 reads | what is read and skipped is the data; padding at its end is refused |
| `fdt_nodes` (`MCFdtNodes.cfg`) | every text of up to 9 tokens with 3 nodes, 2 properties | which texts are accepted, and which tree they give |
| `pl011` (`MCPL011.cfg`) | any state left by firmware, FIFO of 2, two of five messages | ready, at rest, nothing lost, calls return |

Why the bounds are enough. Pages 3..9 put one page below a block of order 2 and
half a block above it, so buddies exist inside the zone, across its borders and
wholly outside; a block of the largest order can be built, split in both ways,
and its pages keep stale flags; a list can hold three pages, so that one is
removed from its middle and from its end. Pages 0..7 hold one block of order 3.
Five addresses and three ranges are the least that let a window cut a head and a
tail off one range, overlap two, run out of room at either cut (the real vector
has 128 ranges) and let alignment skip an address. Three slabs of three objects
let an empty, a used and a full slab exist together, and a slab go from partial
to partial. Four addresses of the Rust map hold four ranges, so a new one can cut
two and swallow two; sizes above four and numbers of three bits make sums wrap.
The points of `memory_boot` put reserved ranges over nodes, across their ends,
between them and inside one page, and leave some inputs with too little room for
the tables. Eight cells of `reg` hold two entries of four cells or eight of one,
and every remainder. Nine tokens hold three nodes with their ends and two
properties, so twins, nested nodes and cells said before, between and after
children occur.

Properties worth a remark:

- `UnlinkSafe`: `Unite` decides from `flags` and `order` alone. The flag is
  never cleared in a page that becomes the inside of a block, so the decision
  is right only because of what else is true (section 4).
- `Coalesced`: between calls the free blocks are the maximal aligned ones in
  the free pages, so the lists do not depend on history.
- `AllocatedReserved` holds although `SetStatus` may store one status only: an
  allocation lies in one range, and after the cuts that range is the window.
- `RemoveSafe` and `BlocksSound` are to `BuddySystem` what `UnlinkSafe` and
  `Disjoint` are to `Zone`: `remove` is unsafe in Rust because a node does not
  know its list, and the list is named from the word of a page that may be
  stale. `ImplementsLists` says that the links then are what they should be; a
  tail that `remove` forgets to move would go unnoticed by the zone's callers,
  and is caught by `RemoveSafe`, which contains that lists are well linked.
- `ImplementsBook` and `ZonesCoverMemory`: `add_memory` is `a.and(b)` of two
  updates that are both made. When one is refused the other stays; the parts
  agree only while no call has failed.
- `HandsOutOwnMemory` and `ReleasedOnce` need one assumption about the
  bootstrap code, which is in C and not in the repository: its heap lies in a
  range it reserves. `InputAssumption` says so.
- `NothingLost` counts a page that no zone has and no caller holds as lost: every
  page of free memory is in a zone, available or held, whatever sizes the
  inputs have.
- `EnoughMemoryBoots` is a sufficient condition: a zone that lies inside one
  page, or no run of pages for all tables, may end in a panic, and either is
  reached in the run.
- `PanicsOnBadInput` and `EndsUnlessEndless`: set-up unwraps what the parser
  and the scanner return. A blob whose header puts its blocks inside its own
  total size and whose `reg`s divide into entries never panics; with both cells
  zero and a byte of `reg` the loop at `kernel/kernel/src/setup.rs:20` does not
  end.
- `TreeIsText` compares the tree with what the text says, told without a stack:
  which node a token lies in, which twin is the last, which cells were said
  before a node began.
- `CallsReturn` of `PL011` excludes one state that firmware may leave: the port
  disabled with characters in it stays busy, and `new` waits for ever.
- `LeavesCanonical` is about non-empty windows. An empty module splits a range
  in two which stay apart; so do memory nodes that touch, until a later call
  compacts. `AllocationComplete` is therefore stated for maps in which no two
  neighbours could be one.
- `StatusFrame` says what a call does to addresses. Where `SetStatus` returns
  true or hangs, nothing outside its window changes, no address enters or leaves
  the map, and what changes takes the status asked for; a window that one range
  alone overlaps takes it whole, as a missing store there would break. A window
  over several ranges may keep the old status in all but one: that is the
  finding below. Where `SetStatus` returns false, the head or the tail of one
  range beyond the window is lost (`memory/phys.cc:74` and `:89`), exactly that
  piece, and the window itself is as it was.
- `CoverKept`: a full vector makes `SetStatus` return false after it has shrunk
  a range. The boot code panics after `Reserve`, but `CreateZone` goes on after
  `AllocateIn`, with a piece of memory in no range: `StatusFrame` says which.

Fairness. `Zone` and `BuddySystem`: weak fairness of `Step`, the iterations of
the call in progress, since one CPU runs a call to its end with interrupts
masked. `Memory` (`Boot`) and `MemoryNodes` (`SetupStep`): set-up runs alone on that
CPU. `PL011`: weak fairness of `Transmission`, since the line goes on sending,
and of the driver's own steps. Nothing is assumed about what callers do.

Finding. `phys_map_reserve`: register two ranges that touch, reserve a window
over both; `Reserve` returns true and the second range is FREE. The boot
sequence announces "Reserve used memory in the memory map..."
(`bootstrap/main.cc:222`) and goes on to hand FREE memory to the zones.

## 4. Proofs

Everything below is checked by TLAPS for every value of the constants that the
named assumptions of the modules allow. A theorem that states a property of a
run is named beside it.

| Module | Theorems |
|---|---|
| `ZoneProofs` | `ZoneInvariant` (`ZoneInv`), `TypeCorrect` (`TypeOK`), `BlocksDisjoint` (`Disjoint`), `UnlinkIsSafe` (`UnlinkSafe`), `BuddiesMerge` (`NoFreeBuddies`), `FreeBlocksAreMaximal` (`Coalesced`), `ZoneImplementsPages` (`ImplementsPages`) |
| `BuddySystemProofs` | `BuddyInvariant` (`BuddyInv`), `RemoveIsSafe` (`RemoveSafe`), `BlocksAreSound` (`BlocksSound`), `AllocationIsComplete` (`AllocationComplete`), `SystemImplementsPages` (`ImplementsPages`), `SystemImplementsLists` (`ImplementsLists`) |
| `PhysMapProofs` | `MapInvariant` (`MapInv`), `RangesAreOrdered` (`Ordered`), `MemoryIsKept` (`CoverKept`), `AllocationsAreReserved` (`AllocatedReserved`), `AllocationIsComplete` (`AllocationComplete`), `CallsKeepTheirWindow` (`StatusFrame`), `CallsLeaveCanonical` (`LeavesCanonical`) |
| `CacheProofs` | `CacheInvariant` (`CacheInv`), `SlabsAreFiled` (`SlabsFiled`), `ObjectsHandedOutOnce` (`ObjectsOnce`), `CacheImplementsPool` (`ImplementsPool`) |
| `MemoryProofs`, of `MemoryMap` | `RustMapInvariant` (`MapInv`), `MapsStayCanonical` (`MapsCanonical`), `ZonesAndMemoryAgree` (`ZonesCoverMemory`), `MapAllocationIsComplete` (`AllocationComplete`), `MapImplementsBook` (`ImplementsBook`) |
| `MemoryProofs`, of `Memory` | `BootInvariant` (`MemInv`), `PagesAreOwnMemory` (`HandsOutOwnMemory`), `NoPageIsLost` (`NothingLost`), `PagesAreReleasedOnce` (`ReleasedOnce`), `HeapIsInZones` (every page of the bootstrap heap that is handed over has a zone) |
| `DeviceProofs`, of `Scanner` and `PL011` | `ReadsAreWhole` (`ReadsWhole`); `DriverInvariant` (`DriverInv`), `DeviceIsReady` (`ReadyToSend`), `LineCarriesText` (`WireIsText`), `StoredAtRest` (`ConfiguredAtRest`) |
| `DeviceProofs`, of `MemoryNodes` | `SetupInvariant` (`SetupInv`), `PanicsAreDeserved` (`PanicsOnBadInput`), `DescriptionIsWhole` (`DescribedWhole`) |
| `DeviceProofs`, of `FdtNodes` | `TreeInvariant` (`RunInv`), `AcceptsExactlyTheWhole` (`AcceptsExactly`), `TreeIsTheText` (`TreeIsText`) |

`ListLemmas` and `BuddyLemmas` hold what these have in common.

### Assumptions

- `ZoneAssumption`, `SizeAssumption` (`Buddy`): position, number of pages and
  number of orders are natural numbers, and `Size` doubles from 1.
- `MapAssumption` (`PhysMap`): the vector has room for one range at least, a page
  is not empty.
- `CacheAssumption`: finitely many slabs, at least two objects in each; the layout
  of a cache makes room for 32.
- `MapAssumption` (`MemoryMap`): addresses and sizes are numbers of the word, and
  no address is so high that rounding it up to an alignment callers ask for wraps
  around. Physical addresses have 48 bits or 52 and alignments are those of pages
  and small structures. Nothing of this is assumed of sums of an address and a
  size, which may wrap. It was the proof that asked for it: a start that wraps
  around when it is rounded up becomes 0, and the block found there need not be
  free.
- `MemoryAssumption`: pages, `struct Page` and `struct Zone` are not empty, and
  `Size` doubles from 1.
- `InputAssumption`: no range of the device tree or the bootstrap code reaches
  into the last page of the address space, and the heap is in a range that the
  bootstrap code reserves. There is no bound on the number of ranges, and they
  may overlap, touch, be empty or end before they begin.
- `PL011Assumption`: clock and rate are such that the u32 arithmetic of
  `calculate_divisors` does not wrap and the whole part of the divisor fits its
  16-bit register; messages and what the firmware left are sequences of
  characters.
- `ScannerAssumption`: a cell is not empty, data are sequences of bytes.
- `BlobAssumption` (`Fdt`): blobs are sequences of numbers, of any length and
  content.
- `TreeAssumption` (`MemoryNodes`): a cell is not empty; a tree has any sequence of
  children, memory node or not, with a `reg` of any number of bytes or none, and
  two cell numbers.
- `FdtAssumption` (`FdtNodes`): the root's name is one of the names; a property is a
  name and a value, a number if it is one of the two cells properties. A cells
  property too short for a number is the token that panics.

### The page zone

`UnlinkSafe` is not inductive: nothing in it says why a page that looks free and
is not in a list is never met. `StaleFlags` says where such pages are: strictly
inside a larger block, with an order below that block's. If `Unite` met one as
the buddy of its block, that larger block would contain the block itself (two
aligned blocks are nested or apart, lemma `Nested`), against `Disjoint`. So the
buddy is the head of a free block, and `Heads` says which list it is in.
`AllInside` keeps blocks aligned and inside the zone, `Waiting` keeps pages that
boot has not released out of every block, `Locals` bounds the loop variables.
`NoFreeBuddies` then follows action by action: the only step that links a block
without having met its buddy is `SplitStep`, whose buddy is the block in progress.

`Coalesced` is about sets of pages and not about steps. Lemma `OneFreeBlock`: in a
set of blocks that are apart and among which no two are buddies, a block whose
pages are all covered lies in one of them; otherwise take such a block of the
least order: its halves lie in a block each, these are the halves themselves, and
they are buddies. `CoalescedBlocks` draws from it that the free blocks are the
maximal ones. The count of `available_` is followed through every step
(`CountedStep`).

The refinement maps `avail` to the pages of the free blocks and of the block in
progress. A page leaves `avail` when `Split` returns and comes back when
`FreePages` is called; all other steps are stutters because they cut a block in
halves or join two (`SplitStepCover`, `UniteStepCover`).

### The Rust buddy system

`BuddyInv` has the two layers of the code. `Threaded` says that the links spell
sequences of distinct pages, no page in two of them, linked both ways, and
`ThreadsPush`, `ThreadsPop`, `ThreadsRemove` that the three operations of the list
keep this, each shown store by store for the first page, the last, the only one
and one from the middle. That gives `RemoveSafe` and the refinement to `NodeLists`:
the links determine the lists (`ItemsFollow`), so after each call they are what one
operation on sequences makes of them. `SystemBlocks` says of the blocks what
`ZoneInv` says of the zone's; `BuddyLemmas` shows, apart from lists and links, that
releasing, taking, cutting, settling and merging a block keep it. In it `Stale` says
where words lie that are not true any more. Two things differ from C++: `Waiting`
must also say that an unreleased page has the word of a new one, since
`free_pages` reads the level of the bootstrap heap's pages, which no call has
written (`HandOver`); and `NoPairs` is part of the invariant, because
`AllocationComplete` is claimed of every state between calls and follows from it
by `OneFreeBlock`. TLC checked `BuddyInv` on the instance of `MCBuddySystem`
before it was proved.

### The physical memory map

`AllocatedReserved` is not inductive. It says that an allocated block is in no
FREE range; a block in no range at all would satisfy it, and `Register` could then
cover that memory again as FREE. `Backed` says that the block lies in RESERVED
ranges as long as no call has stopped. With it `MapInv` is inductive. The proof
follows `SetStatus` through its cuts (`CutKeeps`), its single store and `Compact`,
which is a recursive function over the vector: it is shown to keep order and
cover by looking at the first index where it would not. `FindIn` answers with a
window in one range, and this is why an allocation survives the loop that stores
one status only.

`CallsKeepTheirWindow` needs only `Ordered`. `StatusEffect` tells for each address
what the cuts and the store do to it (`Effect`, and `Fills` where one range overlaps
the window); `SetStatusFailsKeeps` shows that a cut without room leaves the map
`Without` the piece it was to insert, and the same besides.

### The object cache

`SlabsFiled` and `ObjectsOnce` need each other and `Unowned`: a slab that the cache
does not have counts nothing, so one that comes back starts from an empty slab.
The cardinalities behind the counters are followed through every action.
`ObjectPool` sees slots and objects in use; `Reclaim` and the destructor give back
exactly the slabs with no object in use because `free` is exactly those.

### The Rust memory map

`MapInv` says of both vectors that they are sorted, that no range is empty and no
two neighbours could be one (`Tidy`), and that both know the same addresses with
the same types as long as no call failed. `Tidy` is inductive for `AddTo` alone,
and `AddTo` is proved in the order of the code: where the bounds fall, what the
cuts leave (`Before` and `After`), what the vector is with the new range between
them, and what `Compact` does to it. `Compact` is a recursive function over the vector; it
keeps the addresses and leaves no two neighbours that could be one, which is
shown at the first index of the pass where it would not. All lemmas
about it say what a vector holds (`Holds(s, u, t, st)`: address `u` lies in a
range of type `t` and status `st`), since no caller sees more. Then `AddTo` is one
line: the new range holds its addresses and the rest is as it was.

`MapAllocationIsComplete` goes from addresses to ranges: a run of free addresses
that is long enough lies in one range, since between two neighbours that touch
there would have to be one that was not compacted (`RunInOneRange`). Free
addresses of a `Tidy` map are therefore found by a search that looks at one range
at a time. The refinement takes the map address by address: what `MemoryBook`
says of an address is what `memory` holds of it. The steps that are stutters of
the book are those of calls that are refused.

### The page allocator of the Rust kernel

None of `ReleasedOnce`, `HandsOutOwnMemory` and `NothingLost` is inductive: each
says something of the pages in zones, but where these come from is decided in the
first phase of boot, by calls that have long returned. `MemInv` carries it through
the phases:

- `MapPart`. While the map is described, it holds what the calls made so far say
  (`IsTelling`); afterwards what is in the description and
  in no table (`IsDescribed`). The step between them is where a property of the
  input becomes one of the map.
- `TablePart`. Zone `i` of the table has the pages that lie whole in range `i` of
  the map (`IsZone`): rounding inwards keeps two zones apart although their ranges
  may touch inside a page.
- `PagePart`. Until pages are released all is untouched; then every free page is
  with its zone or with one caller, and nobody has another (`IsShared`:
  `InOwnZone`, `InOneHand`, `AllGiven`).

Tables come from the clone of the map that the free pages come from as well; that
each is free there and reserved before the next is placed is what keeps tables
apart from each other and from all pages. The pages
of the heap come in last. They are reserved, so no zone released them, and they
lie in memory, so each has a zone: `HeapIsInZones` says that the panic of
`HandOver` cannot happen.

### Serial port and scanner

`DriverInv` says, line by line of the driver, what the registers hold
(`Registers`), and that what is on the line, in the device and still pending make
the text (`Progress`), with the newline between its carriage return and itself.
The firmware's state is arbitrary. `DivisorNearest` shows that the divisor is the
nearest there is. `ReadsWhole` is inductive as it stands, for calls that are
`Sound`: an error moves nothing, a string is whole, padding has something behind it.

### Set-up from the device tree

`DescribedWhole` speaks of the end and `PanicsOnBadInput` of the blob alone; what
joins them is why every check before has passed. `SetupInv` says it in two parts.
`ParserPart`: after each check of the header what it checked is true, the ranges
read so far are the entries at their places (`EntriesRead`), none of them the
terminator, and past the block there is one (`Terminated`). An offset or a length
that the scanner or a slice refuses is then one that contradicts the header
(`~ GoodBlob`). `WalkPart`: the loop over children has passed nodes whose `reg`
divides into entries and no other, and `added` is what these and the bytes already
read of the `reg` in hand hold (`AddedIs`). `AddedIs` fails in one case, which the
proof found and the invariant names: with both cell numbers zero an entry has no
bytes, the loop does not advance, and it adds an entry at the same place again and
again. That is the loop that `EndsUnlessEndless` excludes. That the cursor lies
between entries (`Cut`) needs lemmas about multiples, which are in `ListLemmas`.

### The device tree

The parser keeps a stack and a node in progress, and each later token replaces
them; the properties say of the finished text which node a token lies in and which
twin was the last. The two meet in three steps.

- `RunInv`: the state is what a run over the text builds. A run gives for each
  prefix of the text the places of the open nodes (`opened`), the pairs of
  `State::parents` (`around`) and the node in progress (`nodes`), each made from
  the one before by one token (`TokenStep`). It is inductive as it stands and says
  nothing yet of the text.
- The stack is a count. `Nested`, `Paired` and `Counted` show along a run that the
  open nodes are those with more beginnings than ends since, innermost last.
  `AcceptsExactly` follows: the stack is empty at the end exactly if beginnings and
  ends pair up, and the outermost node has a child named "" exactly if one was
  closed there.
- The node in progress is what the text says. `Describes` says of every prefix that
  the node has what was said of it so far (`Said`), and below it, each at its path
  (`Rel`) and as the whole text has it (`Final`), the nodes that no later twin, of
  them or of a node around them, has replaced (`Kept`), and nothing else. A
  property changes `Said` alone; an end puts the node into the one around it and
  takes away what was there under its name, which is how a twin replaces a node
  with all below it; a beginning takes the cells said so far. That `Describes` holds
  of every prefix is shown at the first one where it would not.

At the end the nodes kept below the root are those present in the text, their paths
from the outermost node are the text's paths with the root's name before them, and
following a path reaches what the tree has there (`FollowLeads`).

### What stays with TLC

- Liveness: `CallsReturn` of `Zone`, `BuddySystem` and `PL011`, `EnoughMemoryBoots`,
  `EndsUnlessEndless`. TLAPS proves nothing about ENABLED, on which fairness rests.
- What `lsb`, `msb` and `ilog2` compute: arithmetic on bits, compared with its
  definition over bounded inputs.
- `ReserveReserves`, which is false.

## 5. What the models leave out

- Addresses do not wrap around: `addr + size` in `FindIn` is a hazard no
  property covers.
- `available_` is not set by the constructor of `Zone`; it is 0 because the
  zones lie in `.bss`, and `Init` says 0.
- `Register` is given non-empty memory nodes. Two empty ones at one address
  would make its two searches cross.
- A client that frees what it does not hold, or frees twice, breaks the
  contract; of these only the case `Cache::Free` refuses is an action.
- One cache only: the check of a slab's owner is not modelled.
- Sums of a device tree address and a size do not wrap around in `Memory` and
  `MemoryNodes`: `addr + size` at `kernel/devicetree/src/fdt.rs:91` and
  `kernel/kernel/src/setup.rs:24` is a hazard no property covers. In `MemoryMap`
  sums do wrap.
- The numbers of properties and of reserved ranges are kept by the bytes they
  were read from, names and values as members of small sets.
- The lock of `kernel/sync` excludes nobody. `BuddySystem` models a call as
  running alone; with a second CPU it would not.
- The C functions behind `kernel/bootstrap` (blob, reserved ranges, heap, its
  allocator) are not in the repository; they are inputs of `Memory`. The PL011
  device is external too.
- `kernel/interrupt` and `kernel/runtime` keep no state; a panic is a state
  nothing leaves.
- Page tables (`memory/space.cc`) are not built. Formatting and logging change
  no state of interest.

## 6. Plan

1. `PhysMemory`: several C++ zones from one map (`CreateZones`,
   `FreeUnusedMemory`, `AllocatePhysical`, `FreePhysical`), as `Memory` does for
   Rust; page 0, the zone table's limit.
2. `Boot`: the phases of the C++ `kernel()` and its panics.
3. `Layout` and `Heap`: the slab layout arithmetic over bounded inputs, size
   classes, metadata, `Reallocate`.
4. The C++ lists by pointer (`IntrusiveList` is the Rust one), `Vector` and
   `PhysicalAllocator`, the C++ device tree scanner and serial port.
5. Entry and exception level drop.
