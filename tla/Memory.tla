------------------------------- MODULE Memory -------------------------------
(***************************************************************************)
(* How the Rust kernel comes by its page allocator, and how the allocator  *)
(* uses its zones (kernel/kernel/src/setup.rs and struct Memory of         *)
(* kernel/memory/src/lib.rs): describe the memory of the device tree, keep *)
(* what is reserved, place the zone table and the page arrays in free      *)
(* memory, give the zones their free pages, hand over the bootstrap heap,  *)
(* and from then on allocate and free blocks of pages.                     *)
(*                                                                         *)
(* It composes the ranges of MemoryRanges with one zone per range; a zone  *)
(* is the set of its available pages, which is what BuddySystem is shown   *)
(* to implement.  A step is one call on the map or on one zone.            *)
(***************************************************************************)
EXTENDS MemoryRanges

CONSTANTS
  PageSize,      \* Memory::page_size
  PageBytes,     \* the size of struct Page
  ZoneBytes,     \* the size of struct Zone
  MaxOrder,      \* the largest order callers ask for
  Size,          \* Size[o] = 2^o, the pages of a block of order o
  MaxHeld,       \* bound: blocks callers hold at a time
  Inputs         \* what the device tree and the bootstrap code may say

Top == Word - PageSize

ASSUME MemoryAssumption ==
  /\ Word \in Nat
  /\ PageSize \in Nat \ {0} /\ PageSize <= Word
  /\ PageBytes \in Nat \ {0}
  /\ ZoneBytes \in Nat \ {0}
  /\ MaxOrder \in Nat
  /\ MaxHeld \in Nat
  /\ Size \in [0 .. MaxOrder -> Nat]
  /\ Size[0] = 1
  /\ \A o \in 0 .. MaxOrder - 1 : Size[o + 1] = 2 * Size[o]

UnitsIn(ranges) == UNION {Units(ranges[i][1], ranges[i][2]) : i \in DOMAIN ranges}

(* No range reaches into the last page of the address space, and the heap  *)
(* is memory that the bootstrap code reserves.                             *)
ASSUME InputAssumption ==
  \A in \in Inputs :
    /\ {in.nodes, in.reserved, in.boot} \subseteq Seq((0 .. Top) \X (0 .. Top))
    /\ in.heap \in (0 .. Top) \X (0 .. Top)
    /\ Units(in.heap[1], in.heap[2]) \subseteq UnitsIn(in.boot)

VARIABLES
  input,      \* nodes, reserved (by the device tree), boot (reserved), heap
  phase,      \* where from_devicetree is
  todo,       \* ranges of the input that are not in the map yet
  table,      \* the zones created: their pages, from start to end - 1
  tables,     \* units of the zone table and the page arrays
  avail,      \* avail[i]: the pages available in zone i
  left,       \* pages of the heap that are not handed over yet
  held        \* blocks <<first page, order>> that callers hold

(* memory is malloc's once the map is cloned; zones stays the map's.       *)
map == <<todo, memory, zones>>
vars == <<input, phase, map, table, tables, avail, left, held>>

Everything == <<0, Word - 1>>

-----------------------------------------------------------------------------
As(status, ranges) ==
  [i \in DOMAIN ranges |-> MemoryRange(ranges[i][1], ranges[i][2], "Regular", status)]

PagesIn(b, e) == (AlignUp(b, PageSize) \div PageSize) .. (AlignDown(e, PageSize) \div PageSize) - 1

(* Mistake: the bootstrap code's own ranges are not reserved.              *)
CallsWithoutBoot(in) == As("Free", in.nodes) \o As("Reserved", in.reserved)

(* The calls of mmap_from_devicetree in their order.                       *)
Calls(in) ==
  As("Free", in.nodes) \o As("Reserved", in.reserved) \o As("Reserved", in.boot)

Init ==
  /\ input \in Inputs
  /\ phase = "describe"
  /\ todo = Calls(input)
  /\ memory = <<>>
  /\ zones = <<>>
  /\ table = <<>>
  /\ tables = {}
  /\ avail = <<>>
  /\ left = PagesIn(input.heap[1], input.heap[2])
  /\ held = {}

(* One add_memory or reserve_memory; its error is unwrapped.               *)
Describe ==
  /\ phase = "describe"
  /\ todo # <<>>
  /\ BothAccept(Head(todo))
  /\ UpdateBoth(Head(todo))
  /\ todo' = Tail(todo)
  /\ UNCHANGED <<input, phase, table, tables, avail, left, held>>

Described ==
  /\ phase = "describe"
  /\ todo = <<>>
  /\ phase' = "table"
  /\ UNCHANGED <<input, map, table, tables, avail, left, held>>

-----------------------------------------------------------------------------
(* Mistake: only the hint is searched.                                     *)
FirstWindowOnly(w, size) == w

(* allocate_with_hint on malloc, the clone of the map: the block found in  *)
(* the window, or else anywhere; none without room.                        *)
Fits(w, size) == Rooms(memory, w[1], w[2], size, PageSize) # {}
FirstWindow(w, size) == IF Fits(w, size) THEN w ELSE Everything
FoundIn(w, size) == {Found(memory, v[1], v[2], size, PageSize) :
                       v \in {u \in {FirstWindow(w, size)} : Fits(u, size)}}

(* Mistake: the memory is taken from the map and not from its clone, and   *)
(* stays free in the one the pages come from.                              *)
PlaceUnreserved(w, size) ==
  \E found \in FoundIn(w, size) :
    /\ tables' = tables \cup Units(found.start, found.end)
    /\ UNCHANGED memory

Place(w, size) ==
  \E found \in FoundIn(w, size) :
    /\ memory' = AddTo(memory, found)
    /\ tables' = tables \cup Units(found.start, found.end)

(* create_zones: the table first.                                          *)
CreateTable ==
  /\ phase = "table"
  /\ Place(Everything, Len(zones) * ZoneBytes)
  /\ phase' = "zones"
  /\ UNCHANGED <<input, todo, zones, table, avail, left, held>>

Start(i) == AlignUp(zones[i].start, PageSize)
End(i) == AlignDown(zones[i].end, PageSize)
PagesOf(i) == (End(i) - Start(i)) \div PageSize
Creating == Len(table) + 1

(* One zone: create_pages and Zone::new.                                   *)
CreateZone ==
  LET i == Creating
  IN  /\ phase = "zones"
      /\ i \in DOMAIN zones
      /\ Start(i) <= End(i)
      /\ Place(<<Start(i), End(i)>>, PagesOf(i) * PageBytes)
      /\ table' = Append(table, [start |-> Start(i) \div PageSize,
                                 end |-> Start(i) \div PageSize + PagesOf(i)])
      /\ avail' = Append(avail, {})
      /\ UNCHANGED <<input, phase, todo, zones, left, held>>

CreatedZones ==
  /\ phase = "zones"
  /\ Creating \notin DOMAIN zones
  /\ phase' = "release"
  /\ UNCHANGED <<input, map, table, tables, avail, left, held>>

(* No room for the table or for a page array, or a zone that lies inside   *)
(* one page: its size wraps around, or the overflow check fires.  All end  *)
(* in a panic.                                                             *)
CreatePanics ==
  /\ \/ phase = "table" /\ ~ Fits(Everything, Len(zones) * ZoneBytes)
     \/ /\ phase = "zones"
        /\ Creating \in DOMAIN zones
        /\ \/ Start(Creating) > End(Creating)
           \/ ~ Fits(FirstWindow(<<Start(Creating), End(Creating)>>,
                                    PagesOf(Creating) * PageBytes),
                        PagesOf(Creating) * PageBytes)
  /\ phase' = "panicked"
  /\ UNCHANGED <<input, map, table, tables, avail, left, held>>

-----------------------------------------------------------------------------
ZonePages(i) == table[i].start .. table[i].end - 1

(* Mistake: the last page of a range is left behind.                       *)
FreePagesShort(i) ==
  UNION {PagesIn(r.start, r.end - 1) :
           r \in FreeRanges(memory, table[i].start * PageSize, table[i].end * PageSize)}

(* The whole pages of the free ranges of a zone.                           *)
FreePages(i) ==
  UNION {PagesIn(r.start, r.end) :
           r \in FreeRanges(memory, table[i].start * PageSize, table[i].end * PageSize)}

(* Memory::new fills the zones: free_page_range of every free range.       *)
Release ==
  /\ phase = "release"
  /\ avail' = [i \in DOMAIN avail |-> FreePages(i)]
  /\ phase' = "heap"
  /\ UNCHANGED <<input, map, table, tables, left, held>>

ContainsPage(i, p) == p \in ZonePages(i)

(* Memory::free_pages of a block goes to the first zone that contains its  *)
(* first page.                                                             *)
Home(p) == FirstOr({i \in DOMAIN table : ContainsPage(i, p)}, 0)

(* The bootstrap heap, page by page.  A page that no zone contains would   *)
(* be a panic, and has no step here: the heap is among the reserved ranges,*)
(* and so inside a zone.                                                   *)
HandOver ==
  LET p == CHOOSE q \in left : \A r \in left : q <= r
  IN  /\ phase = "heap"
      /\ left # {}
      /\ Home(p) # 0
      /\ avail' = [avail EXCEPT ![Home(p)] = @ \cup {p}]
      /\ left' = left \ {p}
      /\ UNCHANGED <<input, phase, map, table, tables, held>>

HandedOver ==
  /\ phase = "heap"
  /\ left = {}
  /\ phase' = "run"
  /\ UNCHANGED <<input, map, table, tables, avail, left, held>>

-----------------------------------------------------------------------------
Block(p, o) == p .. p + Size[o] - 1
FreeBlocksOf(i, o) == {p \in avail[i] : p % Size[o] = 0 /\ Block(p, o) \subseteq avail[i]}

(* allocate_pages: the first zone that has a block.                        *)
AllocatePages(o) ==
  \E i \in DOMAIN avail :
    /\ phase = "run"
    /\ Cardinality(held) < MaxHeld
    /\ FreeBlocksOf(i, o) # {}
    /\ \A k \in 1 .. i - 1 : FreeBlocksOf(k, o) = {}
    /\ \E p \in FreeBlocksOf(i, o) :
         /\ avail' = [avail EXCEPT ![i] = @ \ Block(p, o)]
         /\ held' = held \cup {<<p, o>>}
    /\ UNCHANGED <<input, phase, map, table, tables, left>>

GiveBack(p, o) ==
  /\ phase = "run"
  /\ <<p, o>> \in held
  /\ avail' = [avail EXCEPT ![Home(p)] = @ \cup Block(p, o)]
  /\ held' = held \ {<<p, o>>}
  /\ UNCHANGED <<input, phase, map, table, tables, left>>

Panicked == phase = "panicked" /\ UNCHANGED vars
Running == phase = "run" /\ UNCHANGED vars

-----------------------------------------------------------------------------
Boot ==
  \/ Describe \/ Described
  \/ CreateTable \/ CreateZone \/ CreatedZones \/ CreatePanics
  \/ Release \/ HandOver \/ HandedOver

Next ==
  \/ Boot
  \/ \E o \in 0 .. MaxOrder : AllocatePages(o)
  \/ \E b \in held : GiveBack(b[1], b[2])
  \/ Panicked \/ Running

(* Boot runs alone on the one CPU: its next step is taken.                 *)
Spec == Init /\ [][Next]_vars /\ WF_vars(Boot)
-----------------------------------------------------------------------------
PageUnits(S) == UNION {Units(p * PageSize, (p + 1) * PageSize) : p \in S}
HeldPages == UNION {Block(b[1], b[2]) : b \in held}
AvailPages == UNION {avail[i] : i \in DOMAIN avail}

NodeUnits == UnitsIn(input.nodes)
ReservedUnits == UnitsIn(input.reserved) \cup UnitsIn(input.boot)
HeapPages == PagesIn(input.heap[1], input.heap[2])

(* A page the kernel hands out is memory of a node, or of the heap that    *)
(* was handed over; it is not reserved by the device tree or the bootstrap *)
(* code, and holds neither the zone table nor a page array.                *)
HandsOutOwnMemory ==
  \A p \in AvailPages \cup HeldPages :
    LET U == PageUnits({p})
    IN  /\ U \cap tables = {}
        /\ \/ U \subseteq NodeUnits \ ReservedUnits
           \/ p \in HeapPages \ left

TypeOK ==
  /\ phase \in {"describe", "table", "zones", "release", "heap", "run", "panicked"}
  /\ DOMAIN avail = DOMAIN table
  /\ \A i \in DOMAIN avail : avail[i] \subseteq ZonePages(i)
  /\ left \subseteq HeapPages
  /\ Cardinality(held) <= MaxHeld

(* Every page is given once, to the zone it lies in: no page is in two     *)
(* zones, one that is held is not available, and a page of the heap is not *)
(* available when it is handed over.                                       *)
ReleasedOnce ==
  /\ TypeOK
  /\ \A i, k \in DOMAIN table : i # k => ZonePages(i) \cap ZonePages(k) = {}
  /\ AvailPages \cap HeldPages = {}
  /\ (AvailPages \cup HeldPages) \cap left = {}
  /\ \A b, c \in held : b # c => Block(b[1], b[2]) \cap Block(c[1], c[2]) = {}

(* No page is lost: once boot is done, every whole page of free memory     *)
(* that no table lies in, and every whole page of the heap, is available   *)
(* or held.                                                                *)
Owned == {p \in 0 .. Word \div PageSize - 1 :
            PageUnits({p}) \subseteq NodeUnits \ (ReservedUnits \cup tables)}

NothingLost == phase = "run" => AvailPages \cup HeldPages = Owned \cup HeapPages

(* Boot ends.  Whatever nodes and reserved ranges overlap, each is         *)
(* accepted, because nodes are added first; and the kernel comes to run if *)
(* no zone lies inside one page and free memory has a run of pages for the *)
(* tables with one to spare.                                               *)
RoundUp(size) == AlignUp(size, PageSize)
Needed ==
  LET size[i \in 0 .. Len(zones)] ==
        IF i = 0 THEN RoundUp(Len(zones) * ZoneBytes) + PageSize
        ELSE size[i - 1] + RoundUp(Larger(PagesOf(i), 0) * PageBytes)
  IN  size[Len(zones)]

Sufficient ==
  /\ \A i \in DOMAIN zones : Start(i) <= End(i)
  /\ \E i \in DOMAIN memory :
       /\ memory[i].status = "Free"
       /\ AlignDown(memory[i].end, PageSize) - AlignUp(memory[i].start, PageSize) >= Needed

BootEnds == <>(phase \in {"run", "panicked"})

EnoughMemoryBoots == BootEnds /\ (phase = "table" /\ Sufficient ~> phase = "run")
=============================================================================
