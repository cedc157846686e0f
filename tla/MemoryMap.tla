----------------------------- MODULE MemoryMap ------------------------------
(***************************************************************************)
(* The map of physical memory of the Rust kernel (struct MemoryMap of      *)
(* kernel/memory/src/memory_map.rs): the memory that was described, with   *)
(* its status, and the zones it forms whatever its status.  A call is one  *)
(* step.  Both parts are updated by every add and reserve, and either      *)
(* update may be refused alone.                                            *)
(***************************************************************************)
EXTENDS MemoryRanges

CONSTANTS
  Limit,      \* addresses are 0 .. Limit - 1
  Aligns,     \* the alignments callers ask for
  MaxSize,    \* and the largest size
  NoMemory    \* no entry in the map

(* A size is a u64, and no address is so high that aligning it wraps.      *)
ASSUME MapAssumption ==
  /\ Limit \in Nat
  /\ Word \in Nat
  /\ Limit < Word
  /\ MaxSize \in Nat /\ MaxSize < Word
  /\ Aligns \subseteq Nat \ {0}
  /\ \A align \in Aligns : Limit + align <= Word

Addresses == 0 .. Limit - 1
Bounds == 0 .. Limit

(* The windows callers allocate in; one that is empty stands for all.      *)
Windows == {w \in Bounds \X Bounds : w[1] < w[2]} \cup {<<0, 0>>}

VARIABLES
  failed,     \* some call has returned an error
  panicked,   \* an overflow check stopped the program
  blocks      \* <<address, size>> of what was allocated

mapVars == <<memory, zones, failed, panicked, blocks>>

-----------------------------------------------------------------------------
MapInit ==
  /\ memory = <<>>
  /\ zones = <<>>
  /\ failed = FALSE
  /\ panicked = FALSE
  /\ blocks = {}

(* add_memory (st is Free) and reserve_memory (st is Reserved): the error  *)
(* of one update does not keep the other one from being made.              *)
DescribeAs(b, e, t, st) ==
  LET mem == MemoryRange(b, e, t, st)
  IN  /\ ~ panicked
      /\ UpdateBoth(mem)
      /\ failed' = (failed \/ ~ BothAccept(mem))
      /\ UNCHANGED <<panicked, blocks>>

AddMemory(b, e, t) == DescribeAs(b, e, t, "Free")
ReserveMemory(b, e, t) == DescribeAs(b, e, t, "Reserved")

-----------------------------------------------------------------------------
(* allocate_in_range.  An empty request, and one whose end wraps around,   *)
(* reserves nothing: what is returned then is no block.                    *)
HasRoom(b, e, size, align) == Rooms(memory, b, e, size, align) # {}

Take(b, e, size, align) ==
  LET found == Found(memory, b, e, size, align)
  IN  /\ memory' = AddTo(memory, found)
      /\ blocks' = IF IsEmptyRange(found) THEN blocks
                   ELSE blocks \cup {<<found.start, size>>}
      /\ UNCHANGED <<zones, failed, panicked>>

(* allocate_with_hint: the hint, else everything; allocate has no hint.    *)
Allocate(b, e, size, align) ==
  /\ ~ panicked
  /\ \/ HasRoom(b, e, size, align) /\ Take(b, e, size, align)
     \/ /\ ~ HasRoom(b, e, size, align)
        /\ HasRoom(0, Word - 1, size, align)
        /\ Take(0, Word - 1, size, align)

(* Neither has room: None.                                                 *)
AllocateFails(b, e, size, align) ==
  /\ ~ panicked
  /\ ~ HasRoom(b, e, size, align)
  /\ ~ HasRoom(0, Word - 1, size, align)
  /\ UNCHANGED mapVars

(* The tests' build checks for overflows.                                  *)
AllocatePanics(b, e, size, align) ==
  /\ ~ panicked
  /\ \/ Overflows(memory, b, e, size, align)
     \/ ~ HasRoom(b, e, size, align) /\ Overflows(memory, 0, Word - 1, size, align)
  /\ panicked' = TRUE
  /\ UNCHANGED <<memory, zones, failed, blocks>>

MapPanicked == panicked /\ UNCHANGED mapVars

-----------------------------------------------------------------------------
MapNext ==
  \/ \E b, e \in Bounds, t \in MemoryTypes :
       b <= e /\ (AddMemory(b, e, t) \/ ReserveMemory(b, e, t))
  \/ \E w \in Windows, size \in 0 .. MaxSize, align \in Aligns :
       \/ Allocate(w[1], w[2], size, align)
       \/ AllocateFails(w[1], w[2], size, align)
       \/ AllocatePanics(w[1], w[2], size, align)
  \/ MapPanicked

MapSpec == MapInit /\ [][MapNext]_mapVars
-----------------------------------------------------------------------------
Ranges(statuses) ==
  [start : Bounds, end : Bounds, memtype : MemoryTypes, status : statuses]

MapTypeOK ==
  /\ memory \in Seq(Ranges({"Free", "Reserved"}))
  /\ zones \in Seq(Ranges({"Unknown"}))
  /\ failed \in BOOLEAN
  /\ panicked \in BOOLEAN
  /\ blocks \subseteq Addresses \X (1 .. MaxSize)

(* equal_range needs it, and allocation relies on it: whatever was added,  *)
(* cut and refused, the ranges are ranges of addresses and sorted, none is *)
(* empty, no two overlap and no two neighbours could be one.  The zones    *)
(* have no status.                                                         *)
Canonical(s) ==
  /\ \A i \in DOMAIN s : ~ IsEmptyRange(s[i])
  /\ \A i \in 1 .. Len(s) - 1 :
       /\ s[i].end <= s[i + 1].start
       /\ ~ CanConcat(s[i], s[i + 1])

MapsCanonical == MapTypeOK /\ Canonical(memory) /\ Canonical(zones)

(* The two parts are updated separately and agree: as long as no call has  *)
(* failed, the zones of a type cover the memory of that type, free and     *)
(* reserved.                                                               *)
ZonesCoverMemory ==
  ~ failed => \A t \in MemoryTypes : UnitsOfType(zones, t) = UnitsOfType(memory, t)

(* Allocation in a window fails only when no aligned run of free regular   *)
(* memory of that size is left in it: looking at each range alone, at its  *)
(* first aligned address, is enough.  And the map does not refuse to       *)
(* reserve what was found in it, on which allocate_in_range would panic.   *)
Unused(a, size) == Units(a, a + size) \subseteq UnitsAs(memory, "Regular", "Free")

AllocationComplete ==
  \A align \in Aligns, size \in 1 .. MaxSize, b, e \in Bounds :
    LET fits == {a \in b .. e - size : a % align = 0 /\ Unused(a, size)}
    IN  /\ fits # {} => HasRoom(b, e, size, align)
        /\ HasRoom(b, e, size, align) => Accepts(memory, Found(memory, b, e, size, align))

(* The map does what the book promises for every address by itself.        *)
EntryOf(u) ==
  LET S == {i \in DOMAIN memory : u \in Units(memory[i].start, memory[i].end)}
  IN  IF S = {} THEN NoMemory
      ELSE LET r == memory[CHOOSE i \in S : TRUE] IN <<r.memtype, r.status>>

Abstract == INSTANCE MemoryBook
              WITH book <- [u \in Addresses |-> EntryOf(u)], held <- blocks

ImplementsBook == Abstract!BookSpec
=============================================================================
