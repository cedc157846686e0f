---------------------------- MODULE MemoryRanges ----------------------------
(***************************************************************************)
(* Sequences of memory ranges, the two that make up the Rust memory map,   *)
(* and what is done to them (kernel/memory/src/memory_map.rs, its free     *)
(* functions and iterators). Addresses are u64 values; arithmetic on them  *)
(* wraps at Word.                                                          *)
(***************************************************************************)
EXTENDS Integers, FiniteSets, SequencesExt

CONSTANT Word       \* 2^64: the least value an address cannot have

VARIABLES           \* struct MemoryMap
  memory,           \* its ranges, free or reserved
  zones             \* the ranges whatever their status

MemoryTypes == {"Regular", "NonRegular"}
MemoryStatuses == {"Free", "Reserved", "Unknown"}

MemoryRange(b, e, t, st) == [start |-> b, end |-> e, memtype |-> t, status |-> st]

Units(b, e) == b .. e - 1
IsEmptyRange(r) == r.start >= r.end

UnitsOf(s, I) == UNION {Units(s[i].start, s[i].end) : i \in I}
UnitsAs(s, t, st) == UnitsOf(s, {i \in DOMAIN s : s[i].memtype = t /\ s[i].status = st})
UnitsOfType(s, t) == UnitsOf(s, {i \in DOMAIN s : s[i].memtype = t})

-----------------------------------------------------------------------------
Larger(x, y) == IF x >= y THEN x ELSE y
Smaller(x, y) == IF x <= y THEN x ELSE y

(* The window [b, e) and range r have these units in common, or none: then *)
(* the result is empty.                                                    *)
Overlap(r, b, e) == [r EXCEPT !.start = Larger(@, b), !.end = Smaller(@, e)]

CanConcat(l, r) ==
  /\ l.end = r.start
  /\ l.memtype = r.memtype
  /\ l.status = r.status

(* Mistake: neighbours are never joined.                                   *)
CompactOneApart(done, r) == Append(done, r)

(* compact, one range further: done is what the pass has written.          *)
CompactOne(done, r) ==
  IF done # <<>> /\ CanConcat(Last(done), r) THEN [done EXCEPT ![Len(done)].end = r.end]
  ELSE Append(done, r)

(* The pass, with what it has written after i ranges as a set of one.      *)
Compact(s) ==
  LET passed[i \in 0 .. Len(s)] ==
        IF i = 0 THEN {<<>>} ELSE {CompactOne(done, s[i]) : done \in passed[i - 1]}
  IN  CHOOSE done \in passed[Len(s)] : TRUE

FirstOr(S, default) == IF S = {} THEN default ELSE CHOOSE i \in S : \A j \in S : i <= j

(* equal_range: the ranges from LowerBound to UpperBound - 1 overlap the   *)
(* range mem.                                                              *)
LowerBound(s, mem) == FirstOr({i \in DOMAIN s : s[i].end > mem.start}, Len(s) + 1)
UpperBound(s, mem) ==
  FirstOr({i \in DOMAIN s : s[i].end > mem.start /\ s[i].start >= mem.end}, Len(s) + 1)
EqualRange(s, mem) == LowerBound(s, mem) .. UpperBound(s, mem) - 1

(* Mistake: only the first overlapping range is asked whether it is        *)
(* reserved.                                                               *)
ConflictsFirst(s, mem) ==
  \E i \in EqualRange(s, mem) :
    \/ s[i].memtype # mem.memtype
    \/ i = LowerBound(s, mem) /\ s[i].status = "Reserved" /\ mem.status = "Free"

(* The two errors of add_memory: the types of overlapping ranges differ,   *)
(* or reserved memory would become free.                                   *)
Conflicts(s, mem) ==
  \E i \in EqualRange(s, mem) :
    \/ s[i].memtype # mem.memtype
    \/ s[i].status = "Reserved" /\ mem.status = "Free"

Accepts(s, mem) == IsEmptyRange(mem) \/ ~ Conflicts(s, mem)

(* What is left of the overlapped ranges on both sides of mem; nothing is  *)
(* an empty range that compact joins with mem.                             *)
Before(s, mem) ==
  LET cut == {i \in EqualRange(s, mem) : s[i].start < mem.start}
  IN  IF cut = {} THEN [mem EXCEPT !.end = mem.start]
      ELSE [s[FirstOr(cut, 0)] EXCEPT !.end = mem.start]

After(s, mem) ==
  LET cut == {i \in EqualRange(s, mem) : s[i].end > mem.end}
  IN  IF cut = {} THEN [mem EXCEPT !.start = mem.end]
      ELSE [s[FirstOr(cut, 0)] EXCEPT !.start = mem.end]

(* The free function add_memory, when it returns Ok, and either way.       *)
Replaced(s, mem) ==
  Compact(SubSeq(s, 1, LowerBound(s, mem) - 1)
            \o <<Before(s, mem), mem, After(s, mem)>>
            \o SubSeq(s, UpperBound(s, mem), Len(s)))

AddTo(s, mem) ==
  IF Accepts(s, mem) /\ ~ IsEmptyRange(mem) THEN Replaced(s, mem) ELSE s

-----------------------------------------------------------------------------
(* MemoryMap::add_memory and reserve_memory: both parts are updated, and   *)
(* either may refuse.                                                      *)
ZoneOf(mem) == [mem EXCEPT !.status = "Unknown"]
BothAccept(mem) == Accepts(memory, mem) /\ Accepts(zones, ZoneOf(mem))

(* Mistake: reserved memory belongs to no zone.                            *)
UpdateZonesFree(mem) ==
  /\ memory' = AddTo(memory, mem)
  /\ zones' = IF mem.status = "Free" THEN AddTo(zones, ZoneOf(mem)) ELSE zones

UpdateBoth(mem) ==
  /\ memory' = AddTo(memory, mem)
  /\ zones' = AddTo(zones, ZoneOf(mem))

-----------------------------------------------------------------------------
(* FreeMemoryIter: the Free ranges, cut to the window, that it yields.     *)
FreeRanges(s, b, e) ==
  {Overlap(s[i], b, e) : i \in
     {j \in DOMAIN s : s[j].status = "Free" /\ ~ IsEmptyRange(Overlap(s[j], b, e))}}

Wrap(x) == x % Word
AlignDown(x, align) == (x \div align) * align
(* Mistake: an aligned address moves on.                                   *)
AlignPast(x, align) == AlignDown(Wrap(x + align), align)
AlignUp(x, align) == AlignDown(Wrap(x + align - 1), align)

(* find_free_memory_in_range: the ranges with room for size aligned bytes, *)
(* as a build without overflow checks finds them.                          *)
Rooms(s, b, e, size, align) ==
  {r \in FreeRanges(s, b, e) :
     /\ r.memtype = "Regular"
     /\ Wrap(AlignUp(r.start, align) + size) <= r.end}

LowestOf(S) == CHOOSE r \in S : \A q \in S : r.start <= q.start

(* The memory it returns, reserved.                                        *)
Found(s, b, e, size, align) ==
  LET r == LowestOf(Rooms(s, b, e, size, align))
      from == AlignUp(r.start, align)
  IN  MemoryRange(from, Wrap(from + size), r.memtype, "Reserved")

(* A build with overflow checks stops at a range it looks at before it has *)
(* found room.                                                             *)
Overflows(s, b, e, size, align) ==
  \E r \in FreeRanges(s, b, e) :
    /\ r.memtype = "Regular"
    /\ \A q \in Rooms(s, b, e, size, align) : r.start <= q.start
    /\ \/ r.start + align - 1 >= Word
       \/ AlignUp(r.start, align) + size >= Word
=============================================================================
