------------------------------ MODULE PhysMap -------------------------------
(***************************************************************************)
(* The map of physical memory the boot code builds (class MemoryMap of     *)
(* memory/phys.cc): a vector of address ranges, each FREE or RESERVED,     *)
(* sorted and of bounded length.  A call is one step: nothing runs between *)
(* two statements of it, and only what it leaves behind is visible.        *)
(*                                                                         *)
(* The loop of SetStatus that stores the new status advances its end and   *)
(* not its iterator, so it never stops on paper.  The store is invariant   *)
(* in it: a compiler that assumes loops end (-Ofast) keeps one store, to   *)
(* the first range; one that does not makes the call run for ever.  Both   *)
(* outcomes are modelled.                                                  *)
(***************************************************************************)
EXTENDS Integers, FiniteSets, SequencesExt

CONSTANTS
  Limit,      \* addresses are 0 .. Limit - 1
  Capacity,   \* ranges the vector has room for
  PageSize    \* the alignment of every allocation

ASSUME MapAssumption ==
  /\ Limit \in Nat
  /\ Capacity \in Nat \ {0}
  /\ PageSize \in Nat \ {0}

Units == 0 .. Limit - 1
Bounds == 0 .. Limit
Status == {"FREE", "RESERVED"}

VARIABLES
  ranges,      \* ranges_: the vector of struct MemoryRange
  stopped,     \* a call never returned, or its caller panics: it returned false
  short,       \* a call found the vector full after it had shrunk a range
  registered,  \* units of every range Register accepted
  blocks       \* <<address, size>> of the allocations not released since

vars == <<ranges, stopped, short, registered, blocks>>

-----------------------------------------------------------------------------
MemoryRange(b, e, status) == [begin |-> b, end |-> e, status |-> status]
Span(b, e) == b .. e - 1

Cover == UNION {Span(ranges[i].begin, ranges[i].end) : i \in DOMAIN ranges}
UnitsOf(status) ==
  UNION {Span(ranges[i].begin, ranges[i].end) :
           i \in {j \in DOMAIN ranges : ranges[j].status = status}}
FreeUnits == UnitsOf("FREE")

Full == Len(ranges) = Capacity

(* std::lower_bound and std::upper_bound: the ranges that overlap [b, e)   *)
(* are the ones from From(b) to To(e) - 1.                                 *)
FirstOr(S, default) == IF S = {} THEN default ELSE CHOOSE i \in S : \A j \in S : i <= j

From(b) == FirstOr({i \in DOMAIN ranges : ranges[i].end > b}, Len(ranges) + 1)
To(e) == FirstOr({i \in DOMAIN ranges : ranges[i].begin >= e}, Len(ranges) + 1)

(* Compact: one pass that joins neighbours and drops empty ranges.         *)
CanMerge(prev, next) == next.begin = prev.end /\ next.status = prev.status
IsEmptyRange(r) == r.begin = r.end

(* Mistake: drop empty ranges and join nothing.                            *)
CompactOneDrops(done, r) ==
  IF done # <<>> /\ IsEmptyRange(Last(done)) THEN [done EXCEPT ![Len(done)] = r]
  ELSE Append(done, r)

CompactOne(done, r) ==
  IF done = <<>> THEN <<r>>
  ELSE IF CanMerge(Last(done), r) THEN [done EXCEPT ![Len(done)].end = r.end]
  ELSE IF IsEmptyRange(Last(done)) THEN [done EXCEPT ![Len(done)] = r]
  ELSE Append(done, r)

Compact(s) ==
  LET done[i \in 0 .. Len(s)] ==
        IF i = 0 THEN <<>> ELSE CompactOne(done[i - 1], s[i])
      all == done[Len(s)]
  IN  IF all # <<>> /\ IsEmptyRange(Last(all)) THEN Front(all) ELSE all

(* Mistake: the second range still begins where the first one does.        *)
CutOverlaps(s, i, a) == InsertAt(s, i, [s[i] EXCEPT !.end = a])

(* Range i becomes two, the second one starting at a.                      *)
Cut(s, i, a) == InsertAt([s EXCEPT ![i].begin = a], i, [s[i] EXCEPT !.end = a])

-----------------------------------------------------------------------------
Init ==
  /\ ranges = <<>>
  /\ stopped = FALSE
  /\ short = FALSE
  /\ registered = {}
  /\ blocks = {}

(* Mistake: the joined range ends where the new one ends.                  *)
JoinedShort(b, e, status) ==
  MemoryRange(IF ranges[From(b)].begin < b THEN ranges[From(b)].begin ELSE b, e, status)

(* The range that replaces the ones [b, e) overlaps.                       *)
Joined(b, e, status) ==
  MemoryRange(
    IF ranges[From(b)].begin < b THEN ranges[From(b)].begin ELSE b,
    IF ranges[To(e) - 1].end > e THEN ranges[To(e) - 1].end ELSE e,
    status)

(* Register(b, e, status) returns true: a new range, or one joined with    *)
(* the ranges of its status it overlaps.  Only the second way compacts.    *)
Register(b, e, status) ==
  LET from == From(b)
      to == To(e)
      old == SubSeq(ranges, from, to - 1)
  IN  /\ ~ stopped
      /\ \/ /\ from = to
            /\ ~ Full
            /\ ranges' = InsertAt(ranges, from, MemoryRange(b, e, status))
         \/ /\ from # to
            /\ \A r \in ToSet(old) : r.status = status
            /\ ranges' = Compact(SubSeq(ranges, 1, from - 1) \o <<Joined(b, e, status)>>
                                   \o SubSeq(ranges, to, Len(ranges)))
      /\ registered' = registered \cup Span(b, e)
      /\ UNCHANGED <<stopped, short, blocks>>

(* It returns false and changes nothing; the boot code panics.             *)
RegisterFails(b, e, status) ==
  LET from == From(b)
      to == To(e)
  IN  /\ ~ stopped
      /\ IF from = to THEN Full
         ELSE \E r \in ToSet(SubSeq(ranges, from, to - 1)) : r.status # status
      /\ stopped' = TRUE
      /\ UNCHANGED <<ranges, short, registered, blocks>>

-----------------------------------------------------------------------------
(* SetStatus(b, e, status), outcome by outcome.                            *)
CutsHead(b) == ranges[From(b)].begin < b

(* Nothing overlaps [b, e): it returns true without compacting.            *)
Untouched(b, e) == From(b) = To(e)

(* No room for the head or for the tail: it returns false, and the piece   *)
(* that was to be inserted is in no range any more.                        *)
LosesHead(b, e) ==
  /\ CutsHead(b)
  /\ Full
  /\ ranges' = [ranges EXCEPT ![From(b)].begin = b]

HeadCut(b) == IF CutsHead(b) THEN Cut(ranges, From(b), b) ELSE ranges
Shift(b) == IF CutsHead(b) THEN 1 ELSE 0
CutsTail(b, e) == HeadCut(b)[To(e) + Shift(b) - 1].end > e

LosesTail(b, e) ==
  /\ ~ (CutsHead(b) /\ Full)
  /\ CutsTail(b, e)
  /\ Len(HeadCut(b)) = Capacity
  /\ ranges' = [HeadCut(b) EXCEPT ![To(e) + Shift(b) - 1].end = e]

(* Mistake: the tail keeps the status of the rest.                         *)
HeadCutOnly(b, e) == HeadCut(b)

BothCut(b, e) ==
  IF CutsTail(b, e) THEN Cut(HeadCut(b), To(e) + Shift(b) - 1, e) ELSE HeadCut(b)

HasRoom(b, e) ==
  /\ ~ (CutsHead(b) /\ Full)
  /\ ~ (CutsTail(b, e) /\ Len(HeadCut(b)) = Capacity)

(* It returns true: one store, to the first range, and a compaction.       *)
StoresFirst(b, e, status) ==
  /\ HasRoom(b, e)
  /\ ranges' = Compact([BothCut(b, e) EXCEPT ![From(b) + Shift(b)].status = status])

(* It never returns.                                                       *)
Loops(b, e, status) ==
  /\ HasRoom(b, e)
  /\ ranges' = [BothCut(b, e) EXCEPT ![From(b) + Shift(b)].status = status]

SetStatus(b, e, status) ==
  \/ /\ Untouched(b, e)
     /\ UNCHANGED <<ranges, stopped, short>>
  \/ /\ UNCHANGED <<stopped, short>>
     /\ ~ Untouched(b, e)
     /\ StoresFirst(b, e, status)

SetStatusFails(b, e) ==
  /\ short' = TRUE
  /\ ~ Untouched(b, e)
  /\ LosesHead(b, e) \/ LosesTail(b, e)

SetStatusHangs(b, e, status) ==
  /\ stopped' = TRUE
  /\ UNCHANGED short
  /\ ~ Untouched(b, e)
  /\ Loops(b, e, status)

-----------------------------------------------------------------------------
(* Reserve returns true.                                                   *)
Reserve(b, e) ==
  /\ ~ stopped
  /\ SetStatus(b, e, "RESERVED")
  /\ UNCHANGED <<registered, blocks>>

(* It returns false, and the boot code panics, or it never returns.        *)
ReserveFails(b, e) ==
  /\ ~ stopped
  /\ \/ SetStatusFails(b, e) /\ stopped' = TRUE
     \/ SetStatusHangs(b, e, "RESERVED")
  /\ UNCHANGED <<registered, blocks>>

(* Release is the client's word that nothing in [b, e) is in use.          *)
GiveUp(b, e) ==
  /\ blocks' = {a \in blocks : Span(a[1], a[1] + a[2]) \cap Span(b, e) = {}}
  /\ UNCHANGED registered

Release(b, e) ==
  /\ ~ stopped
  /\ SetStatus(b, e, "FREE")
  /\ GiveUp(b, e)

ReleaseFails(b, e) ==
  /\ ~ stopped
  /\ \/ SetStatusFails(b, e) /\ stopped' = TRUE
     \/ SetStatusHangs(b, e, "FREE")
  /\ GiveUp(b, e)

-----------------------------------------------------------------------------
(* FindIn: the ranges of the window with room for size aligned bytes.      *)
(* Mistake: an aligned address moves to the next page.                     *)
AlignPast(a) == (a \div PageSize + 1) * PageSize

AlignUp(a) == ((a + PageSize - 1) \div PageSize) * PageSize
Clamp(a, b, e) == IF a < b THEN b ELSE IF a > e THEN e ELSE a

AddressIn(r, b, e) == AlignUp(Clamp(r.begin, b, e))

(* Mistake: any range with room will do.                                   *)
RoomsReserved(b, e, size) ==
  {i \in From(b) .. To(e) - 1 :
     AddressIn(ranges[i], b, e) + size <= Clamp(ranges[i].end, b, e)}

Rooms(b, e, size) ==
  {i \in From(b) .. To(e) - 1 :
     /\ ranges[i].status = "FREE"
     /\ AddressIn(ranges[i], b, e) + size <= Clamp(ranges[i].end, b, e)}

FindIn(b, e, size) == AddressIn(ranges[FirstOr(Rooms(b, e, size), 1)], b, e)

(* AllocateIn, and Allocate, whose window is everything.                   *)
AllocateIn(b, e, size) ==
  LET addr == FindIn(b, e, size)
  IN  /\ ~ stopped
      /\ Rooms(b, e, size) # {}
      /\ SetStatus(addr, addr + size, "RESERVED")
      /\ blocks' = blocks \cup {<<addr, size>>}
      /\ UNCHANGED registered

(* Nothing fits, or Reserve fails or hangs.  CreateZone goes on after a    *)
(* failed AllocateIn: it tries Allocate.                                   *)
AllocateInFails(b, e, size) ==
  LET addr == FindIn(b, e, size)
  IN  /\ ~ stopped
      /\ \/ Rooms(b, e, size) = {} /\ UNCHANGED <<ranges, stopped, short>>
         \/ /\ Rooms(b, e, size) # {}
            /\ \/ SetStatusFails(addr, addr + size) /\ UNCHANGED stopped
               \/ SetStatusHangs(addr, addr + size, "RESERVED")
      /\ UNCHANGED <<registered, blocks>>

Stopped == stopped /\ UNCHANGED vars

-----------------------------------------------------------------------------
(* Register is given memory nodes of the device tree, none of them empty;  *)
(* Reserve may be given an empty module.                                   *)
Next ==
  \/ \E b, e \in Bounds :
       b < e /\ (Register(b, e, "FREE") \/ RegisterFails(b, e, "FREE"))
  \/ \E b, e \in Bounds : b <= e /\ (Reserve(b, e) \/ Release(b, e))
  \/ \E b, e \in Bounds : b <= e /\ (ReserveFails(b, e) \/ ReleaseFails(b, e))
  \/ \E b, e \in Bounds, size \in 1 .. Limit :
       b < e /\ (AllocateIn(b, e, size) \/ AllocateInFails(b, e, size))
  \/ Stopped

Spec == Init /\ [][Next]_vars
-----------------------------------------------------------------------------
TypeOK ==
  /\ ranges \in Seq([begin : Bounds, end : Bounds, status : Status])
  /\ Len(ranges) <= Capacity
  /\ stopped \in BOOLEAN
  /\ short \in BOOLEAN
  /\ registered \subseteq Units
  /\ blocks \subseteq Units \X (1 .. Limit)

(* The binary searches need it: the ranges fit the vector and are sorted,  *)
(* none is empty and no two overlap, whatever was cut, joined or lost.     *)
(* Only the last call, if it fails or never returns, leaves an empty one.  *)
Ordered ==
  /\ TypeOK
  /\ \A i \in DOMAIN ranges : ranges[i].begin < ranges[i].end \/ stopped
  /\ \A i, j \in DOMAIN ranges : i < j => ranges[i].end <= ranges[j].begin

(* The map covers what was registered and nothing else, until a call ran   *)
(* out of room half way; then it may only have forgotten some of it.       *)
CoverKept ==
  /\ Cover \subseteq registered
  /\ ~ short => Cover = registered

(* Memory that was allocated belongs to one allocation and is RESERVED     *)
(* until it is released, although SetStatus stores one status only: an     *)
(* allocation never spans two ranges.                                      *)
BlockUnits(a) == Span(a[1], a[1] + a[2])

AllocatedReserved ==
  /\ \A a \in blocks : BlockUnits(a) \cap FreeUnits = {}
  /\ \A a, c \in blocks : a # c => BlockUnits(a) \cap BlockUnits(c) = {}
  /\ \A a \in blocks : a[1] % PageSize = 0

(* The inductive invariant: what was allocated is backed by RESERVED       *)
(* ranges, not merely by no FREE one, or Register could cover it again.    *)
Backed == ~ stopped => \A a \in blocks : BlockUnits(a) \subseteq UnitsOf("RESERVED")

MapInv == Ordered /\ CoverKept /\ AllocatedReserved /\ Backed

(* The effect on addresses of a SetStatus that changes the vector, whoever *)
(* calls it.  Where it returns true or never returns, nothing outside      *)
(* [b, e) changes, in it the only change is to the status asked for, and   *)
(* nothing enters or leaves the map; where one range alone overlaps the    *)
(* window, all that the map has of the window gets the status.  Where it   *)
(* returns false, the map has lost the piece of one range that lies beyond *)
(* one end of the window, and nothing else has changed.                    *)
Changed ==
  UNION {(UnitsOf(q) \ UnitsOf(q)') \cup (UnitsOf(q)' \ UnitsOf(q)) : q \in Status}

OneOverlaps(b, e) == From(b) = To(e) - 1

Turns(b, e, status) ==
  /\ Changed \subseteq Span(b, e) \cap UnitsOf(status)'
  /\ Cover' = Cover
  /\ OneOverlaps(b, e) => Cover \cap Span(b, e) \subseteq UnitsOf(status)'

Forgets(lost) == \A q \in Status : UnitsOf(q)' = UnitsOf(q) \ lost

LosesPiece(b, e) ==
  \E r \in ToSet(ranges) :
    \/ r.begin < b /\ b < r.end /\ Forgets(Span(r.begin, b))
    \/ r.begin < e /\ e < r.end /\ Forgets(Span(e, r.end))

StatusFrame ==
  [][~ stopped /\ ranges' # ranges =>
       \A e \in Bounds : \A b \in 0 .. e :
         /\ \A status \in Status :
              ~ Turns(b, e, status)
                => ~ (SetStatus(b, e, status) \/ SetStatusHangs(b, e, status))
         /\ SetStatusFails(b, e) => LosesPiece(b, e)]_vars

(* A call on a non-empty window it overlaps leaves no two ranges that      *)
(* could be one: FindIn looks at one range at a time and would not see the *)
(* room they have together.                                                *)
Canonical == \A i \in 1 .. Len(ranges) - 1 : ~ CanMerge(ranges[i], ranges[i + 1])

LeavesCanonical ==
  [][~ Canonical' =>
       \A e \in Bounds : \A b \in 0 .. e - 1 :
         (Reserve(b, e) \/ Release(b, e)) => Untouched(b, e)]_vars

(* Allocation in a canonical map fails only when no aligned run of free    *)
(* memory of that size is left in the window.                              *)
AllocationComplete ==
  ~ stopped /\ Canonical =>
    \A a \in {u \in FreeUnits : u % PageSize = 0}, size \in 1 .. Limit :
      Span(a, a + size) \subseteq FreeUnits =>
        \A b \in 0 .. a, e \in a + size .. Limit : Rooms(b, e, size) # {}

(* "Reserve used memory in the memory map": no address of a window that    *)
(* Reserve accepted is FREE when it returns true.                          *)
ReserveReserves ==
  [][\A e \in Bounds : \A b \in 0 .. e :
       Reserve(b, e) => FreeUnits' \cap Span(b, e) = {}]_vars
=============================================================================
