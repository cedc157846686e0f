-------------------------------- MODULE Zone --------------------------------
(***************************************************************************)
(* One zone of the physical page allocator (class Zone of memory/memory.cc *)
(* and the boot loop FreeMemory that fills it): a binary buddy system with *)
(* one LIFO free list per order and two words of state per page.           *)
(*                                                                         *)
(* A call is one AllocatePages, FreePages or step of FreeMemory.  Its loop *)
(* (Split or Unite) is modelled one iteration per step, because what makes *)
(* the loops right is the state between two iterations.  The kernel runs   *)
(* one call at a time: one CPU, interrupts masked (bootstrap/start.S).     *)
(***************************************************************************)
EXTENDS Buddy, SequencesExt

VARIABLES
  free,       \* free_[o]: the pages linked in each list, first to last
  order,      \* Page::order
  isFree,     \* Page::flags & kPageFree
  available,  \* available_
  call,       \* the call in progress and the locals of its loop
  usable,     \* pages of FREE ranges that FreeMemory has not released yet
  range,      \* FreeMemory's addr and end, in pages
  owned       \* the blocks callers hold: what AllocatePages returned

zoneState == <<free, order, isFree, available>>
vars == <<free, order, isFree, available, call, usable, range, owned>>

-----------------------------------------------------------------------------
(* A call works on the block <<page, order>>, which is in no list; goal is *)
(* Split's "to" or Unite's "from".                                         *)
Call(op, p, o, goal) == [op |-> op, page |-> p, order |-> o, goal |-> goal]
NoCall == Call("none", 0, 0, 0)
Idle == call.op = "none"

NoRange == [addr |-> 0, end |-> 0]

Linked(o) == ToSet(free[o])

(* IntrusiveList::Unlink takes a page out of the list that holds it.       *)
Unlink(p, list) ==
  IF p \in ToSet(list)
  THEN RemoveAt(list, CHOOSE i \in DOMAIN list : list[i] = p)
  ELSE list

FreeBlocks == UNION {Linked(o) \X {o} : o \in Orders}
InFlight == IF Idle THEN {} ELSE {<<call.page, call.order>>}
Live == FreeBlocks \cup owned \cup InFlight

-----------------------------------------------------------------------------
(* The zone is created over zeroed page structures and empty lists; the    *)
(* memory map says which of its pages are FREE.                            *)
Init ==
  /\ free = [o \in Orders |-> <<>>]
  /\ order = [p \in Frames |-> 0]
  /\ isFree = [p \in Frames |-> FALSE]
  /\ available = 0
  /\ call = NoCall
  /\ usable \in SUBSET Frames
  /\ range = NoRange
  /\ owned = {}

(* FreeUnusedMemory takes the FREE ranges in address order; two of them    *)
(* may touch, so a range need not extend as far as the usable pages do.    *)
FreeMemory(p, end) ==
  /\ Idle
  /\ range = NoRange
  /\ p \in usable
  /\ \A q \in usable : p <= q
  /\ end > p
  /\ p .. end - 1 \subseteq usable
  /\ range' = [addr |-> p, end |-> end]
  /\ UNCHANGED <<zoneState, call, usable, owned>>

(* min(LeastSignificantBit(addr), MostSignificantBit(end - addr), kMaxOrder) *)
Fits(o) == Aligned(range.addr, o) /\ range.addr + Size[o] <= range.end
LargestFit(o) == Fits(o) /\ \A k \in Orders : Fits(k) => k <= o

(* One iteration: FreePages(addr, order) stores the order and calls Unite. *)
FreeMemoryStep(o) ==
  /\ Idle
  /\ range # NoRange
  /\ LargestFit(o)
  /\ order' = [order EXCEPT ![range.addr] = o]
  /\ call' = Call("unite", range.addr, o, o)
  /\ usable' = usable \ Block(range.addr, o)
  /\ range' = IF range.addr + Size[o] = range.end
              THEN NoRange
              ELSE [range EXCEPT !.addr = @ + Size[o]]
  /\ UNCHANGED <<free, isFree, available, owned>>

-----------------------------------------------------------------------------
(* The lists AllocatePages scans for a block of order o.                   *)
Candidates(o) == {from \in o .. MaxOrder : free[from] # <<>>}

Charge(o, from) == Size[o]

(* Allocation: only once SetupAllocator has returned.                      *)
AllocatePages(o, from) ==
  /\ Idle
  /\ usable = {}
  /\ from \in Candidates(o)
  /\ \A k \in Candidates(o) : from <= k
  /\ free' = [free EXCEPT ![from] = Tail(@)]
  /\ available' = available - Charge(o, from)
  /\ call' = Call("split", Head(free[from]), from, o)
  /\ UNCHANGED <<order, isFree, usable, range, owned>>

(* AllocatePages returns nullptr.                                          *)
AllocateFails(o) ==
  /\ Idle
  /\ usable = {}
  /\ Candidates(o) = {}
  /\ UNCHANGED vars

(* Mistake: the upper half is marked free and not linked.                  *)
SplitStepLeaks ==
  LET o == call.order - 1
      buddy == BuddyOffset(call.page, o)
  IN  /\ call.op = "split"
      /\ call.order > call.goal
      /\ order' = [order EXCEPT ![buddy] = o]
      /\ isFree' = [isFree EXCEPT ![buddy] = TRUE]
      /\ call' = [call EXCEPT !.order = o]
      /\ UNCHANGED <<free, available, usable, range, owned>>

(* One iteration of Split: the upper half becomes a free block.            *)
SplitStep ==
  LET o == call.order - 1
      buddy == BuddyOffset(call.page, o)
  IN  /\ call.op = "split"
      /\ call.order > call.goal
      /\ order' = [order EXCEPT ![buddy] = o]
      /\ isFree' = [isFree EXCEPT ![buddy] = TRUE]
      /\ free' = [free EXCEPT ![o] = Cons(buddy, @)]
      /\ call' = [call EXCEPT !.order = o]
      /\ UNCHANGED <<available, usable, range, owned>>

(* Mistake: the block handed out still says it is free.                    *)
SplitDoneStaysFree ==
  /\ call.op = "split"
  /\ call.order = call.goal
  /\ order' = [order EXCEPT ![call.page] = call.goal]
  /\ owned' = owned \cup {<<call.page, call.goal>>}
  /\ call' = NoCall
  /\ UNCHANGED <<free, isFree, available, usable, range>>

(* The end of Split: the block is the caller's.                            *)
SplitDone ==
  /\ call.op = "split"
  /\ call.order = call.goal
  /\ order' = [order EXCEPT ![call.page] = call.goal]
  /\ isFree' = [isFree EXCEPT ![call.page] = FALSE]
  /\ owned' = owned \cup {<<call.page, call.goal>>}
  /\ call' = NoCall
  /\ UNCHANGED <<free, available, usable, range>>

-----------------------------------------------------------------------------
(* FreePages: the order of the block is whatever its first page says.      *)
FreePages(p, o) ==
  /\ Idle
  /\ <<p, o>> \in owned
  /\ owned' = owned \ {<<p, o>>}
  /\ call' = Call("unite", p, order[p], order[p])
  /\ UNCHANGED <<zoneState, usable, range>>

(* Mistakes: never build a block of the largest order; trust the order of  *)
(* a buddy that is not free.                                               *)
CanUniteShort(p, o) ==
  LET buddy == BuddyOffset(p, o)
  IN  o + 1 < MaxOrder /\ buddy \in Frames /\ order[buddy] = o /\ isFree[buddy]

CanUniteBusy(p, o) ==
  LET buddy == BuddyOffset(p, o)
  IN  o < MaxOrder /\ buddy \in Frames /\ order[buddy] = o

(* Unite's loop condition and its two breaks.                              *)
CanUnite(p, o) ==
  LET buddy == BuddyOffset(p, o)
  IN  /\ o < MaxOrder
      /\ buddy \in Frames
      /\ order[buddy] = o
      /\ isFree[buddy]

(* Mistakes: the buddy stays linked; the joined block keeps the first page *)
(* of the block being freed; the order is not raised.                      *)
UniteStepKeepsBuddy ==
  LET o == call.order
      buddy == BuddyOffset(call.page, o)
  IN  /\ call.op = "unite"
      /\ CanUnite(call.page, o)
      /\ call' = [call EXCEPT !.page = Lower(@, buddy), !.order = o + 1]
      /\ UNCHANGED <<free, order, isFree, available, usable, range, owned>>

UniteStepKeepsPage ==
  LET o == call.order
      buddy == BuddyOffset(call.page, o)
  IN  /\ call.op = "unite"
      /\ CanUnite(call.page, o)
      /\ free' = [free EXCEPT ![o] = Unlink(buddy, @)]
      /\ call' = [call EXCEPT !.order = o + 1]
      /\ UNCHANGED <<order, isFree, available, usable, range, owned>>

UniteStepKeepsOrder ==
  LET o == call.order
      buddy == BuddyOffset(call.page, o)
  IN  /\ call.op = "unite"
      /\ CanUnite(call.page, o)
      /\ free' = [free EXCEPT ![o] = Unlink(buddy, @)]
      /\ call' = [call EXCEPT !.page = Lower(@, buddy)]
      /\ UNCHANGED <<order, isFree, available, usable, range, owned>>

(* One iteration of Unite: absorb the buddy.  The page that becomes the    *)
(* inside of the block keeps its flag and its order.                       *)
UniteStep ==
  LET o == call.order
      buddy == BuddyOffset(call.page, o)
  IN  /\ call.op = "unite"
      /\ CanUnite(call.page, o)
      /\ free' = [free EXCEPT ![o] = Unlink(buddy, @)]
      /\ call' = [call EXCEPT !.page = Lower(@, buddy), !.order = o + 1]
      /\ UNCHANGED <<order, isFree, available, usable, range, owned>>

(* The end of Unite, and FreePages' accounting after it.                   *)
UniteDone ==
  LET o == call.order
  IN  /\ call.op = "unite"
      /\ ~ CanUnite(call.page, o)
      /\ order' = [order EXCEPT ![call.page] = o]
      /\ isFree' = [isFree EXCEPT ![call.page] = TRUE]
      /\ free' = [free EXCEPT ![o] = Cons(call.page, @)]
      /\ available' = available + Size[call.goal]
      /\ call' = NoCall
      /\ UNCHANGED <<usable, range, owned>>

-----------------------------------------------------------------------------
Step == SplitStep \/ SplitDone \/ UniteStep \/ UniteDone

Next ==
  \/ \E p \in Frames, end \in Frames \cup {Offset + Pages} : FreeMemory(p, end)
  \/ \E o \in Orders : FreeMemoryStep(o)
  \/ \E o, from \in Orders : AllocatePages(o, from)
  \/ \E o \in Orders : AllocateFails(o)
  \/ \E p \in Frames, o \in Orders : FreePages(p, o)
  \/ Step

(* The CPU runs a call to its end: nothing else can happen meanwhile.      *)
Spec == Init /\ [][Next]_vars /\ WF_vars(Step)
-----------------------------------------------------------------------------
(* The variables have their types; every block and every call is inside    *)
(* the zone.                                                               *)
TypeOK ==
  /\ free \in [Orders -> Seq(Frames)]
  /\ order \in [Frames -> Orders]
  /\ isFree \in [Frames -> BOOLEAN]
  /\ available \in Int
  /\ call \in {NoCall} \cup [op : {"split", "unite"}, page : Frames,
                             order : Orders, goal : Orders]
  /\ usable \subseteq Frames
  /\ range = NoRange \/ range \in [addr : Frames, end : Frames \cup {Offset + Pages}]
  /\ owned \subseteq Frames \X Orders

(* No page is in two blocks: not in two free ones, not in a free one and   *)
(* one a caller holds, not in the block Split or Unite is working on and   *)
(* another.  Each free block is linked once.                               *)
Disjoint ==
  /\ \A b, c \in Live : b # c => Apart(b, c)
  /\ FreeBlocks \cap owned = {}
  /\ InFlight \cap (FreeBlocks \cup owned) = {}
  /\ \A o \in Orders : IsInjective(free[o])

(* Unite unlinks the buddy from the list of order o on the evidence of its *)
(* flag and order alone, and those go stale inside merged blocks: whenever *)
(* they say so, the buddy really is in that list.                          *)
UnlinkSafe ==
  call.op = "unite" /\ CanUnite(call.page, call.order)
    => BuddyOffset(call.page, call.order) \in Linked(call.order)

(* Two free buddies never stay apart: Unite would have merged them.        *)
NoFreeBuddies ==
  \A o \in Orders \ {MaxOrder} : \A p \in Linked(o) :
     BuddyOffset(p, o) \notin Linked(o)

(* The pages the zone has to give.                                         *)
AvailPages == UNION {Block(b[1], b[2]) : b \in FreeBlocks \cup InFlight}

(* During a call available_ already, or still, counts what Split will put  *)
(* back or Unite took out.                                                 *)
Counted == available = Cardinality(AvailPages) - IF Idle THEN 0 ELSE Size[call.goal]

(* Between calls the lists and the count depend on which pages are free    *)
(* and not on the allocations and frees that led there: the free blocks    *)
(* are the largest aligned ones the free pages allow, so AllocatePages     *)
(* says nullptr only when no run of 2^o pages is left.                     *)
Coalesced ==
  /\ Idle => FreeBlocks = {b \in Frames \X Orders : Maximal(b[1], b[2], AvailPages)}
  /\ Counted

(* The zone does what PageAllocator promises: a page taken off the lists   *)
(* is the caller's only when Split returns, and is free again as soon as   *)
(* FreePages is called.                                                    *)
Abstract == INSTANCE PageAllocator
              WITH waiting <- usable, avail <- AvailPages, held <- owned

ImplementsPages == Abstract!PagesSpec

(* Every call returns: Split and Unite terminate.                          *)
CallsReturn == ~ Idle ~> Idle

-----------------------------------------------------------------------------
(* What holds between any two steps and makes the above inductive.         *)
(*                                                                         *)
(* Every block is aligned and inside the zone.                             *)
AllInside == \A b \in Live : Inside(b)

(* The first page of a block describes it.                                 *)
Heads ==
  /\ \A o \in Orders : \A p \in Linked(o) : isFree[p] /\ order[p] = o
  /\ \A b \in owned : ~ isFree[b[1]] /\ order[b[1]] = b[2]

(* A page that looks like the first page of a free block and is not one    *)
(* lies inside a larger block: the one whose Unite absorbed it, or part of *)
(* it.  Its buddy then lies in that block too and is never freed alone.    *)
StaleFlags ==
  \A p \in Frames : isFree[p] =>
    /\ Aligned(p, order[p])
    /\ \/ <<p, order[p]>> \in FreeBlocks
       \/ ~ Idle /\ p = call.page
       \/ \E b \in Live : Within(p, b) /\ order[p] < b[2]

(* A usable page that was not released is in no block and looks like none. *)
Waiting ==
  /\ \A p \in usable : ~ isFree[p]
  /\ \A p \in usable : \A b \in Live : p < b[1] \/ b[1] + Size[b[2]] <= p
  /\ range # NoRange => /\ range.addr < range.end
                        /\ range.addr .. range.end - 1 \subseteq usable

Locals ==
  ~ Idle => /\ call.goal <= call.order
            /\ call.op = "unite" /\ isFree[call.page] => order[call.page] < call.order
            /\ call.op = "split" => usable = {}

(* The inductive invariant of ZoneProofs.                                  *)
ZoneInv ==
  /\ TypeOK
  /\ AllInside
  /\ Disjoint
  /\ Heads
  /\ StaleFlags
  /\ Waiting
  /\ Locals
=============================================================================
