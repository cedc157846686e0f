---------------------------- MODULE BuddySystem -----------------------------
(***************************************************************************)
(* One zone of pages of the Rust kernel (kernel/memory/src: BuddySystem of *)
(* buddy.rs, Page of page.rs, PageList of list.rs, Zone of lib.rs).  The   *)
(* free lists run through the pages themselves: this module composes the   *)
(* buddy system with IntrusiveList, one list per level.                    *)
(*                                                                         *)
(* A call is one allocate_pages, free_pages or step of free_page_range.    *)
(* Its loop is modelled one iteration per step; an iteration works on one  *)
(* list.  The lock around a call is a placeholder that excludes nobody: it *)
(* is the one CPU with interrupts masked that runs a call to its end.      *)
(***************************************************************************)
EXTENDS Buddy, SequencesExt

CONSTANT null

ASSUME NullAssumption == null \notin Frames

VARIABLES
  next, prev, head, tail,   \* the links of the pages, the ends of the lists
  page,       \* Page::state of each page: its level and its free bit
  call,       \* the call in progress and the locals of its loop
  usable,     \* free pages of the memory map that are not released yet
  range,      \* free_page_range's index and end
  heap,       \* pages of the bootstrap heap that are not handed over yet
  owned       \* the blocks callers hold

links == <<next, prev, head, tail>>
boot == <<usable, range, heap>>
vars == <<links, page, call, boot, owned>>

FreeList == INSTANCE IntrusiveList WITH Nodes <- Frames, Lists <- Orders

-----------------------------------------------------------------------------
(* A call works on the block that starts at page and has the given level,  *)
(* which is in no list; goal is the level that was asked for.              *)
Call(op, p, l, goal) == [op |-> op, page |-> p, level |-> l, goal |-> goal]
NoCall == Call("none", 0, 0, 0)
Idle == call.op = "none"
NoRange == [index |-> 0, end |-> 0]
Booted == usable = {} /\ heap = {}

BuddyIndex(index, l) == BuddyOffset(index, l)

FreeBlocks == UNION {FreeList!Members(l) \X {l} : l \in Orders}
InFlight == IF Idle THEN {} ELSE {<<call.page, call.level>>}
Live == FreeBlocks \cup owned \cup InFlight

-----------------------------------------------------------------------------
(* Zone::new over zeroed pages.  The memory map says which pages are free, *)
(* and which ones the bootstrap heap lies in.                              *)
Init ==
  /\ FreeList!Init
  /\ page = [p \in Frames |-> [level |-> 0, free |-> FALSE]]
  /\ call = NoCall
  /\ usable \in SUBSET Frames
  /\ heap \in SUBSET (Frames \ usable)
  /\ range = NoRange
  /\ owned = {}

(* Memory::new takes the free ranges in address order; two of them may     *)
(* touch if their types differ.                                            *)
FreePageRange(p, end) ==
  /\ Idle
  /\ range = NoRange
  /\ p \in usable
  /\ \A q \in usable : p <= q
  /\ end > p
  /\ p .. end - 1 \subseteq usable
  /\ range' = [index |-> p, end |-> end]
  /\ UNCHANGED <<links, page, call, usable, heap, owned>>

(* min(LEVELS - 1, ilog2(end - index), lsb(index) - 1)                     *)
Fits(l) == Aligned(range.index, l) /\ range.index + Size[l] <= range.end
LargestFit(l) == Fits(l) /\ \A k \in Orders : Fits(k) => k <= l

(* One iteration: free_pages_at_level, which no page need agree with.      *)
FreePageRangeStep(l) ==
  /\ Idle
  /\ range # NoRange
  /\ LargestFit(l)
  /\ call' = Call("free", range.index, l, l)
  /\ usable' = usable \ Block(range.index, l)
  /\ range' = IF range.index + Size[l] = range.end THEN NoRange
              ELSE [range EXCEPT !.index = @ + Size[l]]
  /\ UNCHANGED <<links, page, heap, owned>>

(* from_devicetree frees the pages of the bootstrap heap one by one, in    *)
(* address order: nobody allocated them, their level is still 0.           *)
HandOver(p) ==
  /\ Idle
  /\ usable = {}
  /\ p \in heap
  /\ \A q \in heap : p <= q
  /\ call' = Call("free", p, page[p].level, page[p].level)
  /\ heap' = heap \ {p}
  /\ UNCHANGED <<links, page, usable, range, owned>>

-----------------------------------------------------------------------------
(* The lists allocate_pages finds something in.                            *)
Candidates(o) == {l \in o .. MaxOrder : ~ FreeList!IsEmptyList(l)}

(* The first page of the lowest of these lists; split_and_return believes  *)
(* what the page says of its level, and not the list it came from.         *)
AllocatePages(o, l) ==
  LET p == head[l]
  IN  /\ Idle
      /\ Booted
      /\ l \in Candidates(o)
      /\ \A k \in Candidates(o) : l <= k
      /\ FreeList!PopLink(l)
      /\ call' = Call("split", p, page[p].level, o)
      /\ UNCHANGED <<page, boot, owned>>

AllocateFails(o) ==
  /\ Idle
  /\ Booted
  /\ Candidates(o) = {}
  /\ UNCHANGED vars

(* Mistake: the upper half is linked and not marked free.                  *)
SplitStepBusy ==
  LET l == call.level - 1
      buddy == BuddyIndex(call.page, l)
  IN  /\ call.op = "split"
      /\ call.level > call.goal
      /\ page' = [page EXCEPT ![buddy].level = l]
      /\ FreeList!PushLink(l, buddy)
      /\ call' = [call EXCEPT !.level = l]
      /\ UNCHANGED <<boot, owned>>

(* One iteration of split_and_return: the upper half becomes a free block. *)
SplitStep ==
  LET l == call.level - 1
      buddy == BuddyIndex(call.page, l)
  IN  /\ call.op = "split"
      /\ call.level > call.goal
      /\ page' = [page EXCEPT ![buddy] = [level |-> l, free |-> TRUE]]
      /\ FreeList!PushLink(l, buddy)
      /\ call' = [call EXCEPT !.level = l]
      /\ UNCHANGED <<boot, owned>>

(* Mistake: the page of the block still has the level it was found with.   *)
SplitDoneKeepsLevel ==
  /\ call.op = "split"
  /\ call.level <= call.goal
  /\ page' = [page EXCEPT ![call.page].free = FALSE]
  /\ owned' = owned \cup {<<call.page, call.goal>>}
  /\ call' = NoCall
  /\ UNCHANGED <<links, boot>>

(* set_busy and set_level, and the block is the caller's.                  *)
SplitDone ==
  /\ call.op = "split"
  /\ call.level <= call.goal
  /\ page' = [page EXCEPT ![call.page] = [level |-> call.goal, free |-> FALSE]]
  /\ owned' = owned \cup {<<call.page, call.goal>>}
  /\ call' = NoCall
  /\ UNCHANGED <<links, boot>>

-----------------------------------------------------------------------------
(* free_pages: the level of the block is what its first page says.         *)
FreePages(p, o) ==
  /\ Idle
  /\ Booted
  /\ <<p, o>> \in owned
  /\ owned' = owned \ {<<p, o>>}
  /\ call' = Call("free", p, page[p].level, page[p].level)
  /\ UNCHANGED <<links, page, boot>>

(* Mistake: the level of the buddy is not compared.                        *)
CanMergeAnyLevel(p, l) ==
  LET buddy == BuddyIndex(p, l)
  IN  l < MaxOrder /\ buddy \in Frames /\ page[buddy].free

(* The loop of free_pages_at_level goes on.                                *)
CanMerge(p, l) ==
  LET buddy == BuddyIndex(p, l)
  IN  l < MaxOrder /\ buddy \in Frames /\ page[buddy] = [level |-> l, free |-> TRUE]

(* Mistakes: the joined block starts where the freed one did; the level    *)
(* does not rise.                                                          *)
MergeStepKeepsIndex ==
  /\ call.op = "free"
  /\ CanMerge(call.page, call.level)
  /\ FreeList!RemoveLink(call.level, BuddyIndex(call.page, call.level))
  /\ call' = [call EXCEPT !.level = @ + 1]
  /\ UNCHANGED <<page, boot, owned>>

MergeStepForever ==
  /\ call.op = "free"
  /\ CanMerge(call.page, call.level)
  /\ UNCHANGED vars

(* One iteration: the buddy leaves its list and the block grows.  The page *)
(* that becomes the inside of the block keeps its word.                    *)
MergeStep ==
  LET buddy == BuddyIndex(call.page, call.level)
  IN  /\ call.op = "free"
      /\ CanMerge(call.page, call.level)
      /\ FreeList!RemoveLink(call.level, buddy)
      /\ call' = [call EXCEPT !.page = Lower(@, buddy), !.level = @ + 1]
      /\ UNCHANGED <<page, boot, owned>>

(* The block goes to the front of the list of its level.                   *)
FreeDone ==
  /\ call.op = "free"
  /\ ~ CanMerge(call.page, call.level)
  /\ page' = [page EXCEPT ![call.page] = [level |-> call.level, free |-> TRUE]]
  /\ FreeList!PushLink(call.level, call.page)
  /\ call' = NoCall
  /\ UNCHANGED <<boot, owned>>

-----------------------------------------------------------------------------
Step == SplitStep \/ SplitDone \/ MergeStep \/ FreeDone

Next ==
  \/ \E p \in Frames, end \in Frames \cup {Offset + Pages} : FreePageRange(p, end)
  \/ \E l \in Orders : FreePageRangeStep(l)
  \/ \E p \in Frames : HandOver(p)
  \/ \E o, l \in Orders : AllocatePages(o, l)
  \/ \E o \in Orders : AllocateFails(o)
  \/ \E p \in Frames, o \in Orders : FreePages(p, o)
  \/ Step

(* The CPU runs a call to its end: nothing else can happen meanwhile.      *)
Spec == Init /\ [][Next]_vars /\ WF_vars(Step)
-----------------------------------------------------------------------------
(* The words, the links and the locals are in range.                       *)
TypeOK ==
  /\ FreeList!TypeOK
  /\ page \in [Frames -> [level : Orders, free : BOOLEAN]]
  /\ call \in {NoCall} \cup [op : {"split", "free"}, page : Frames,
                             level : Orders, goal : Orders]
  /\ usable \subseteq Frames
  /\ heap \subseteq Frames
  /\ range = NoRange \/ range \in [index : Frames, end : Frames \cup {Offset + Pages}]
  /\ owned \subseteq Frames \X Orders

(* remove trusts its caller to name the list the node is in, and           *)
(* free_pages_at_level names it on the evidence of the page's word alone;  *)
(* push trusts its caller that the page is in no list.  If either were     *)
(* wrong once, the links of two lists would be mixed up.  Whenever they    *)
(* are called, it is true, and so all lists stay well linked.              *)
RemoveSafe ==
  /\ FreeList!WellLinked
  /\ call.op = "free" /\ CanMerge(call.page, call.level)
       => BuddyIndex(call.page, call.level) \in FreeList!Members(call.level)
  /\ call.op = "free" /\ ~ CanMerge(call.page, call.level)
       => call.page \notin FreeList!Linked
  /\ call.op = "split" /\ call.level > call.goal
       => BuddyIndex(call.page, call.level - 1) \notin FreeList!Linked

(* The first page of every block says its level, and whether it is free:   *)
(* what split_and_return and free_pages believe is true.                   *)
HeadsTrue ==
  /\ \A b \in FreeBlocks : page[b[1]] = [level |-> b[2], free |-> TRUE]
  /\ \A b \in owned : page[b[1]] = [level |-> b[2], free |-> FALSE]

(* No page is in two blocks, free, held or in the hands of a call, nor in  *)
(* a block and waiting.                                                    *)
Disjoint ==
  /\ \A b, c \in Live : b # c => Block(b[1], b[2]) \cap Block(c[1], c[2]) = {}
  /\ FreeBlocks \cap (owned \cup InFlight) = {}
  /\ owned \cap InFlight = {}
  /\ \A b \in Live : Block(b[1], b[2]) \cap (usable \cup heap) = {}

(* The blocks are sound in any moment of any call: typed, told the truth   *)
(* about by their pages, and disjoint.                                     *)
BlocksSound == TypeOK /\ HeadsTrue /\ Disjoint

(* None means that no aligned block of that many free pages is left: two   *)
(* free buddies never stay apart, and no page is forgotten in a list.      *)
AvailPages == UNION {Block(b[1], b[2]) : b \in FreeBlocks \cup InFlight}

AllocationComplete ==
  Idle => \A o \in Orders : Candidates(o) = {} =>
            ~ \E p \in Frames : Aligned(p, o) /\ Block(p, o) \subseteq AvailPages

(* The zone implements the promise that the C++ zone implements.           *)
Abstract == INSTANCE PageAllocator
              WITH waiting <- usable \cup heap, avail <- AvailPages, held <- owned

ImplementsPages == Abstract!PagesSpec

(* The lists through the pages are the lists that IntrusiveList promises:  *)
(* each step is a push, a pop or a removal of one of them.                 *)
ImplementsLists == FreeList!ImplementsLists

(* Every call returns.                                                     *)
CallsReturn == ~ Idle ~> Idle
=============================================================================
