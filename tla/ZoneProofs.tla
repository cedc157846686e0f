----------------------------- MODULE ZoneProofs -----------------------------
(***************************************************************************)
(* Machine-checked proofs about Zone, for every zone and every kMaxOrder:  *)
(* its invariant, the promise of PageAllocator that it keeps, and that     *)
(* what is free determines the lists.                                      *)
(***************************************************************************)
EXTENDS Zone, BuddyLemmas

-----------------------------------------------------------------------------
(* Unlink, on lists without repetitions.                                   *)

(* Unlink takes one page out of a list and leaves the others in it.        *)
LEMMA UnlinkOne ==
  ASSUME NEW S, NEW list \in Seq(S), NEW p \in ToSet(list), IsInjective(list)
  PROVE  /\ Unlink(p, list) \in Seq(S)
         /\ ToSet(Unlink(p, list)) = ToSet(list) \ {p}
         /\ IsInjective(Unlink(p, list))
<1>. DEFINE at == CHOOSE i \in DOMAIN list : list[i] = p
<1>1. at \in DOMAIN list /\ list[at] = p
  BY DEF ToSet
<1>2. Unlink(p, list) = RemoveAt(list, at)
  BY DEF Unlink
<1>. HIDE DEF at
<1>. QED
  BY <1>1, <1>2, RemoveAtOne

-----------------------------------------------------------------------------
(* The blocks, and what a change of one list does to them.                 *)

(* A block is free if its page is in the list of its order.                *)
LEMMA FreeBlocksAre ==
  \A p, o : <<p, o>> \in FreeBlocks <=> o \in Orders /\ p \in Linked(o)
BY DEF FreeBlocks

(* Free blocks and the block in progress are made of pages and orders.     *)
LEMMA LiveType ==
  ASSUME TypeOK
  PROVE  /\ FreeBlocks \subseteq Frames \X Orders
         /\ InFlight \subseteq Frames \X Orders
         /\ Live \subseteq Frames \X Orders
<1>1. FreeBlocks \subseteq Frames \X Orders
  BY DEF TypeOK, FreeBlocks, Linked, ToSet
<1>2. InFlight \subseteq Frames \X Orders
  BY DEF TypeOK, InFlight, Idle, NoCall, Call
<1>. QED
  BY <1>1, <1>2 DEF TypeOK, Live

(* Linking a page of no free block adds exactly that block to the free     *)
(* ones.                                                                   *)
LEMMA LinkBlock ==
  ASSUME TypeOK, Disjoint, NEW o \in Orders, NEW p \in Frames,
         <<p, o>> \notin FreeBlocks,
         free' = [free EXCEPT ![o] = Cons(p, @)]
  PROVE  /\ free' \in [Orders -> Seq(Frames)]
         /\ FreeBlocks' = FreeBlocks \cup {<<p, o>>}
         /\ \A k \in Orders : IsInjective(free'[k])
         /\ \A k \in Orders : Linked(k)' = IF k = o THEN Linked(k) \cup {p} ELSE Linked(k)
<1>1. free \in [Orders -> Seq(Frames)] /\ \A k \in Orders : IsInjective(free[k])
  BY DEF TypeOK, Disjoint
<1>2. p \notin ToSet(free[o])
  BY DEF FreeBlocks, Linked
<1>3. /\ Cons(p, free[o]) \in Seq(Frames)
      /\ ToSet(Cons(p, free[o])) = {p} \cup ToSet(free[o])
      /\ IsInjective(Cons(p, free[o]))
  BY <1>1, <1>2, PushFront
<1>4. /\ free'[o] = Cons(p, free[o])
      /\ \A k \in Orders : k # o => free'[k] = free[k]
      /\ free' \in [Orders -> Seq(Frames)]
  BY <1>1, <1>3
<1>5. \A k \in Orders : Linked(k)' = IF k = o THEN Linked(k) \cup {p} ELSE Linked(k)
  BY <1>3, <1>4 DEF Linked
<1>6. FreeBlocks' = FreeBlocks \cup {<<p, o>>}
  BY <1>5 DEF FreeBlocks
<1>. QED
  BY <1>1, <1>3, <1>4, <1>5, <1>6

(* PopFront and Unlink both take one page out of one list.                 *)
LEMMA UnlinkBlock ==
  ASSUME TypeOK, Disjoint, NEW o \in Orders, NEW p \in Linked(o),
         \/ free' = [free EXCEPT ![o] = Unlink(p, @)]
         \/ p = Head(free[o]) /\ free' = [free EXCEPT ![o] = Tail(@)]
  PROVE  /\ free' \in [Orders -> Seq(Frames)]
         /\ FreeBlocks' = FreeBlocks \ {<<p, o>>}
         /\ \A k \in Orders : IsInjective(free'[k])
         /\ \A k \in Orders : Linked(k)' = IF k = o THEN Linked(k) \ {p} ELSE Linked(k)
<1>1. free \in [Orders -> Seq(Frames)] /\ \A k \in Orders : IsInjective(free[k])
  BY DEF TypeOK, Disjoint
<1>2. p \in ToSet(free[o]) /\ free[o] # <<>>
  BY <1>1 DEF Linked, ToSet
<1>. DEFINE new == free'[o]
<1>3. \/ new = Unlink(p, free[o])
      \/ p = Head(free[o]) /\ new = Tail(free[o])
  BY <1>1
<1>4. new \in Seq(Frames) /\ ToSet(new) = ToSet(free[o]) \ {p} /\ IsInjective(new)
  <2>1. CASE new = Unlink(p, free[o])
    BY <1>1, <1>2, <2>1, UnlinkOne
  <2>2. CASE p = Head(free[o]) /\ new = Tail(free[o])
    BY <1>1, <1>2, <2>2, PopFront
  <2>. QED
    BY <1>3, <2>1, <2>2
<1>5. /\ \A k \in Orders : k # o => free'[k] = free[k]
      /\ free' \in [Orders -> Seq(Frames)]
  BY <1>1, <1>4
<1>6. \A k \in Orders : Linked(k)' = IF k = o THEN Linked(k) \ {p} ELSE Linked(k)
  BY <1>4, <1>5 DEF Linked
<1>7. FreeBlocks' = FreeBlocks \ {<<p, o>>}
  BY <1>6 DEF FreeBlocks
<1>. QED
  BY <1>1, <1>4, <1>5, <1>6, <1>7

-----------------------------------------------------------------------------
(* ZoneInv holds initially and every action preserves it.                  *)

(* A zone that holds nothing yet satisfies the invariant.                  *)
LEMMA InitInv == Init => ZoneInv
<1>1. SUFFICES ASSUME Init PROVE ZoneInv
  OBVIOUS
<1>2. Live = {} /\ FreeBlocks = {} /\ InFlight = {} /\ \A o \in Orders : Linked(o) = {}
  BY <1>1 DEF Init, Live, FreeBlocks, Linked, ToSet, InFlight, Idle, NoCall, Call
<1>3. TypeOK
  BY <1>1, ZoneAssumption DEF Init, TypeOK, NoCall, Call, Orders
<1>4. Disjoint
  BY <1>1, <1>2 DEF Disjoint, Init, IsInjective
<1>5. AllInside /\ Heads /\ StaleFlags /\ Waiting /\ Locals
  BY <1>1, <1>2 DEF AllInside, Heads, StaleFlags, Waiting, Locals, Init, Idle, NoCall, Call
<1>. QED
  BY <1>3, <1>4, <1>5 DEF ZoneInv

(* FreeMemory only sets the range it is going to release.                  *)
LEMMA FreeMemoryInv ==
  ASSUME ZoneInv, NEW p \in Frames, NEW end \in Frames \cup {Offset + Pages},
         FreeMemory(p, end)
  PROVE  ZoneInv'
<1>. USE DEF FreeMemory, zoneState
<1>1. /\ Live' = Live /\ FreeBlocks' = FreeBlocks /\ InFlight' = InFlight
      /\ \A o \in Orders : Linked(o)' = Linked(o)
      /\ Idle' = Idle
  BY DEF Live, FreeBlocks, InFlight, Linked, Idle
<1>2. TypeOK'
  BY DEF ZoneInv, TypeOK
<1>3. AllInside' /\ Disjoint' /\ Heads' /\ Locals'
  BY <1>1 DEF ZoneInv, AllInside, Inside, Disjoint, Apart, Heads, Locals
<1>5. StaleFlags'
  BY <1>1 DEF ZoneInv, StaleFlags, Within
<1>4. Waiting'
  BY <1>1 DEF ZoneInv, Waiting, NoRange
<1>. QED
  BY <1>2, <1>3, <1>4, <1>5 DEF ZoneInv

(* A block released by boot comes from waiting pages, which no block       *)
(* holds.                                                                  *)
LEMMA FreeMemoryStepInv ==
  ASSUME ZoneInv, NEW o \in Orders, FreeMemoryStep(o)
  PROVE  ZoneInv'
<1>. DEFINE p == range.addr
            s == Size[o]
            x == <<p, o>>
<1>1. /\ s \in Nat \ {0}
      /\ p \in Frames /\ p \in Nat
      /\ range.end \in Nat /\ range.end <= Offset + Pages
      /\ p + s <= range.end
      /\ Aligned(p, o)
  BY SizePositive, ZoneAssumption
     DEF FreeMemoryStep, LargestFit, Fits, ZoneInv, TypeOK, Frames
<1>2. Block(p, o) \subseteq usable /\ p \in Block(p, o)
  <2>1. range.addr .. range.end - 1 \subseteq usable
    BY DEF ZoneInv, Waiting, FreeMemoryStep
  <2>. QED
    BY <1>1, <2>1 DEF Block
<1>3. /\ FreeBlocks' = FreeBlocks /\ owned' = owned
      /\ InFlight = {} /\ InFlight' = {x} /\ Live' = Live \cup {x}
      /\ \A k \in Orders : Linked(k)' = Linked(k)
      /\ ~ Idle'
  BY DEF FreeMemoryStep, FreeBlocks, Linked, InFlight, Live, Idle, Call
<1>4. Live \subseteq Frames \X Orders /\ \A b \in Live : b[1] \in Nat /\ Size[b[2]] \in Nat \ {0}
  BY LiveType, SizePositive, ZoneAssumption DEF ZoneInv, Frames
<1>5. ASSUME NEW b \in Live PROVE Apart(x, b) /\ Apart(b, x) /\ b[1] # p
  <2>1. \A u \in Block(p, o) : u < b[1] \/ b[1] + Size[b[2]] <= u
    BY <1>2 DEF ZoneInv, Waiting
  <2>2. p < b[1] \/ b[1] + Size[b[2]] <= p
    BY <1>2, <2>1
  <2>3. ~ (p <= b[1] /\ b[1] < p + s)
    <3>1. SUFFICES ASSUME p <= b[1], b[1] < p + s PROVE FALSE
      OBVIOUS
    <3>2. b[1] \in Block(p, o)
      BY <1>1, <1>4, <3>1 DEF Block
    <3>. QED
      BY <1>4, <2>1, <3>2
  <2>. QED
    BY <1>1, <1>4, <2>2, <2>3 DEF Apart
<1>6. x \notin Live
  BY <1>5
<1>7. TypeOK'
  <2>1. usable' \subseteq Frames /\ order' \in [Frames -> Orders]
    BY <1>1 DEF FreeMemoryStep, ZoneInv, TypeOK
  <2>2. call' \in [op : {"split", "unite"}, page : Frames, order : Orders, goal : Orders]
    BY <1>1 DEF FreeMemoryStep, Call
  <2>3. range' = NoRange \/ range' \in [addr : Frames, end : Frames \cup {Offset + Pages}]
    <3>1. range \in [addr : Frames, end : Frames \cup {Offset + Pages}]
      BY DEF FreeMemoryStep, ZoneInv, TypeOK
    <3>2. CASE p + s # range.end
      <4>1. range' = [range EXCEPT !.addr = p + s]
        BY <3>2 DEF FreeMemoryStep
      <4>2. p + s \in Frames
        BY <1>1, <3>2, ZoneAssumption DEF Frames
      <4>. QED
        BY <3>1, <4>1, <4>2
    <3>. QED
      BY <3>2 DEF FreeMemoryStep
  <2>. QED
    BY <2>1, <2>2, <2>3 DEF FreeMemoryStep, ZoneInv, TypeOK
<1>8. AllInside'
  BY <1>1, <1>3, ZoneAssumption DEF ZoneInv, AllInside, Inside, Frames
<1>9. Disjoint'
  BY <1>3, <1>5, <1>6 DEF ZoneInv, Disjoint, Live, FreeMemoryStep
<1>10. Heads'
  <2>1. \A q \in Frames : q # p => order'[q] = order[q]
    BY DEF FreeMemoryStep, ZoneInv, TypeOK
  <2>2. \A k \in Orders : \A q \in Linked(k) : <<q, k>> \in Live
    BY FreeBlocksAre DEF Live
  <2>3. \A k \in Orders : \A q \in Linked(k) : q # p /\ q \in Frames
    BY <1>4, <1>5, <2>2
  <2>4. \A b \in owned : b[1] # p /\ b[1] \in Frames
    BY <1>4, <1>5 DEF Live
  <2>. QED
    BY <1>3, <2>1, <2>3, <2>4 DEF ZoneInv, Heads, FreeMemoryStep
<1>11. ~ isFree[p]
  BY <1>2 DEF ZoneInv, Waiting
<1>12. StaleFlags'
  <2>1. SUFFICES ASSUME NEW q \in Frames, isFree[q]
                 PROVE  /\ Aligned(q, order'[q])
                        /\ \/ <<q, order'[q]>> \in FreeBlocks'
                           \/ \E b \in Live' : Within(q, b) /\ order'[q] < b[2]
    BY DEF StaleFlags, FreeMemoryStep, Within
  <2>2. order'[q] = order[q] /\ order[q] \in Orders
    <3>1. q # p
      BY <1>11, <2>1
    <3>. QED
      BY <3>1 DEF FreeMemoryStep, ZoneInv, TypeOK
  <2>3. /\ Aligned(q, order[q])
        /\ \/ <<q, order[q]>> \in FreeBlocks
           \/ \E b \in Live : Within(q, b) /\ order[q] < b[2]
    BY <2>1 DEF ZoneInv, StaleFlags, FreeMemoryStep
  <2>. QED
    BY <1>3, <2>2, <2>3
<1>13. Waiting'
  <2>1. ASSUME NEW u \in usable'
        PROVE  u \in usable /\ u \in Nat /\ (u < p \/ p + s <= u)
    <3>1. u \in usable /\ u \notin Block(p, o)
      BY DEF FreeMemoryStep
    <3>2. u \in Nat
      BY <3>1, ZoneAssumption DEF ZoneInv, TypeOK, Frames
    <3>. QED
      BY <1>1, <3>1, <3>2 DEF Block
  <2>2. \A u \in usable' : \A b \in Live' : u < b[1] \/ b[1] + Size[b[2]] <= u
    BY <1>3, <2>1 DEF ZoneInv, Waiting
  <2>3. range' # NoRange => /\ range'.addr < range'.end
                            /\ range'.addr .. range'.end - 1 \subseteq usable'
    <3>1. SUFFICES ASSUME range' # NoRange
                   PROVE  /\ range'.addr < range'.end
                          /\ range'.addr .. range'.end - 1 \subseteq usable'
      OBVIOUS
    <3>2. p + s # range.end /\ range'.addr = p + s /\ range'.end = range.end
      BY <3>1 DEF FreeMemoryStep, ZoneInv, TypeOK
    <3>3. range.addr .. range.end - 1 \subseteq usable
      BY DEF ZoneInv, Waiting, FreeMemoryStep
    <3>. QED
      BY <1>1, <3>2, <3>3 DEF FreeMemoryStep, Block
  <2>. QED
    BY <2>1, <2>2, <2>3 DEF ZoneInv, Waiting, FreeMemoryStep
<1>14. Locals'
  BY <1>1, <1>11, ZoneAssumption DEF Locals, FreeMemoryStep, Call, Orders
<1>. QED
  BY <1>7, <1>8, <1>9, <1>10, <1>12, <1>13, <1>14 DEF ZoneInv

(* What every block of a state that satisfies ZoneInv looks like.          *)
LEMMA LiveFacts ==
  ASSUME ZoneInv, NEW b \in Live
  PROVE  /\ b = <<b[1], b[2]>> /\ b[1] \in Frames /\ b[2] \in Orders
         /\ b[1] \in Nat /\ Size[b[2]] \in Nat \ {0}
         /\ Inside(b)
<1>1. b \in Frames \X Orders
  BY LiveType DEF ZoneInv
<1>. QED
  BY <1>1, SizePositive, ZoneAssumption DEF ZoneInv, AllInside, Frames

(* The block of a call in progress.                                        *)
LEMMA InFlightFacts ==
  ASSUME ZoneInv, ~ Idle
  PROVE  /\ InFlight = {<<call.page, call.order>>}
         /\ <<call.page, call.order>> \in Live
         /\ call \in [op : {"split", "unite"}, page : Frames, order : Orders, goal : Orders]
         /\ \A b \in FreeBlocks \cup owned :
              /\ b \in Live
              /\ b # <<call.page, call.order>>
              /\ Apart(b, <<call.page, call.order>>)
<1>1. /\ InFlight = {<<call.page, call.order>>}
      /\ <<call.page, call.order>> \in Live
  BY DEF InFlight, Live
<1>2. call \in [op : {"split", "unite"}, page : Frames, order : Orders, goal : Orders]
  BY DEF ZoneInv, TypeOK, Idle, NoCall, Call
<1>. QED
  BY <1>1, <1>2 DEF ZoneInv, Disjoint, Live

(* AllocatePages takes the head of a list out: a free block becomes the    *)
(* one in progress.                                                        *)
LEMMA AllocatePagesInv ==
  ASSUME ZoneInv, NEW o \in Orders, NEW from \in Orders, AllocatePages(o, from)
  PROVE  ZoneInv'
<1>. DEFINE p == Head(free[from])
            x == <<p, from>>
<1>1. free \in [Orders -> Seq(Frames)] /\ free[from] # <<>> /\ o <= from
  BY DEF ZoneInv, TypeOK, AllocatePages, Candidates
<1>2. p \in Linked(from) /\ p \in Frames /\ x \in FreeBlocks
  <2>1. p \in ToSet(free[from])
    BY <1>1, PopFront DEF ZoneInv, Disjoint
  <2>2. p \in Frames
    BY <1>1
  <2>. QED
    BY <2>1, <2>2, FreeBlocksAre DEF Linked
<1>3. /\ free' \in [Orders -> Seq(Frames)]
      /\ FreeBlocks' = FreeBlocks \ {x}
      /\ \A k \in Orders : IsInjective(free'[k])
      /\ \A k \in Orders : Linked(k)' = IF k = from THEN Linked(k) \ {p} ELSE Linked(k)
  BY <1>2, UnlinkBlock DEF ZoneInv, AllocatePages
<1>4. /\ call' = Call("split", p, from, o)
      /\ call'.page = p /\ call'.order = from /\ call'.goal = o /\ call'.op = "split"
      /\ ~ Idle'
  BY DEF AllocatePages, Call, Idle
<1>5. /\ owned' = owned /\ order' = order /\ isFree' = isFree
      /\ usable' = usable /\ range' = range
      /\ InFlight = {} /\ InFlight' = {x}
  BY <1>4 DEF AllocatePages, InFlight
<1>6. Live' = Live
  BY <1>2, <1>3, <1>5 DEF Live
<1>7. TypeOK'
  <2>1. available' \in Int
    <3>1. Charge(o, from) \in Int
      BY SizePositive DEF Charge
    <3>. QED
      BY <3>1 DEF AllocatePages, ZoneInv, TypeOK
  <2>2. call' \in [op : {"split", "unite"}, page : Frames, order : Orders, goal : Orders]
    BY <1>2, <1>4 DEF Call
  <2>. QED
    BY <1>3, <1>5, <2>1, <2>2 DEF ZoneInv, TypeOK
<1>8. AllInside'
  BY <1>6 DEF ZoneInv, AllInside, Inside
<1>9. Disjoint'
  BY <1>2, <1>3, <1>5, <1>6 DEF ZoneInv, Disjoint, Apart
<1>10. Heads'
  BY <1>3, <1>5 DEF ZoneInv, Heads
<1>11. StaleFlags'
  <2>1. ASSUME NEW q \in Frames, isFree[q]
        PROVE  /\ Aligned(q, order[q])
               /\ \/ <<q, order[q]>> \in FreeBlocks'
                  \/ q = p
                  \/ \E b \in Live : Within(q, b) /\ order[q] < b[2]
    BY <1>3, <2>1 DEF ZoneInv, StaleFlags, AllocatePages
  <2>. QED
    BY <1>4, <1>5, <1>6, <2>1 DEF StaleFlags, Within
<1>12. Waiting' /\ Locals'
  BY <1>1, <1>4, <1>5, <1>6 DEF ZoneInv, Waiting, Locals, AllocatePages
<1>. QED
  BY <1>7, <1>8, <1>9, <1>10, <1>11, <1>12 DEF ZoneInv

(* An iteration of Split replaces the block in progress by its two halves  *)
(* and links one.                                                          *)
LEMMA SplitStepInv ==
  ASSUME ZoneInv, SplitStep
  PROVE  ZoneInv'
<1>. DEFINE p == call.page
            k == call.order
            o == k - 1
            s == Size[o]
            buddy == BuddyOffset(p, o)
            x == <<p, k>>
            y == <<p, o>>
            z == <<buddy, o>>
<1>1. ~ Idle
  BY DEF SplitStep, Idle
<1>2. /\ p \in Frames /\ k \in Orders /\ call.goal \in Orders /\ call.goal < k
      /\ x \in Live /\ InFlight = {x} /\ p \in Nat /\ Inside(x)
      /\ call \in [op : {"split", "unite"}, page : Frames, order : Orders, goal : Orders]
  <2>1. x \in Live /\ InFlight = {x} /\ p \in Frames /\ k \in Orders /\ call.goal \in Orders
    BY <1>1, InFlightFacts
  <2>2. p \in Nat /\ Inside(x)
    BY <2>1, LiveFacts
  <2>. QED
    BY <1>1, <2>1, <2>2, InFlightFacts, ZoneAssumption DEF SplitStep, Orders
<1>3. o \in Orders /\ o + 1 = k /\ o + 1 \in Orders /\ call.goal <= o
  BY <1>2, ZoneAssumption DEF Orders
<1>4. /\ s \in Nat \ {0}
      /\ buddy = p + s /\ Size[k] = 2 * s
      /\ Aligned(p, o) /\ Aligned(buddy, o)
  BY <1>2, <1>3, SplitHalves, SizePositive DEF Inside
<1>5. Inside(y) /\ Inside(z) /\ buddy \in Frames /\ buddy \in Nat
  BY <1>2, <1>4, ZoneAssumption DEF Inside, Frames
<1>6. ASSUME NEW b \in Live, b # x
      PROVE  /\ Apart(b, y) /\ Apart(y, b) /\ Apart(b, z) /\ Apart(z, b)
             /\ b # y /\ b # z /\ b[1] # p /\ b[1] # buddy
  <2>1. Apart(b, x)
    BY <1>2, <1>6 DEF ZoneInv, Disjoint
  <2>2. b[1] \in Nat /\ Size[b[2]] \in Nat \ {0}
    BY LiveFacts
  <2>. QED
    BY <1>2, <1>4, <1>5, <2>1, <2>2 DEF Apart
<1>7. ASSUME NEW b \in FreeBlocks \cup owned PROVE b \in Live /\ b # x
  BY <1>1, <1>7, InFlightFacts
<1>8. z \notin FreeBlocks /\ y \notin FreeBlocks \cup owned /\ z \notin owned /\ y # z
  BY <1>4, <1>5, <1>2, <1>6, <1>7
<1>9. /\ free' \in [Orders -> Seq(Frames)]
      /\ FreeBlocks' = FreeBlocks \cup {z}
      /\ \A l \in Orders : IsInjective(free'[l])
      /\ \A l \in Orders : Linked(l)' = IF l = o THEN Linked(l) \cup {buddy} ELSE Linked(l)
  BY <1>3, <1>5, <1>8, LinkBlock DEF ZoneInv, SplitStep
<1>10. /\ call' = [call EXCEPT !.order = o]
       /\ call'.page = p /\ call'.order = o /\ call'.goal = call.goal /\ call'.op = "split"
       /\ ~ Idle'
  BY <1>2 DEF SplitStep, Idle
<1>11. /\ owned' = owned /\ usable' = usable /\ range' = range /\ available' = available
       /\ InFlight' = {y}
  BY <1>10 DEF SplitStep, InFlight
<1>12. Live' = (Live \ {x}) \cup {y, z}
  BY <1>2, <1>7, <1>9, <1>11 DEF Live
<1>13. /\ order' \in [Frames -> Orders] /\ isFree' \in [Frames -> BOOLEAN]
       /\ order'[buddy] = o /\ isFree'[buddy]
       /\ \A q \in Frames : q # buddy => order'[q] = order[q] /\ isFree'[q] = isFree[q]
  BY <1>3, <1>5 DEF SplitStep, ZoneInv, TypeOK
<1>14. TypeOK'
  <2>1. call' \in [op : {"split", "unite"}, page : Frames, order : Orders, goal : Orders]
    BY <1>2, <1>3, <1>10
  <2>. QED
    BY <1>9, <1>11, <1>13, <2>1 DEF ZoneInv, TypeOK
<1>15. AllInside'
  BY <1>5, <1>12 DEF ZoneInv, AllInside, Inside
<1>16. Disjoint'
  <2>1. Apart(y, z) /\ Apart(z, y)
    BY <1>2, <1>4, <1>5 DEF Apart
  <2>2. \A b, c \in Live' : b # c => Apart(b, c)
    BY <1>6, <1>12, <2>1 DEF ZoneInv, Disjoint
  <2>. QED
    BY <1>8, <1>9, <1>11, <2>2 DEF ZoneInv, Disjoint, Apart
<1>17. Heads'
  <2>1. ASSUME NEW l \in Orders, NEW q \in Linked(l) PROVE q \in Frames /\ q # buddy
    <3>1. <<q, l>> \in FreeBlocks
      BY FreeBlocksAre
    <3>2. <<q, l>> \in Live /\ <<q, l>> # x
      BY <1>7, <3>1
    <3>3. <<q, l>>[1] # buddy /\ <<q, l>>[1] \in Frames
      BY <1>6, <3>2, LiveFacts
    <3>. QED
      BY <3>3
  <2>2. \A b \in owned : b[1] \in Frames /\ b[1] # buddy
    BY <1>6, <1>7, LiveFacts
  <2>3. \A l \in Orders : \A q \in Linked(l)' : isFree'[q] /\ order'[q] = l
    <3>1. SUFFICES ASSUME NEW l \in Orders, NEW q \in Linked(l)'
                   PROVE  isFree'[q] /\ order'[q] = l
      OBVIOUS
    <3>2. CASE q \in Linked(l)
      BY <1>13, <2>1, <3>2 DEF ZoneInv, Heads
    <3>3. CASE q \notin Linked(l)
      BY <1>9, <1>13, <3>1, <3>3
    <3>. QED
      BY <3>2, <3>3
  <2>4. \A b \in owned' : ~ isFree'[b[1]] /\ order'[b[1]] = b[2]
    BY <1>11, <1>13, <2>2 DEF ZoneInv, Heads
  <2>. QED
    BY <2>3, <2>4 DEF Heads
<1>18. StaleFlags'
  <2>1. SUFFICES ASSUME NEW q \in Frames, isFree'[q]
                 PROVE  /\ Aligned(q, order'[q])
                        /\ \/ <<q, order'[q]>> \in FreeBlocks'
                           \/ q = p
                           \/ \E b \in Live' : Within(q, b) /\ order'[q] < b[2]
    BY <1>10 DEF StaleFlags, Within
  <2>2. CASE q = buddy
    BY <1>4, <1>9, <1>13, <2>2
  <2>3. CASE q # buddy
    <3>1. isFree[q] /\ order'[q] = order[q] /\ order[q] \in Orders
      BY <1>13, <2>1, <2>3 DEF ZoneInv, TypeOK
    <3>2. /\ Aligned(q, order[q])
          /\ \/ <<q, order[q]>> \in FreeBlocks
             \/ q = p
             \/ \E b \in Live : Within(q, b) /\ order[q] < b[2]
      BY <3>1 DEF ZoneInv, StaleFlags
    <3>3. CASE <<q, order[q]>> \in FreeBlocks \/ q = p
      BY <1>9, <3>1, <3>2, <3>3
    <3>4. ASSUME NEW b \in Live, Within(q, b), order[q] < b[2]
          PROVE  \E c \in Live' : Within(q, c) /\ order[q] < c[2]
      <4>1. CASE b # x
        BY <1>12, <3>4, <4>1
      <4>2. CASE b = x
        <5>1. q \in Nat /\ p < q /\ q < p + 2 * s /\ order[q] <= o
          BY <1>2, <1>3, <1>4, <3>1, <3>4, <4>2, ZoneAssumption DEF Within, Frames, Orders
        <5>2. order[q] # o
          <6>1. SUFFICES ASSUME order[q] = o PROVE FALSE
            OBVIOUS
          <6>2. Aligned(q, o)
            BY <3>2, <6>1
          <6>3. CASE q < buddy
            <7>1. q + s <= p + s
              BY <1>2, <1>3, <1>4, <5>1, <6>2, <6>3, Nested, ZoneAssumption DEF Orders
            <7>. QED
              BY <1>2, <1>4, <5>1, <7>1
          <6>4. CASE q > buddy
            <7>1. q < buddy + s /\ buddy < q + s /\ o <= o
              BY <1>2, <1>3, <1>4, <1>5, <5>1, <6>4, ZoneAssumption DEF Orders
            <7>2. q + s <= buddy + s
              BY <1>3, <1>4, <1>5, <5>1, <6>2, <7>1, Nested
            <7>. QED
              BY <1>4, <1>5, <5>1, <6>4, <7>2
          <6>. QED
            BY <1>5, <2>3, <5>1, <6>3, <6>4
        <5>3. order[q] < o
          BY <1>3, <3>1, <5>1, <5>2, ZoneAssumption DEF Orders
        <5>4. Within(q, y) \/ Within(q, z)
          BY <1>2, <1>4, <1>5, <2>3, <5>1 DEF Within
        <5>. QED
          BY <1>12, <5>3, <5>4
      <4>. QED
        BY <4>1, <4>2
    <3>. QED
      BY <3>1, <3>2, <3>3, <3>4
  <2>. QED
    BY <2>2, <2>3
<1>19. Waiting'
  <2>1. ASSUME NEW u \in usable
        PROVE  /\ u \in Frames /\ u # buddy
               /\ u < p \/ p + s <= u
               /\ u < buddy \/ buddy + s <= u
    <3>1. u < p \/ p + Size[k] <= u
      BY <1>2 DEF ZoneInv, Waiting
    <3>2. u \in Frames /\ u \in Nat
      BY ZoneAssumption DEF ZoneInv, TypeOK, Frames
    <3>. QED
      BY <1>2, <1>4, <1>5, <3>1, <3>2
  <2>2. \A u \in usable' : \A b \in Live' : u < b[1] \/ b[1] + Size[b[2]] <= u
    BY <1>11, <1>12, <2>1 DEF ZoneInv, Waiting
  <2>3. \A u \in usable' : ~ isFree'[u]
    BY <1>11, <1>13, <2>1 DEF ZoneInv, Waiting
  <2>. QED
    BY <1>11, <2>2, <2>3 DEF ZoneInv, Waiting
<1>20. Locals'
  BY <1>1, <1>3, <1>10, <1>11 DEF ZoneInv, Locals, SplitStep
<1>. QED
  BY <1>14, <1>15, <1>16, <1>17, <1>18, <1>19, <1>20 DEF ZoneInv

(* When Split ends the block in progress becomes one that a caller holds.  *)
LEMMA SplitDoneInv ==
  ASSUME ZoneInv, SplitDone
  PROVE  ZoneInv'
<1>. DEFINE p == call.page
            k == call.order
            x == <<p, k>>
<1>1. ~ Idle /\ Idle' /\ call' = NoCall
  BY DEF SplitDone, Idle, NoCall, Call
<1>2. /\ p \in Frames /\ k \in Orders /\ call.goal = k
      /\ x \in Live /\ InFlight = {x} /\ InFlight' = {}
      /\ \A b \in FreeBlocks \cup owned : b \in Live /\ b # x /\ Apart(b, x)
      /\ Size[k] \in Nat \ {0} /\ p \in Nat
  BY <1>1, InFlightFacts, SizePositive, ZoneAssumption DEF SplitDone, InFlight, Frames
<1>3. /\ FreeBlocks' = FreeBlocks /\ \A o \in Orders : Linked(o)' = Linked(o)
      /\ free' = free /\ owned' = owned \cup {x}
      /\ usable' = usable /\ range' = range /\ available' = available
  BY <1>2 DEF SplitDone, FreeBlocks, Linked
<1>4. Live' = Live
  BY <1>2, <1>3 DEF Live
<1>5. /\ order' \in [Frames -> Orders] /\ isFree' \in [Frames -> BOOLEAN]
      /\ order'[p] = k /\ ~ isFree'[p]
      /\ \A q \in Frames : q # p => order'[q] = order[q] /\ isFree'[q] = isFree[q]
  BY <1>2 DEF SplitDone, ZoneInv, TypeOK
<1>6. ASSUME NEW b \in FreeBlocks \cup owned PROVE b[1] # p /\ b[1] \in Frames
  <2>1. Apart(b, x) /\ b[1] \in Nat /\ b[1] \in Frames /\ Size[b[2]] \in Nat \ {0}
    BY <1>2, LiveFacts
  <2>. QED
    BY <1>2, <2>1 DEF Apart
<1>7. TypeOK'
  BY <1>1, <1>2, <1>3, <1>5 DEF ZoneInv, TypeOK
<1>8. AllInside'
  BY <1>4 DEF ZoneInv, AllInside, Inside
<1>9. Disjoint'
  <2>1. \A b, c \in Live' : b # c => Apart(b, c)
    BY <1>4 DEF ZoneInv, Disjoint
  <2>2. FreeBlocks' \cap owned' = {}
    BY <1>2, <1>3 DEF ZoneInv, Disjoint
  <2>. QED
    BY <1>2, <1>3, <2>1, <2>2 DEF ZoneInv, Disjoint, Apart
<1>10. Heads'
  <2>1. ASSUME NEW l \in Orders, NEW q \in Linked(l) PROVE q # p /\ q \in Frames
    <3>1. <<q, l>> \in FreeBlocks
      BY FreeBlocksAre
    <3>2. <<q, l>>[1] # p /\ <<q, l>>[1] \in Frames
      BY <1>6, <3>1
    <3>. QED
      BY <3>2
  <2>2. \A l \in Orders : \A q \in Linked(l)' : isFree'[q] /\ order'[q] = l
    BY <1>3, <1>5, <2>1 DEF ZoneInv, Heads
  <2>3. \A b \in owned' : ~ isFree'[b[1]] /\ order'[b[1]] = b[2]
    BY <1>3, <1>5, <1>6 DEF ZoneInv, Heads
  <2>. QED
    BY <2>2, <2>3 DEF Heads
<1>11. StaleFlags'
  <2>1. SUFFICES ASSUME NEW q \in Frames, isFree'[q]
                 PROVE  /\ Aligned(q, order'[q])
                        /\ \/ <<q, order'[q]>> \in FreeBlocks'
                           \/ \E b \in Live' : Within(q, b) /\ order'[q] < b[2]
    BY DEF StaleFlags, Within
  <2>2. q # p /\ isFree[q] /\ order'[q] = order[q]
    BY <1>5, <2>1
  <2>3. /\ Aligned(q, order[q])
        /\ \/ <<q, order[q]>> \in FreeBlocks
           \/ \E b \in Live : Within(q, b) /\ order[q] < b[2]
    BY <2>2 DEF ZoneInv, StaleFlags
  <2>. QED
    BY <1>3, <1>4, <2>2, <2>3
<1>12. Waiting'
  <2>1. \A u \in usable' : ~ isFree'[u]
    BY <1>3, <1>5 DEF ZoneInv, Waiting, TypeOK
  <2>. QED
    BY <1>3, <1>4, <2>1 DEF ZoneInv, Waiting
<1>13. Locals'
  BY <1>1 DEF Locals
<1>. QED
  BY <1>7, <1>8, <1>9, <1>10, <1>11, <1>12, <1>13 DEF ZoneInv

(* FreePages makes a held block the one in progress.                       *)
LEMMA FreePagesInv ==
  ASSUME ZoneInv, NEW p \in Frames, NEW o \in Orders, FreePages(p, o)
  PROVE  ZoneInv'
<1>. DEFINE x == <<p, o>>
<1>1. x \in owned /\ order[p] = o /\ ~ isFree[p] /\ Idle
  BY DEF FreePages, ZoneInv, Heads
<1>2. /\ call' = Call("unite", p, o, o)
      /\ call'.op = "unite" /\ call'.page = p /\ call'.order = o /\ call'.goal = o
      /\ ~ Idle'
  BY <1>1 DEF FreePages, Call, Idle
<1>3. /\ free' = free /\ order' = order /\ isFree' = isFree /\ available' = available
      /\ FreeBlocks' = FreeBlocks /\ \A l \in Orders : Linked(l)' = Linked(l)
      /\ usable' = usable /\ range' = range /\ owned' = owned \ {x}
      /\ InFlight = {} /\ InFlight' = {x}
  BY <1>1, <1>2 DEF FreePages, zoneState, FreeBlocks, Linked, InFlight
<1>4. Live' = Live
  BY <1>1, <1>3 DEF Live
<1>5. TypeOK'
  <2>1. call' \in [op : {"split", "unite"}, page : Frames, order : Orders, goal : Orders]
    BY <1>2 DEF Call
  <2>. QED
    BY <1>3, <2>1 DEF ZoneInv, TypeOK
<1>6. AllInside' /\ Waiting'
  BY <1>3, <1>4 DEF ZoneInv, AllInside, Inside, Waiting
<1>7. Disjoint'
  BY <1>1, <1>3, <1>4 DEF ZoneInv, Disjoint, Apart
<1>8. Heads'
  BY <1>3 DEF ZoneInv, Heads
<1>9. StaleFlags'
  BY <1>1, <1>3, <1>4 DEF ZoneInv, StaleFlags, Within
<1>10. Locals'
  BY <1>1, <1>2, <1>3, ZoneAssumption DEF Locals, Orders
<1>. QED
  BY <1>5, <1>6, <1>7, <1>8, <1>9, <1>10 DEF ZoneInv

(* The buddy that Unite is about to unlink is in the list it is unlinked   *)
(* from: its flag cannot be a stale one, because a larger block around it  *)
(* would also cover the block being freed.                                 *)
LEMMA UniteUnlinksFree ==
  ASSUME ZoneInv
  PROVE  UnlinkSafe
<1>. DEFINE p == call.page
            o == call.order
            s == Size[o]
            buddy == BuddyOffset(p, o)
            x == <<p, o>>
            l == Lower(p, buddy)
<1>1. SUFFICES ASSUME call.op = "unite", CanUnite(p, o)
               PROVE  buddy \in Linked(o)
  BY DEF UnlinkSafe
<1>2. ~ Idle
  BY <1>1 DEF Idle
<1>3. /\ p \in Frames /\ o \in Orders /\ x \in Live /\ InFlight = {x}
      /\ p \in Nat /\ Inside(x) /\ s \in Nat \ {0}
  <2>1. p \in Frames /\ o \in Orders /\ x \in Live /\ InFlight = {x}
    BY <1>2, InFlightFacts
  <2>. QED
    BY <2>1, LiveFacts, SizePositive, ZoneAssumption DEF Frames
<1>4. o + 1 \in Orders /\ buddy \in Frames /\ order[buddy] = o /\ isFree[buddy]
  BY <1>1, <1>3, ZoneAssumption DEF CanUnite, Orders
<1>5. /\ buddy \in Nat /\ Aligned(l, o + 1) /\ l \in Nat
      /\ buddy = p + s \/ p = buddy + s
      /\ Size[o + 1] = 2 * s
  <2>1. Aligned(p, o)
    BY <1>3 DEF Inside
  <2>. QED
    BY <1>3, <1>4, <2>1, BuddyPair DEF Lower
<1>6. ASSUME NEW b \in Live, Within(buddy, b), o < b[2] PROVE FALSE
  <2>1. b # x /\ b[1] \in Nat /\ b[2] \in Orders /\ Size[b[2]] \in Nat \ {0} /\ Aligned(b[1], b[2])
    BY <1>3, <1>6, LiveFacts, ZoneAssumption DEF Inside, Orders
  <2>2. l < b[1] + Size[b[2]] /\ b[1] < l + Size[o + 1] /\ o + 1 <= b[2]
    BY <1>3, <1>5, <1>6, <2>1, ZoneAssumption DEF Within, Lower, Orders
  <2>3. b[1] <= l /\ l + Size[o + 1] <= b[1] + Size[b[2]]
    BY <1>4, <1>5, <2>1, <2>2, Nested
  <2>4. Apart(b, x)
    BY <1>3, <2>1 DEF ZoneInv, Disjoint
  <2>. QED
    BY <1>3, <1>5, <2>1, <2>3, <2>4 DEF Apart, Lower
<1>7. buddy # p
  BY <1>3, <1>5
<1>8. <<buddy, o>> \in FreeBlocks
  BY <1>4, <1>6, <1>7 DEF ZoneInv, StaleFlags
<1>. QED
  BY <1>8, FreeBlocksAre

(* An iteration of Unite unlinks the buddy, which is a free block, and     *)
(* joins the two.                                                          *)
LEMMA UniteStepInv ==
  ASSUME ZoneInv, UniteStep
  PROVE  ZoneInv'
<1>. DEFINE p == call.page
            o == call.order
            s == Size[o]
            buddy == BuddyOffset(p, o)
            l == Lower(p, buddy)
            x == <<p, o>>
            w == <<buddy, o>>
            y == <<l, o + 1>>
<1>1. ~ Idle /\ CanUnite(p, o) /\ call.op = "unite"
  BY DEF UniteStep, Idle
<1>2. /\ p \in Frames /\ o \in Orders /\ x \in Live /\ InFlight = {x}
      /\ p \in Nat /\ Inside(x) /\ s \in Nat \ {0}
      /\ call \in [op : {"split", "unite"}, page : Frames, order : Orders, goal : Orders]
      /\ \A b \in FreeBlocks \cup owned : b \in Live /\ b # x /\ Apart(b, x)
  <2>1. p \in Frames /\ o \in Orders /\ x \in Live
    BY <1>1, InFlightFacts
  <2>2. p \in Nat /\ Inside(x) /\ s \in Nat \ {0}
    BY <2>1, LiveFacts, SizePositive, ZoneAssumption DEF Frames
  <2>. QED
    BY <1>1, <2>1, <2>2, InFlightFacts
<1>3. /\ o + 1 \in Orders /\ buddy \in Frames /\ order[buddy] = o /\ isFree[buddy]
      /\ o < o + 1
  BY <1>1, <1>2, ZoneAssumption DEF CanUnite, Orders
<1>4. buddy \in Linked(o) /\ w \in FreeBlocks /\ w \in Live /\ w # x
  <2>1. buddy \in Linked(o)
    BY <1>1, UniteUnlinksFree DEF UnlinkSafe
  <2>. QED
    BY <1>2, <2>1, FreeBlocksAre
<1>5. /\ buddy \in Nat /\ Aligned(l, o + 1) /\ l \in Nat /\ l \in Frames
      /\ \/ l = p /\ buddy = l + s
         \/ l = buddy /\ p = l + s
      /\ Size[o + 1] = 2 * s
  <2>1. Aligned(p, o)
    BY <1>2 DEF Inside
  <2>2. /\ buddy \in Nat /\ Aligned(l, o + 1)
        /\ buddy = p + s \/ p = buddy + s
        /\ Size[o + 1] = 2 * s
    BY <1>2, <1>3, <2>1, BuddyPair
  <2>3. CASE buddy = p + s
    <3>1. l = p
      BY <1>2, <2>3 DEF Lower
    <3>. QED
      BY <1>2, <2>2, <2>3, <3>1
  <2>4. CASE p = buddy + s
    <3>1. l = buddy
      BY <1>2, <2>2, <2>4 DEF Lower
    <3>. QED
      BY <1>2, <1>3, <2>2, <2>4, <3>1
  <2>. QED
    BY <2>2, <2>3, <2>4
<1>6. Inside(w) /\ Inside(y)
  <2>1. Inside(w)
    BY <1>4, LiveFacts
  <2>. QED
    BY <1>2, <1>5, <2>1, ZoneAssumption DEF Inside
<1>7. /\ free' \in [Orders -> Seq(Frames)]
      /\ FreeBlocks' = FreeBlocks \ {w}
      /\ \A k \in Orders : IsInjective(free'[k])
      /\ \A k \in Orders : Linked(k)' = IF k = o THEN Linked(k) \ {buddy} ELSE Linked(k)
  <2>1. free' = [free EXCEPT ![o] = Unlink(buddy, @)]
    BY DEF UniteStep
  <2>2. TypeOK /\ Disjoint
    BY DEF ZoneInv
  <2>. QED
    BY <1>2, <1>4, <2>1, <2>2, UnlinkBlock
<1>8. /\ call' = [call EXCEPT !.page = l, !.order = o + 1]
      /\ call'.page = l /\ call'.order = o + 1 /\ call'.goal = call.goal /\ call'.op = "unite"
      /\ ~ Idle'
  BY <1>1, <1>2 DEF UniteStep, Idle
<1>9. /\ order' = order /\ isFree' = isFree /\ owned' = owned /\ available' = available
      /\ usable' = usable /\ range' = range
      /\ InFlight' = {y}
  BY <1>8 DEF UniteStep, InFlight
<1>10. Live' = (Live \ {x, w}) \cup {y}
  <2>1. w \notin owned
    BY <1>4 DEF ZoneInv, Disjoint
  <2>. QED
    BY <1>2, <1>4, <1>7, <1>9, <2>1 DEF Live
<1>11. ASSUME NEW b \in Live, b # x, b # w
       PROVE  Apart(b, y) /\ Apart(y, b) /\ b # y
  <2>1. Apart(b, x) /\ Apart(b, w)
    BY <1>2, <1>4, <1>11 DEF ZoneInv, Disjoint
  <2>2. b[1] \in Nat /\ Size[b[2]] \in Nat \ {0}
    BY LiveFacts
  <2>. QED
    BY <1>2, <1>5, <2>1, <2>2 DEF Apart
<1>12. TypeOK'
  <2>1. call' \in [op : {"split", "unite"}, page : Frames, order : Orders, goal : Orders]
    BY <1>2, <1>3, <1>5, <1>8
  <2>. QED
    BY <1>7, <1>9, <2>1 DEF ZoneInv, TypeOK
<1>13. AllInside'
  BY <1>6, <1>10 DEF ZoneInv, AllInside, Inside
<1>14. Disjoint'
  <2>1. \A b, c \in Live' : b # c => Apart(b, c)
    BY <1>10, <1>11 DEF ZoneInv, Disjoint
  <2>2. FreeBlocks' \cap owned' = {}
    BY <1>7, <1>9 DEF ZoneInv, Disjoint
  <2>3. y \notin FreeBlocks' \cup owned'
    <3>1. ASSUME NEW b \in FreeBlocks' \cup owned' PROVE b \in Live /\ b # x /\ b # w
      BY <1>2, <1>4, <1>7, <1>9, <3>1 DEF ZoneInv, Disjoint
    <3>. QED
      BY <1>11, <3>1
  <2>. QED
    BY <1>7, <1>9, <2>1, <2>2, <2>3 DEF Disjoint, Apart
<1>15. Heads'
  BY <1>7, <1>9 DEF ZoneInv, Heads
<1>16. StaleFlags'
  <2>1. SUFFICES ASSUME NEW q \in Frames, isFree[q]
                 PROVE  /\ Aligned(q, order[q])
                        /\ \/ <<q, order[q]>> \in FreeBlocks'
                           \/ q = l
                           \/ \E b \in Live' : Within(q, b) /\ order[q] < b[2]
    BY <1>8, <1>9 DEF StaleFlags, Within
  <2>2. /\ Aligned(q, order[q])
        /\ \/ <<q, order[q]>> \in FreeBlocks
           \/ q = p
           \/ \E b \in Live : Within(q, b) /\ order[q] < b[2]
    BY <2>1 DEF ZoneInv, StaleFlags
  <2>3. order[q] \in Orders /\ order[q] \in Nat /\ q \in Nat
    BY ZoneAssumption DEF ZoneInv, TypeOK, Orders, Frames
  <2>4. ASSUME q = p \/ q = buddy, q # l PROVE Within(q, y) /\ order[q] < o + 1
    <3>1. Within(q, y)
      BY <1>2, <1>5, <2>4 DEF Within
    <3>2. isFree[p] => order[p] < o
      BY <1>1 DEF ZoneInv, Locals
    <3>3. order[q] <= o /\ o \in Nat
      BY <1>2, <1>3, <2>1, <2>3, <2>4, <3>2, ZoneAssumption DEF Orders
    <3>. QED
      BY <2>3, <3>1, <3>3
  <2>5. CASE q = p \/ q = buddy
    BY <1>10, <2>2, <2>4, <2>5
  <2>6. CASE <<q, order[q]>> \in FreeBlocks /\ q # buddy
    BY <1>7, <2>2, <2>6
  <2>7. ASSUME NEW b \in Live, Within(q, b), order[q] < b[2]
        PROVE  \E c \in Live' : Within(q, c) /\ order[q] < c[2]
    <3>1. CASE b # x /\ b # w
      BY <1>10, <2>7, <3>1
    <3>2. CASE b = x \/ b = w
      <4>1. Within(q, y)
        BY <1>2, <1>5, <2>3, <2>7, <3>2 DEF Within
      <4>2. order[q] < o + 1
        BY <1>2, <1>3, <2>3, <2>7, <3>2, ZoneAssumption DEF Orders
      <4>. QED
        BY <1>10, <4>1, <4>2
    <3>. QED
      BY <3>1, <3>2
  <2>. QED
    BY <2>2, <2>5, <2>6, <2>7
<1>17. Waiting'
  <2>1. ASSUME NEW u \in usable
        PROVE  u < l \/ l + Size[o + 1] <= u
    <3>1. (u < p \/ p + s <= u) /\ (u < buddy \/ buddy + s <= u)
      BY <1>2, <1>4 DEF ZoneInv, Waiting
    <3>2. u \in Nat
      BY ZoneAssumption DEF ZoneInv, TypeOK, Frames
    <3>. QED
      BY <1>2, <1>5, <3>1, <3>2
  <2>2. \A u \in usable' : \A b \in Live' : u < b[1] \/ b[1] + Size[b[2]] <= u
    BY <1>9, <1>10, <2>1 DEF ZoneInv, Waiting
  <2>. QED
    BY <1>9, <2>2 DEF ZoneInv, Waiting
<1>18. Locals'
  <2>1. call.goal <= o /\ (isFree[p] => order[p] < o) /\ order[p] \in Nat
    BY <1>1, <1>2, ZoneAssumption DEF ZoneInv, Locals, TypeOK, Orders
  <2>2. isFree[l] => order[l] < o + 1
    BY <1>3, <1>5, <2>1, <1>2, ZoneAssumption DEF Orders
  <2>3. call.goal <= o + 1
    BY <1>2, <2>1, ZoneAssumption DEF Orders
  <2>. QED
    BY <1>8, <1>9, <2>2, <2>3 DEF Locals
<1>. QED
  BY <1>12, <1>13, <1>14, <1>15, <1>16, <1>17, <1>18 DEF ZoneInv

(* When Unite ends the block in progress is linked and its page flagged    *)
(* free.                                                                   *)
LEMMA UniteDoneInv ==
  ASSUME ZoneInv, UniteDone
  PROVE  ZoneInv'
<1>. DEFINE p == call.page
            o == call.order
            x == <<p, o>>
<1>1. ~ Idle /\ Idle' /\ call' = NoCall
  BY DEF UniteDone, Idle, NoCall, Call
<1>2. /\ p \in Frames /\ o \in Orders /\ call.goal \in Orders
      /\ x \in Live /\ InFlight = {x} /\ InFlight' = {}
      /\ \A b \in FreeBlocks \cup owned : b \in Live /\ b # x /\ Apart(b, x)
      /\ Size[o] \in Nat \ {0} /\ p \in Nat /\ Aligned(p, o)
  <2>1. /\ p \in Frames /\ o \in Orders /\ call.goal \in Orders
        /\ x \in Live /\ InFlight = {x}
        /\ \A b \in FreeBlocks \cup owned : b \in Live /\ b # x /\ Apart(b, x)
    BY <1>1, InFlightFacts
  <2>2. Size[o] \in Nat \ {0} /\ p \in Nat /\ Aligned(p, o)
    BY <2>1, LiveFacts, SizePositive, ZoneAssumption DEF Inside, Frames
  <2>. QED
    BY <1>1, <2>1, <2>2 DEF InFlight
<1>3. /\ free' \in [Orders -> Seq(Frames)]
      /\ FreeBlocks' = FreeBlocks \cup {x}
      /\ \A k \in Orders : IsInjective(free'[k])
      /\ \A k \in Orders : Linked(k)' = IF k = o THEN Linked(k) \cup {p} ELSE Linked(k)
  BY <1>2, LinkBlock DEF ZoneInv, UniteDone
<1>4. owned' = owned /\ usable' = usable /\ range' = range
  BY DEF UniteDone
<1>5. Live' = Live
  BY <1>2, <1>3, <1>4 DEF Live
<1>6. /\ order' \in [Frames -> Orders] /\ isFree' \in [Frames -> BOOLEAN]
      /\ order'[p] = o /\ isFree'[p]
      /\ \A q \in Frames : q # p => order'[q] = order[q] /\ isFree'[q] = isFree[q]
  BY <1>2 DEF UniteDone, ZoneInv, TypeOK
<1>7. ASSUME NEW b \in FreeBlocks \cup owned PROVE b[1] # p /\ b[1] \in Frames
  <2>1. Apart(b, x) /\ b[1] \in Nat /\ b[1] \in Frames /\ Size[b[2]] \in Nat \ {0}
    BY <1>2, LiveFacts
  <2>. QED
    BY <1>2, <2>1 DEF Apart
<1>8. TypeOK'
  <2>1. available' \in Int
    BY <1>2, SizePositive DEF UniteDone, ZoneInv, TypeOK
  <2>. QED
    BY <1>1, <1>3, <1>4, <1>6, <2>1 DEF ZoneInv, TypeOK
<1>9. AllInside'
  BY <1>5 DEF ZoneInv, AllInside, Inside
<1>10. Disjoint'
  <2>1. \A b, c \in Live' : b # c => Apart(b, c)
    BY <1>5 DEF ZoneInv, Disjoint
  <2>2. FreeBlocks' \cap owned' = {}
    BY <1>2, <1>3, <1>4 DEF ZoneInv, Disjoint
  <2>. QED
    BY <1>2, <1>3, <2>1, <2>2 DEF Disjoint, Apart
<1>11. Heads'
  <2>1. ASSUME NEW k \in Orders, NEW q \in Linked(k) PROVE q # p /\ q \in Frames
    <3>1. <<q, k>> \in FreeBlocks
      BY FreeBlocksAre
    <3>2. <<q, k>>[1] # p /\ <<q, k>>[1] \in Frames
      BY <1>7, <3>1
    <3>. QED
      BY <3>2
  <2>2. \A k \in Orders : \A q \in Linked(k)' : isFree'[q] /\ order'[q] = k
    <3>1. SUFFICES ASSUME NEW k \in Orders, NEW q \in Linked(k)'
                   PROVE  isFree'[q] /\ order'[q] = k
      OBVIOUS
    <3>2. CASE q \in Linked(k)
      BY <1>6, <2>1, <3>2 DEF ZoneInv, Heads
    <3>3. CASE q \notin Linked(k)
      <4>1. Linked(k)' = IF k = o THEN Linked(k) \cup {p} ELSE Linked(k)
        BY <1>3
      <4>2. k = o /\ q = p
        BY <3>1, <3>3, <4>1
      <4>. QED
        BY <1>6, <4>2
    <3>. QED
      BY <3>2, <3>3
  <2>3. \A b \in owned' : ~ isFree'[b[1]] /\ order'[b[1]] = b[2]
    BY <1>4, <1>6, <1>7 DEF ZoneInv, Heads
  <2>. QED
    BY <2>2, <2>3 DEF Heads
<1>12. StaleFlags'
  <2>1. SUFFICES ASSUME NEW q \in Frames, isFree'[q]
                 PROVE  /\ Aligned(q, order'[q])
                        /\ \/ <<q, order'[q]>> \in FreeBlocks'
                           \/ \E b \in Live' : Within(q, b) /\ order'[q] < b[2]
    BY DEF StaleFlags, Within
  <2>2. CASE q = p
    BY <1>2, <1>3, <1>6, <2>2
  <2>3. CASE q # p
    <3>1. isFree[q] /\ order'[q] = order[q]
      BY <1>6, <2>1, <2>3
    <3>2. /\ Aligned(q, order[q])
          /\ \/ <<q, order[q]>> \in FreeBlocks
             \/ \E b \in Live : Within(q, b) /\ order[q] < b[2]
      BY <2>3, <3>1 DEF ZoneInv, StaleFlags
    <3>. QED
      BY <1>3, <1>5, <3>1, <3>2
  <2>. QED
    BY <2>2, <2>3
<1>13. Waiting'
  <2>1. \A u \in usable : u # p /\ u \in Frames
    <3>1. \A u \in usable : u < p \/ p + Size[o] <= u
      BY <1>2 DEF ZoneInv, Waiting
    <3>2. \A u \in usable : u \in Frames /\ u \in Nat
      BY ZoneAssumption DEF ZoneInv, TypeOK, Frames
    <3>. QED
      BY <1>2, <3>1, <3>2
  <2>2. \A u \in usable' : ~ isFree'[u]
    BY <1>4, <1>6, <2>1 DEF ZoneInv, Waiting
  <2>. QED
    BY <1>4, <1>5, <2>2 DEF ZoneInv, Waiting
<1>14. Locals'
  BY <1>1 DEF Locals
<1>. QED
  BY <1>8, <1>9, <1>10, <1>11, <1>12, <1>13, <1>14 DEF ZoneInv

(* Every step of the zone keeps the invariant.                             *)
LEMMA NextInv == ZoneInv /\ [Next]_vars => ZoneInv'
<1>1. ASSUME ZoneInv, Next PROVE ZoneInv'
  <2>1. ASSUME NEW o \in Orders, AllocateFails(o) PROVE ZoneInv'
    <3>1. UNCHANGED vars
      BY <2>1 DEF AllocateFails
    <3>. QED
      BY <1>1, <3>1 DEF vars, ZoneInv, TypeOK, AllInside, Inside, Disjoint, Apart, Heads,
           StaleFlags, Within, Waiting, Locals, Live, FreeBlocks, Linked, InFlight, Idle
  <2>. QED
    BY <1>1, <2>1, FreeMemoryInv, FreeMemoryStepInv, AllocatePagesInv, FreePagesInv,
       SplitStepInv, SplitDoneInv, UniteStepInv, UniteDoneInv DEF Next, Step
<1>2. ASSUME ZoneInv, UNCHANGED vars PROVE ZoneInv'
  BY <1>2 DEF vars, ZoneInv, TypeOK, AllInside, Inside, Disjoint, Apart, Heads,
       StaleFlags, Within, Waiting, Locals, Live, FreeBlocks, Linked, InFlight, Idle
<1>. QED
  BY <1>1, <1>2

-----------------------------------------------------------------------------
(* Every reachable state satisfies ZoneInv.                                *)
THEOREM ZoneInvariant == Spec => []ZoneInv
<1>. QED
  BY InitInv, NextInv, PTL DEF Spec

(* The state of the zone stays well formed: in particular every page that  *)
(* Split or Unite computes lies in the zone's page array.                  *)
THEOREM TypeCorrect == Spec => []TypeOK
<1>1. ZoneInv => TypeOK
  BY DEF ZoneInv
<1>. QED
  BY <1>1, ZoneInvariant, PTL

(* No page is ever in two blocks, whether free, held by a caller or in the *)
(* hands of Split or Unite; and no block is linked twice.                  *)
THEOREM BlocksDisjoint == Spec => []Disjoint
<1>1. ZoneInv => Disjoint
  BY DEF ZoneInv
<1>. QED
  BY <1>1, ZoneInvariant, PTL

(* Unite only ever unlinks a page from the list that holds it.             *)
THEOREM UnlinkIsSafe == Spec => []UnlinkSafe
<1>1. ZoneInv => UnlinkSafe
  BY UniteUnlinksFree
<1>. QED
  BY <1>1, ZoneInvariant, PTL

-----------------------------------------------------------------------------
(* Free buddies are always merged.                                         *)

(* No step leaves two free buddies apart: the only block linked without a  *)
(* look at its buddy is the half that SplitStep links, whose buddy is the  *)
(* block in progress.                                                      *)
LEMMA NoFreeBuddiesStep ==
  ASSUME ZoneInv, NoFreeBuddies, [Next]_vars
  PROVE  NoFreeBuddies'
<1>. DEFINE p == call.page
<1>1. ASSUME FreeBlocks' \subseteq FreeBlocks PROVE NoFreeBuddies'
  <2>1. ASSUME NEW o \in Orders, NEW q \in Linked(o)' PROVE q \in Linked(o)
    <3>1. <<q, o>> \in FreeBlocks'
      BY <2>1 DEF FreeBlocks
    <3>. QED
      BY <1>1, <3>1, FreeBlocksAre
  <2>2. SUFFICES ASSUME NEW k \in Orders \ {MaxOrder}, NEW r \in Linked(k)',
                        BuddyOffset(r, k) \in Linked(k)'
                 PROVE  FALSE
    BY DEF NoFreeBuddies
  <2>. QED
    BY <2>1, <2>2 DEF NoFreeBuddies
(* One page q joins the list of order o; it is enough that its buddy is    *)
(* not there.                                                              *)
<1>2. ASSUME NEW o \in Orders \ {MaxOrder}, NEW q \in Frames, Aligned(q, o),
             BuddyOffset(q, o) \notin Linked(o),
             \A k \in Orders : Linked(k)' = IF k = o THEN Linked(k) \cup {q} ELSE Linked(k)
      PROVE  NoFreeBuddies'
  <2>1. SUFFICES ASSUME NEW k \in Orders \ {MaxOrder}, NEW r \in Linked(k)',
                        BuddyOffset(r, k) \in Linked(k)'
                 PROVE  FALSE
    BY DEF NoFreeBuddies
  <2>2. CASE k # o
    BY <1>2, <2>1, <2>2 DEF NoFreeBuddies
  <2>3. CASE k = o
    <3>1. q \in Nat /\ o \in Orders /\ o + 1 \in Orders
      BY ZoneAssumption DEF Frames, Orders
    <3>2. /\ BuddyOffset(BuddyOffset(q, o), o) = q
          /\ BuddyOffset(q, o) # q
      BY <1>2, <3>1, BuddyPair, SizePositive
    <3>3. Linked(o)' = Linked(o) \cup {q}
      BY <1>2
    <3>4. CASE r = q
      BY <1>2, <2>1, <2>3, <3>2, <3>3, <3>4
    <3>5. CASE r \in Linked(o) /\ BuddyOffset(r, o) = q
      <4>1. <<r, o>> \in Live
        BY <3>5, FreeBlocksAre DEF Live
      <4>2. /\ <<r, o>>[1] \in Nat
            /\ Aligned(<<r, o>>[1], <<r, o>>[2])
        BY <4>1, LiveFacts DEF Inside
      <4>3. BuddyOffset(q, o) = r
        BY <3>1, <3>5, <4>2, BuddyPair
      <4>. QED
        BY <1>2, <3>5, <4>3
    <3>6. CASE r \in Linked(o) /\ BuddyOffset(r, o) \in Linked(o)
      BY <2>1, <2>3, <3>6 DEF NoFreeBuddies
    <3>. QED
      BY <2>1, <2>3, <3>3, <3>4, <3>5, <3>6
  <2>. QED
    BY <2>2, <2>3
<1>3. CASE SplitStep
  <2>. DEFINE o == call.order - 1
              buddy == BuddyOffset(p, o)
  <2>1. ~ Idle
    BY <1>3 DEF SplitStep, Idle
  <2>2. /\ call.order \in Orders /\ o \in Orders \ {MaxOrder} /\ o + 1 = call.order
        /\ p \in Frames /\ p \in Nat /\ Inside(<<p, call.order>>)
    <3>1. /\ call.order \in Orders /\ call.goal \in Orders /\ p \in Frames
          /\ <<p, call.order>> \in Live
      BY <2>1, InFlightFacts
    <3>2. Inside(<<p, call.order>>)
      BY <3>1, LiveFacts
    <3>. QED
      BY <1>3, <3>1, <3>2, ZoneAssumption DEF SplitStep, Orders, Frames
  <2>3. /\ Size[o] \in Nat \ {0} /\ buddy = p + Size[o] /\ Size[call.order] = 2 * Size[o]
        /\ Aligned(p, o) /\ Aligned(buddy, o)
    BY <2>2, SplitHalves, SizePositive DEF Inside
  <2>4. buddy \in Frames
    BY <2>2, <2>3, ZoneAssumption DEF Inside, Frames
  <2>5. ASSUME NEW q \in {p, buddy} PROVE <<q, o>> \notin FreeBlocks
    <3>1. ~ Apart(<<q, o>>, <<p, call.order>>)
      BY <2>2, <2>3 DEF Apart
    <3>. QED
      BY <2>1, <3>1, InFlightFacts
  <2>6. BuddyOffset(buddy, o) = p
    BY <2>2, <2>3, BuddyPair
  <2>7. \A k \in Orders : Linked(k)' = IF k = o THEN Linked(k) \cup {buddy} ELSE Linked(k)
    <3>1. <<buddy, o>> \notin FreeBlocks /\ free' = [free EXCEPT ![o] = Cons(buddy, @)]
      BY <1>3, <2>5 DEF SplitStep
    <3>2. TypeOK /\ Disjoint
      BY DEF ZoneInv
    <3>. QED
      BY <2>2, <2>4, <3>1, <3>2, LinkBlock
  <2>8. BuddyOffset(buddy, o) \notin Linked(o)
    BY <2>2, <2>5, <2>6, FreeBlocksAre
  <2>. HIDE DEF buddy, o
  <2>. QED
    BY <1>2, <2>2, <2>3, <2>4, <2>7, <2>8
<1>4. CASE UniteDone
  <2>. DEFINE o == call.order
              buddy == BuddyOffset(p, o)
  <2>1. ~ Idle
    BY <1>4 DEF UniteDone, Idle
  <2>2. /\ o \in Orders /\ p \in Frames /\ Aligned(p, o)
        /\ <<p, o>> \notin FreeBlocks
    <3>1. o \in Orders /\ p \in Frames /\ <<p, o>> \in Live
      BY <2>1, InFlightFacts
    <3>2. Inside(<<p, o>>)
      BY <3>1, LiveFacts
    <3>. QED
      BY <2>1, <3>1, <3>2, InFlightFacts DEF Inside
  <2>3. \A k \in Orders : Linked(k)' = IF k = o THEN Linked(k) \cup {p} ELSE Linked(k)
    <3>1. free' = [free EXCEPT ![o] = Cons(p, @)]
      BY <1>4 DEF UniteDone
    <3>2. TypeOK /\ Disjoint
      BY DEF ZoneInv
    <3>. QED
      BY <2>2, <3>1, <3>2, LinkBlock
  <2>4. CASE o = MaxOrder
    <3>1. \A k \in Orders \ {MaxOrder} : Linked(k)' = Linked(k)
      BY <2>3, <2>4
    <3>. QED
      BY <3>1 DEF NoFreeBuddies
  <2>5. CASE o # MaxOrder
    <3>1. o < MaxOrder
      BY <2>2, <2>5, ZoneAssumption DEF Orders
    <3>2. ASSUME buddy \in Linked(o) PROVE FALSE
      <4>1. isFree[buddy] /\ order[buddy] = o
        BY <2>2, <3>2 DEF ZoneInv, Heads
      <4>2. buddy \in Frames
        BY <2>2, <3>2 DEF ZoneInv, TypeOK, Linked, ToSet
      <4>. QED
        BY <1>4, <3>1, <4>1, <4>2 DEF UniteDone, CanUnite
    <3>. HIDE DEF o
    <3>. QED
      BY <1>2, <2>2, <2>3, <2>5, <3>2
  <2>. QED
    BY <2>4, <2>5
<1>5. CASE UniteStep
  <2>1. /\ ~ Idle
        /\ BuddyOffset(p, call.order) \in Linked(call.order)
        /\ free' = [free EXCEPT ![call.order] = Unlink(BuddyOffset(p, call.order), @)]
    BY <1>5, UniteUnlinksFree DEF UniteStep, UnlinkSafe, Idle
  <2>2. call.order \in Orders /\ TypeOK /\ Disjoint
    BY <2>1, InFlightFacts DEF ZoneInv
  <2>3. FreeBlocks' \subseteq FreeBlocks
    BY <2>1, <2>2, UnlinkBlock
  <2>. QED
    BY <1>1, <2>3
<1>6. ASSUME NEW o \in Orders, NEW from \in Orders, AllocatePages(o, from)
      PROVE  NoFreeBuddies'
  <2>1. free \in [Orders -> Seq(Frames)] /\ free[from] # <<>> /\ TypeOK /\ Disjoint
    BY <1>6 DEF ZoneInv, TypeOK, AllocatePages, Candidates
  <2>2. Head(free[from]) \in Linked(from)
    BY <2>1, PopFront DEF Disjoint, Linked
  <2>3. FreeBlocks' \subseteq FreeBlocks
    BY <1>6, <2>1, <2>2, UnlinkBlock DEF AllocatePages
  <2>. QED
    BY <1>1, <2>3
<1>7. CASE UNCHANGED free
  BY <1>1, <1>7 DEF FreeBlocks, Linked
<1>. QED
  BY <1>3, <1>4, <1>5, <1>6, <1>7
     DEF Next, Step, vars, zoneState, FreeMemory, FreeMemoryStep, AllocateFails, FreePages, SplitDone

(* Two free buddies never stay apart.                                      *)
THEOREM BuddiesMerge == Spec => []NoFreeBuddies
<1>1. Init => NoFreeBuddies
  BY DEF Init, NoFreeBuddies, Linked, ToSet
<1>2. ZoneInv /\ NoFreeBuddies /\ [Next]_vars => NoFreeBuddies'
  BY NoFreeBuddiesStep
<1>. QED
  BY <1>1, <1>2, ZoneInvariant, PTL DEF Spec

-----------------------------------------------------------------------------
(* Zone implements PageAllocator: seen from outside, Split and Unite only  *)
(* move pages between lists, and the single step of a call that counts is  *)
(* the end of Split for an allocation and the start of Unite for a free.   *)

(* The blocks whose pages are available.                                   *)
FreeOrMoving == FreeBlocks \cup InFlight

(* Available are the pages that free blocks and the one in progress cover. *)
LEMMA CoverIs ==
  AvailPages = Cover(FreeOrMoving) /\ AvailPages' = Cover(FreeOrMoving')
BY DEF AvailPages, Cover, FreeOrMoving

(* Blocks cover the same pages before and after they are cut or joined.    *)
LEMMA SameCover ==
  ASSUME FreeOrMoving' = FreeOrMoving
  PROVE  AvailPages' = AvailPages
BY CoverIs

(* If a step adds one block, its pages become available.                   *)
LEMMA CoverGrows ==
  ASSUME NEW p, NEW o, FreeOrMoving' = FreeOrMoving \cup {<<p, o>>}
  PROVE  AvailPages' = AvailPages \cup Block(p, o)
BY CoverIs, CoverAdd

(* Two blocks of the zone that lie apart share no page.                    *)
LEMMA ApartBlocks ==
  ASSUME ZoneInv, NEW b \in Live, NEW c \in Live, Apart(b, c)
  PROVE  Block(b[1], b[2]) \cap Block(c[1], c[2]) = {}
<1>1. b[1] \in Nat /\ c[1] \in Nat /\ Size[b[2]] \in Nat /\ Size[c[2]] \in Nat
  BY LiveFacts
<1>. QED
  BY <1>1 DEF Apart, Block

(* Cutting a block in halves changes nothing for the promise.              *)
LEMMA SplitStepCover ==
  ASSUME ZoneInv, SplitStep
  PROVE  AvailPages' = AvailPages
<1>. DEFINE p == call.page
            o == call.order - 1
            x == <<p, call.order>>
            y == <<p, o>>
            z == <<p + Size[o], o>>
<1>1. ~ Idle /\ ~ Idle' /\ call'.page = p /\ call'.order = o
  <2>1. ~ Idle
    BY DEF SplitStep, Idle
  <2>2. call \in [op : {"split", "unite"}, page : Frames, order : Orders, goal : Orders]
    BY <2>1, InFlightFacts
  <2>. QED
    BY <2>1, <2>2 DEF SplitStep, Idle
<1>2. /\ InFlight = {x} /\ InFlight' = {y}
      /\ call.order \in Orders /\ o \in Orders /\ o + 1 = call.order
      /\ p \in Nat /\ Inside(x)
      /\ \A b \in FreeBlocks : b # x /\ Apart(b, x)
  <2>1. /\ InFlight = {x} /\ x \in Live
        /\ call.order \in Orders /\ call.goal \in Orders /\ p \in Frames
        /\ \A b \in FreeBlocks : b # x /\ Apart(b, x)
    BY <1>1, InFlightFacts
  <2>2. p \in Nat /\ Inside(x)
    BY <2>1, LiveFacts
  <2>. QED
    BY <1>1, <2>1, <2>2, ZoneAssumption DEF SplitStep, Orders, InFlight
<1>3. /\ Size[o] \in Nat \ {0} /\ BuddyOffset(p, o) = p + Size[o]
      /\ Size[call.order] = 2 * Size[o]
  BY <1>2, SplitHalves, SizePositive DEF Inside
<1>4. z \notin FreeBlocks
  BY <1>2, <1>3 DEF Apart
<1>5. FreeBlocks' = FreeBlocks \cup {z}
  <2>1. free' = [free EXCEPT ![o] = Cons(p + Size[o], @)]
    BY <1>3 DEF SplitStep
  <2>2. p + Size[o] \in Frames
    BY <1>2, <1>3, ZoneAssumption DEF Inside, Frames
  <2>3. TypeOK /\ Disjoint
    BY DEF ZoneInv
  <2>. QED
    BY <1>2, <1>4, <2>1, <2>2, <2>3, LinkBlock
<1>6. Block(p, call.order) = Block(p, o) \cup Block(p + Size[o], o)
  BY <1>2, Halves
<1>7. AvailPages = Cover(FreeBlocks) \cup Block(p, call.order)
  <2>1. FreeOrMoving = FreeBlocks \cup {x}
    BY <1>2 DEF FreeOrMoving
  <2>. QED
    BY <2>1, CoverIs, CoverAdd
<1>8. AvailPages' = (Cover(FreeBlocks) \cup Block(p + Size[o], o)) \cup Block(p, o)
  <2>1. FreeOrMoving' = (FreeBlocks \cup {z}) \cup {y}
    BY <1>2, <1>5 DEF FreeOrMoving
  <2>2. Cover(FreeBlocks \cup {z}) = Cover(FreeBlocks) \cup Block(p + Size[o], o)
    BY CoverAdd
  <2>3. Cover((FreeBlocks \cup {z}) \cup {y}) = Cover(FreeBlocks \cup {z}) \cup Block(p, o)
    BY CoverAdd
  <2>4. AvailPages' = Cover((FreeBlocks \cup {z}) \cup {y})
    BY <2>1, CoverIs
  <2>. QED
    BY <2>2, <2>3, <2>4
<1>. QED
  BY <1>6, <1>7, <1>8

(* Joining a block with its buddy changes nothing for the promise.         *)
LEMMA UniteStepCover ==
  ASSUME ZoneInv, UniteStep
  PROVE  AvailPages' = AvailPages
<1>. DEFINE p == call.page
            o == call.order
            buddy == BuddyOffset(p, o)
            l == Lower(p, buddy)
            w == <<buddy, o>>
<1>1. ~ Idle /\ CanUnite(p, o)
  BY DEF UniteStep, Idle
<1>2. /\ InFlight = {<<p, o>>}
      /\ o \in Orders /\ o + 1 \in Orders /\ p \in Nat /\ Aligned(p, o)
      /\ call \in [op : {"split", "unite"}, page : Frames, order : Orders, goal : Orders]
  <2>1. /\ InFlight = {<<p, o>>} /\ <<p, o>> \in Live /\ o \in Orders
        /\ call \in [op : {"split", "unite"}, page : Frames, order : Orders, goal : Orders]
    BY <1>1, InFlightFacts
  <2>2. p \in Nat /\ Inside(<<p, o>>)
    BY <2>1, LiveFacts
  <2>. QED
    BY <1>1, <2>1, <2>2, ZoneAssumption DEF Inside, CanUnite, Orders
<1>3. buddy \in Linked(o) /\ w \in FreeBlocks
  <2>1. buddy \in Linked(o)
    BY <1>1, UniteUnlinksFree DEF UnlinkSafe, UniteStep
  <2>. QED
    BY <1>2, <2>1, FreeBlocksAre
<1>4. FreeBlocks' = FreeBlocks \ {w} /\ InFlight' = {<<l, o + 1>>}
  <2>1. free' = [free EXCEPT ![o] = Unlink(buddy, @)]
    BY DEF UniteStep
  <2>2. TypeOK /\ Disjoint
    BY DEF ZoneInv
  <2>3. FreeBlocks' = FreeBlocks \ {w}
    BY <1>2, <1>3, <2>1, <2>2, UnlinkBlock
  <2>4. ~ Idle' /\ call'.page = l /\ call'.order = o + 1
    BY <1>1, <1>2 DEF UniteStep, Idle
  <2>. QED
    BY <2>3, <2>4 DEF InFlight
<1>5. Block(l, o + 1) = Block(p, o) \cup Block(buddy, o)
  <2>1. buddy \in Nat /\ (buddy = p + Size[o] \/ p = buddy + Size[o]) /\ Size[o] \in Nat \ {0}
    BY <1>2, BuddyPair, SizePositive
  <2>2. CASE buddy = p + Size[o]
    <3>1. l = p
      BY <1>2, <2>1, <2>2 DEF Lower
    <3>. QED
      BY <1>2, <2>2, <3>1, Halves
  <2>3. CASE p = buddy + Size[o]
    <3>1. l = buddy
      BY <1>2, <2>1, <2>3 DEF Lower
    <3>2. Block(buddy, o + 1) = Block(buddy, o) \cup Block(buddy + Size[o], o)
      BY <1>2, <2>1, Halves
    <3>. QED
      BY <2>3, <3>1, <3>2
  <2>. QED
    BY <2>1, <2>2, <2>3
<1>. DEFINE rest == Cover(FreeBlocks \ {w})
<1>6. AvailPages = (rest \cup Block(buddy, o)) \cup Block(p, o)
  <2>1. FreeOrMoving = ((FreeBlocks \ {w}) \cup {w}) \cup {<<p, o>>}
    BY <1>2, <1>3 DEF FreeOrMoving
  <2>2. Cover((FreeBlocks \ {w}) \cup {w}) = rest \cup Block(buddy, o)
    BY CoverAdd
  <2>3. Cover(((FreeBlocks \ {w}) \cup {w}) \cup {<<p, o>>})
          = Cover((FreeBlocks \ {w}) \cup {w}) \cup Block(p, o)
    BY CoverAdd
  <2>4. AvailPages = Cover(((FreeBlocks \ {w}) \cup {w}) \cup {<<p, o>>})
    BY <2>1, CoverIs
  <2>. QED
    BY <2>2, <2>3, <2>4
<1>7. AvailPages' = rest \cup Block(l, o + 1)
  <2>1. FreeOrMoving' = (FreeBlocks \ {w}) \cup {<<l, o + 1>>}
    BY <1>4 DEF FreeOrMoving
  <2>. QED
    BY <2>1, CoverIs, CoverAdd
<1>. QED
  BY <1>5, <1>6, <1>7

(* The end of Split hands out available, aligned pages: Take.              *)
LEMMA SplitDoneCover ==
  ASSUME ZoneInv, SplitDone
  PROVE  /\ <<call.page, call.goal>> \in Frames \X Orders
         /\ usable = {}
         /\ Aligned(call.page, call.goal)
         /\ Block(call.page, call.goal) \subseteq AvailPages
         /\ AvailPages' = AvailPages \ Block(call.page, call.goal)
<1>. DEFINE x == <<call.page, call.goal>>
<1>1. ~ Idle /\ Idle' /\ call.goal = call.order
  BY DEF SplitDone, Idle, NoCall, Call
<1>2. /\ InFlight = {x} /\ InFlight' = {} /\ x \in Live /\ x \in Frames \X Orders
      /\ \A b \in FreeBlocks : b \in Live /\ Apart(b, x)
  BY <1>1, InFlightFacts DEF InFlight
<1>3. Aligned(call.page, call.goal) /\ usable = {}
  <2>1. Inside(x)
    BY <1>2, LiveFacts
  <2>. QED
    BY <1>1, <2>1 DEF Inside, ZoneInv, Locals, SplitDone
<1>4. FreeBlocks' = FreeBlocks
  BY DEF SplitDone, FreeBlocks, Linked
<1>. DEFINE rest == Cover(FreeBlocks)
<1>5. AvailPages = rest \cup Block(call.page, call.goal)
  <2>1. FreeOrMoving = FreeBlocks \cup {x}
    BY <1>2 DEF FreeOrMoving
  <2>. QED
    BY <2>1, CoverIs, CoverAdd
<1>6. AvailPages' = rest
  <2>1. FreeOrMoving' = FreeBlocks
    BY <1>2, <1>4 DEF FreeOrMoving
  <2>. QED
    BY <2>1, CoverIs
<1>7. rest \cap Block(call.page, call.goal) = {}
  <2>1. \A b \in FreeBlocks : Block(b[1], b[2]) \cap Block(x[1], x[2]) = {}
    BY <1>2, ApartBlocks
  <2>2. \A q : q \in rest <=> \E b \in FreeBlocks : q \in Block(b[1], b[2])
    BY CoverMember
  <2>3. \A b \in FreeBlocks : Block(b[1], b[2]) \cap Block(call.page, call.goal) = {}
    BY <2>1
  <2>. QED
    BY <2>2, <2>3
<1>. QED
  BY <1>2, <1>3, <1>5, <1>6, <1>7

(* A block that boot releases was waiting and becomes available: Release.  *)
LEMMA FreeMemoryStepCover ==
  ASSUME ZoneInv, NEW o \in Orders, FreeMemoryStep(o)
  PROVE  /\ Aligned(range.addr, o)
         /\ Block(range.addr, o) \subseteq usable
         /\ AvailPages' = AvailPages \cup Block(range.addr, o)
<1>1. FreeOrMoving' = FreeOrMoving \cup {<<range.addr, o>>}
  BY DEF FreeMemoryStep, FreeOrMoving, FreeBlocks, Linked, InFlight, Idle, Call
<1>2. /\ range.addr .. range.end - 1 \subseteq usable
      /\ range.addr \in Frames /\ range.end \in Nat /\ range.addr \in Nat
  BY ZoneAssumption DEF ZoneInv, Waiting, FreeMemoryStep, TypeOK, Frames
<1>3. range.addr + Size[o] <= range.end /\ Aligned(range.addr, o) /\ Size[o] \in Nat
  BY SizePositive DEF FreeMemoryStep, LargestFit, Fits
<1>4. Block(range.addr, o) \subseteq usable
  BY <1>2, <1>3 DEF Block
<1>. QED
  BY <1>1, <1>3, <1>4, CoverGrows

(* Taking a block off its list changes nothing for the promise yet.        *)
LEMMA AllocatePagesCover ==
  ASSUME ZoneInv, NEW o \in Orders, NEW from \in Orders, AllocatePages(o, from)
  PROVE  AvailPages' = AvailPages
<1>. DEFINE x == <<Head(free[from]), from>>
<1>1. free \in [Orders -> Seq(Frames)] /\ free[from] # <<>> /\ TypeOK /\ Disjoint
  BY DEF ZoneInv, TypeOK, AllocatePages, Candidates
<1>2. Head(free[from]) \in Linked(from)
  BY <1>1, PopFront DEF Disjoint, Linked
<1>3. FreeBlocks' = FreeBlocks \ {x} /\ x \in FreeBlocks
  BY <1>1, <1>2, UnlinkBlock, FreeBlocksAre DEF AllocatePages
<1>4. InFlight = {} /\ InFlight' = {x}
  BY DEF AllocatePages, InFlight, Idle, Call
<1>5. FreeOrMoving' = FreeOrMoving
  BY <1>3, <1>4 DEF FreeOrMoving
<1>. QED
  BY <1>5, SameCover

(* FreePages makes the pages of its block available: Give.                 *)
LEMMA FreePagesCover ==
  ASSUME ZoneInv, NEW p \in Frames, NEW o \in Orders, FreePages(p, o)
  PROVE  /\ call' = Call("unite", p, o, o)
         /\ AvailPages' = AvailPages \cup Block(p, o)
<1>1. order[p] = o
  BY DEF FreePages, ZoneInv, Heads
<1>2. FreeOrMoving' = FreeOrMoving \cup {<<p, o>>}
  BY <1>1 DEF FreePages, zoneState, FreeOrMoving, FreeBlocks, Linked, InFlight, Idle, Call
<1>. QED
  BY <1>1, <1>2, CoverGrows DEF FreePages

(* Linking the united block changes nothing for the promise.               *)
LEMMA UniteDoneCover ==
  ASSUME ZoneInv, UniteDone
  PROVE  AvailPages' = AvailPages
<1>1. ~ Idle /\ Idle'
  BY DEF UniteDone, Idle, NoCall, Call
<1>2. /\ call.page \in Frames /\ call.order \in Orders
      /\ <<call.page, call.order>> \notin FreeBlocks
      /\ InFlight = {<<call.page, call.order>>} /\ InFlight' = {}
  BY <1>1, InFlightFacts DEF InFlight
<1>3. FreeBlocks' = FreeBlocks \cup {<<call.page, call.order>>}
  <2>1. free' = [free EXCEPT ![call.order] = Cons(call.page, @)]
    BY DEF UniteDone
  <2>2. TypeOK /\ Disjoint
    BY DEF ZoneInv
  <2>. QED
    BY <1>2, <2>1, <2>2, LinkBlock
<1>4. FreeOrMoving' = FreeOrMoving
  BY <1>2, <1>3 DEF FreeOrMoving
<1>. QED
  BY <1>4, SameCover

(* Where lists and call stay as they are, so do the available pages.       *)
LEMMA QuietCover ==
  ASSUME UNCHANGED <<free, call>>
  PROVE  AvailPages' = AvailPages
BY DEF AvailPages, FreeBlocks, Linked, InFlight, Idle

(* Every step of the zone is a step of PageAllocator or a stutter.         *)
LEMMA ZoneStep ==
  ASSUME ZoneInv, [Next]_vars
  PROVE  [Abstract!PagesNext]_<<usable, AvailPages, owned>>
<1>. USE DEF Abstract!Release, Abstract!Take, Abstract!Give, Abstract!Aligned,
             Abstract!Block, Aligned, Block
<1>1. ASSUME NEW p \in Frames, NEW end \in Frames \cup {Offset + Pages}, FreeMemory(p, end)
      PROVE  UNCHANGED <<usable, AvailPages, owned>>
  BY <1>1, QuietCover DEF FreeMemory, zoneState
<1>2. ASSUME NEW o \in Orders, FreeMemoryStep(o)
      PROVE  Abstract!Release(range.addr, o) /\ range.addr \in Frames
  BY <1>2, FreeMemoryStepCover DEF FreeMemoryStep, ZoneInv, TypeOK
<1>3. ASSUME NEW o \in Orders, NEW from \in Orders, AllocatePages(o, from)
      PROVE  UNCHANGED <<usable, AvailPages, owned>>
  BY <1>3, AllocatePagesCover DEF AllocatePages
<1>4. ASSUME NEW o \in Orders, AllocateFails(o)
      PROVE  UNCHANGED <<usable, AvailPages, owned>>
  BY <1>4, QuietCover DEF AllocateFails, vars
<1>5. ASSUME NEW p \in Frames, NEW o \in Orders, FreePages(p, o)
      PROVE  Abstract!Give(p, o)
  BY <1>5, FreePagesCover DEF FreePages
<1>6. CASE SplitStep
  BY <1>6, SplitStepCover DEF SplitStep
<1>7. CASE SplitDone
  <2>1. Abstract!Take(call.page, call.goal)
    BY <1>7, SplitDoneCover DEF SplitDone
  <2>2. call.page \in Frames /\ call.goal \in Orders
    BY <1>7, SplitDoneCover
  <2>. QED
    BY <2>1, <2>2 DEF Abstract!PagesNext, Abstract!Frames, Abstract!Orders, Frames, Orders
<1>8. CASE UniteStep
  BY <1>8, UniteStepCover DEF UniteStep
<1>9. CASE UniteDone
  BY <1>9, UniteDoneCover DEF UniteDone
<1>10. CASE UNCHANGED vars
  BY <1>10, QuietCover DEF vars
<1>. QED
  BY <1>1, <1>2, <1>3, <1>4, <1>5, <1>6, <1>7, <1>8, <1>9, <1>10
  DEF Next, Step, Abstract!PagesNext, Abstract!Frames, Abstract!Orders, Frames, Orders

(* The zone keeps PageAllocator's promise: an allocation takes an aligned  *)
(* block of free pages and nothing else, a free returns exactly that       *)
(* block, and no page is lost or handed out twice in between.              *)
THEOREM ZoneImplementsPages == Spec => ImplementsPages
<1>1. Init => Abstract!PagesInit
  <2>1. Init => FreeBlocks = {} /\ InFlight = {}
    BY DEF Init, FreeBlocks, Linked, ToSet, InFlight, Idle, NoCall, Call
  <2>2. Cover({}) = {}
    BY CoverMember
  <2>3. Init => AvailPages = {}
    BY <2>1, <2>2, CoverIs DEF FreeOrMoving
  <2>. QED
    BY <2>3 DEF Init, Abstract!PagesInit, Abstract!Frames, Frames
<1>2. ZoneInv /\ [Next]_vars => [Abstract!PagesNext]_<<usable, AvailPages, owned>>
  BY ZoneStep
<1>. QED
  BY <1>1, <1>2, ZoneInvariant, PTL
  DEF Spec, ImplementsPages, Abstract!PagesSpec, Abstract!pagesVars

-----------------------------------------------------------------------------
(* What is free determines the lists.                                      *)

(* Between calls the free blocks are apart and no two of them are buddies. *)
LEMMA FreeSet ==
  ASSUME ZoneInv, NoFreeBuddies, Idle
  PROVE  IsFreeSet(FreeBlocks) /\ AvailPages = Cover(FreeBlocks)
<1>1. AvailPages = Cover(FreeBlocks)
  BY DEF AvailPages, InFlight, Cover
<1>2. ASSUME NEW b \in FreeBlocks
      PROVE  /\ b \in Frames \X Orders /\ Aligned(b[1], b[2])
             /\ \A c \in FreeBlocks : b = c \/ Apart(b, c)
  <2>1. \A c \in FreeBlocks : c \in Live
    BY DEF Live
  <2>. QED
    BY <2>1, LiveFacts DEF ZoneInv, Disjoint, Inside
<1>3. ASSUME NEW b \in FreeBlocks, b[2] < MaxOrder,
             <<BuddyOffset(b[1], b[2]), b[2]>> \in FreeBlocks
      PROVE  FALSE
  <2>. PICK p, o, buddy : p = b[1] /\ o = b[2] /\ buddy = BuddyOffset(p, o)
    OBVIOUS
  <2>1. b = <<p, o>> /\ o \in Orders
    BY <1>2
  <2>2. p \in Linked(o) /\ buddy \in Linked(o)
    BY <1>3, <2>1, FreeBlocksAre
  <2>3. o \in Orders \ {MaxOrder}
    BY <1>3, <2>1, ZoneAssumption DEF Orders
  <2>4. BuddyOffset(p, o) \notin Linked(o)
    BY <2>2, <2>3 DEF NoFreeBuddies
  <2>. QED
    BY <2>2, <2>4
<1>. QED
  BY <1>1, <1>2, <1>3 DEF IsFreeSet, NoPairs

(* A block of order o has Size[o] pages.                                   *)
LEMMA BlockSize ==
  ASSUME NEW p \in Nat, NEW o \in Orders
  PROVE  IsFiniteSet(Block(p, o)) /\ Cardinality(Block(p, o)) = Size[o]
<1>. PICK e : e = p + Size[o] - 1
  OBVIOUS
<1>1. e \in Int /\ p \in Int /\ p <= e /\ e - p + 1 = Size[o] /\ Block(p, o) = p .. e
  BY SizePositive DEF Block
<1>2. IsFiniteSet(p .. e) /\ Cardinality(p .. e) = IF p > e THEN 0 ELSE e - p + 1
  BY <1>1, FS_Interval
<1>. QED
  BY <1>1, <1>2

(* There are finitely many available pages.                                *)
LEMMA AvailFinite ==
  ASSUME ZoneInv
  PROVE  IsFiniteSet(AvailPages) /\ Cardinality(AvailPages) \in Nat
<1>1. IsFiniteSet(Frames)
  BY FS_Interval, ZoneAssumption DEF Frames
<1>2. AvailPages \in SUBSET Frames
  <2>1. SUFFICES ASSUME NEW q \in AvailPages PROVE q \in Frames
    OBVIOUS
  <2>2. PICK b \in FreeOrMoving : q \in Block(b[1], b[2])
    BY CoverIs, CoverMember
  <2>3. b[1] \in Nat /\ Size[b[2]] \in Nat /\ Inside(b)
    BY LiveFacts DEF FreeOrMoving, Live
  <2>. QED
    BY <2>2, <2>3, ZoneAssumption DEF Inside, Block, Frames
<1>. QED
  BY <1>1, <1>2, FS_Subset, FS_CardinalityType

(* A block whose pages are not available makes as many more of them.       *)
LEMMA MorePages ==
  ASSUME ZoneInv, NEW p \in Nat, NEW o \in Orders,
         \A b \in FreeOrMoving : p + Size[o] <= b[1] \/ b[1] + Size[b[2]] <= p
  PROVE  Cardinality(AvailPages \cup Block(p, o)) = Cardinality(AvailPages) + Size[o]
<1>1. AvailPages \cap Block(p, o) = {}
  <2>1. SUFFICES ASSUME NEW q \in AvailPages, q \in Block(p, o) PROVE FALSE
    OBVIOUS
  <2>2. PICK b \in FreeOrMoving : q \in Block(b[1], b[2])
    BY CoverIs, CoverMember
  <2>3. b[1] \in Nat /\ Size[b[2]] \in Nat /\ Size[o] \in Nat
    BY LiveFacts, SizePositive DEF FreeOrMoving, Live
  <2>. QED
    BY <2>1, <2>2, <2>3 DEF Block
<1>2. Cardinality(AvailPages \cup Block(p, o))
        = Cardinality(AvailPages) + Cardinality(Block(p, o)) - Cardinality({})
  BY <1>1, AvailFinite, BlockSize, FS_Union
<1>. QED
  BY <1>2, AvailFinite, BlockSize, SizePositive, FS_EmptySet

(* Every step counts in available_ the pages it moves.                     *)
LEMMA CountedStep ==
  ASSUME ZoneInv, Counted, [Next]_vars
  PROVE  Counted'
<1>. USE DEF Counted
<1>. PICK n : n = Cardinality(AvailPages)
  OBVIOUS
<1>0. n \in Nat /\ n = Cardinality(AvailPages)
  BY AvailFinite
<1>1. CASE UNCHANGED <<available, call, AvailPages>>
  BY <1>1 DEF Idle
<1>2. ASSUME NEW o \in Orders, FreeMemoryStep(o) PROVE Counted'
  <2>. PICK p : p = range.addr
    OBVIOUS
  <2>1. /\ p \in Nat /\ Size[o] \in Nat
        /\ Block(p, o) \subseteq usable
        /\ AvailPages' = AvailPages \cup Block(p, o)
    <3>1. p \in Frames
      BY <1>2 DEF FreeMemoryStep, ZoneInv, TypeOK
    <3>2. p \in Nat
      BY <3>1, ZoneAssumption DEF Frames
    <3>. QED
      BY <1>2, <3>2, FreeMemoryStepCover, SizePositive
  <2>2. \A b \in FreeOrMoving : p + Size[o] <= b[1] \/ b[1] + Size[b[2]] <= p
    <3>1. SUFFICES ASSUME NEW b \in FreeOrMoving, b[1] < p + Size[o], p < b[1] + Size[b[2]]
                   PROVE  FALSE
      BY <2>1, LiveFacts DEF FreeOrMoving, Live
    <3>2. b \in Live /\ b[1] \in Nat /\ Size[b[2]] \in Nat \ {0}
      BY LiveFacts DEF FreeOrMoving, Live
    <3>. PICK q \in Nat : q = IF b[1] < p THEN p ELSE b[1]
      BY <2>1, <3>2
    <3>3. q \in usable /\ b[1] <= q /\ q < b[1] + Size[b[2]]
      <4>1. q \in Block(p, o) /\ b[1] <= q /\ q < b[1] + Size[b[2]]
        <5>. PICK first, end : first = b[1] /\ end = b[1] + Size[b[2]]
          OBVIOUS
        <5>1. first \in Nat /\ end \in Nat /\ first < end /\ first < p + Size[o] /\ p < end
              /\ q = (IF first < p THEN p ELSE first)
          BY <3>1, <3>2
        <5>. QED
          BY <2>1, <5>1, SizePositive DEF Block
      <4>. QED
        BY <2>1, <4>1
    <3>. QED
      BY <3>2, <3>3 DEF ZoneInv, Waiting
  <2>3. Cardinality(AvailPages') = n + Size[o]
    BY <1>0, <2>1, <2>2, MorePages
  <2>4. ~ Idle' /\ call'.goal = o /\ available' = available /\ available = n
    BY <1>0, <1>2 DEF FreeMemoryStep, Idle, Call
  <2>. QED
    BY <1>0, <2>1, <2>3, <2>4
<1>3. ASSUME NEW o \in Orders, NEW from \in Orders, AllocatePages(o, from) PROVE Counted'
  <2>1. AvailPages' = AvailPages
    BY <1>3, AllocatePagesCover
  <2>2. /\ ~ Idle' /\ call'.goal = o /\ available' = available - Size[o] /\ available = n
    BY <1>0, <1>3 DEF AllocatePages, Charge, Idle, Call
  <2>. QED
    BY <1>0, <2>1, <2>2
<1>4. ASSUME NEW p \in Frames, NEW o \in Orders, FreePages(p, o) PROVE Counted'
  <2>1. p \in Nat /\ Size[o] \in Nat /\ AvailPages' = AvailPages \cup Block(p, o)
    BY <1>4, FreePagesCover, SizePositive, ZoneAssumption DEF Frames
  <2>2. \A b \in FreeOrMoving : p + Size[o] <= b[1] \/ b[1] + Size[b[2]] <= p
    <3>1. SUFFICES ASSUME NEW b \in FreeOrMoving PROVE Apart(<<p, o>>, b)
      BY DEF Apart
    <3>2. <<p, o>> \in owned /\ <<p, o>> \in Live /\ b \in FreeBlocks /\ b \in Live
      BY <1>4 DEF FreePages, FreeOrMoving, InFlight, Live
    <3>. QED
      BY <3>2 DEF ZoneInv, Disjoint
  <2>3. Cardinality(AvailPages') = n + Size[o]
    BY <1>0, <2>1, <2>2, MorePages
  <2>4. ~ Idle' /\ call'.goal = o /\ available' = available /\ available = n
    <3>1. call' = Call("unite", p, o, o)
      BY <1>4, FreePagesCover
    <3>2. Idle /\ available' = available
      BY <1>4 DEF FreePages, zoneState
    <3>. QED
      BY <1>0, <3>1, <3>2 DEF Idle, Call
  <2>. QED
    BY <1>0, <2>1, <2>3, <2>4
<1>5. CASE SplitStep
  <2>1. AvailPages' = AvailPages /\ available' = available /\ ~ Idle /\ ~ Idle'
    BY <1>5, SplitStepCover, InFlightFacts DEF SplitStep, Idle
  <2>2. call'.goal = call.goal
    BY <1>5, <2>1, InFlightFacts DEF SplitStep
  <2>. QED
    BY <2>1, <2>2
<1>6. CASE SplitDone
  <2>. PICK p, o : p = call.page /\ o = call.goal
    OBVIOUS
  <2>1. /\ p \in Nat /\ o \in Orders /\ Size[o] \in Nat
        /\ Block(p, o) \subseteq AvailPages /\ AvailPages' = AvailPages \ Block(p, o)
    BY <1>6, SplitDoneCover, SizePositive, ZoneAssumption DEF Frames
  <2>2. Cardinality(AvailPages') = n - Size[o]
    <3>1. AvailPages \cap Block(p, o) = Block(p, o)
      BY <2>1
    <3>2. Cardinality(AvailPages \ Block(p, o))
            = Cardinality(AvailPages) - Cardinality(AvailPages \cap Block(p, o))
      BY AvailFinite, FS_Difference
    <3>3. Cardinality(Block(p, o)) = Size[o]
      BY <2>1, BlockSize
    <3>. QED
      BY <1>0, <2>1, <3>1, <3>2, <3>3
  <2>3. ~ Idle /\ Idle' /\ available' = available /\ available = n - Size[o]
    BY <1>0, <1>6 DEF SplitDone, Idle, NoCall, Call
  <2>. QED
    BY <1>0, <2>1, <2>2, <2>3
<1>7. CASE UniteStep
  <2>1. AvailPages' = AvailPages /\ available' = available /\ ~ Idle /\ ~ Idle'
    BY <1>7, UniteStepCover, InFlightFacts DEF UniteStep, Idle
  <2>2. call'.goal = call.goal
    BY <1>7, <2>1, InFlightFacts DEF UniteStep
  <2>. QED
    BY <2>1, <2>2
<1>8. CASE UniteDone
  <2>1. /\ ~ Idle /\ Idle' /\ AvailPages' = AvailPages
        /\ available' = available + Size[call.goal] /\ available = n - Size[call.goal]
    BY <1>0, <1>8, UniteDoneCover DEF UniteDone, Idle, NoCall, Call
  <2>2. Size[call.goal] \in Nat
    BY <2>1, InFlightFacts, SizePositive
  <2>. QED
    BY <1>0, <2>1, <2>2
<1>9. ASSUME NEW p \in Frames, NEW end \in Frames \cup {Offset + Pages}, FreeMemory(p, end)
      PROVE  UNCHANGED <<available, call, AvailPages>>
  BY <1>9, QuietCover DEF FreeMemory, zoneState
<1>10. ASSUME NEW o \in Orders, AllocateFails(o)
       PROVE  UNCHANGED <<available, call, AvailPages>>
  BY <1>10, QuietCover DEF AllocateFails, vars, zoneState
<1>11. CASE UNCHANGED vars
  BY <1>1, <1>11, QuietCover DEF vars, zoneState
<1>. QED
  BY <1>1, <1>2, <1>3, <1>4, <1>5, <1>6, <1>7, <1>8, <1>9, <1>10, <1>11, Zenon DEF Next, Step

(* Between calls the free blocks are the largest aligned ones that the     *)
(* free pages allow, whatever was allocated and freed before, so an        *)
(* allocation fails only when no such run of pages is left; and            *)
(* available_ counts exactly the free pages.                               *)
THEOREM FreeBlocksAreMaximal == Spec => []Coalesced
<1>1. Init => Counted
  <2>1. Init => FreeBlocks = {} /\ InFlight = {} /\ Idle
    BY DEF Init, FreeBlocks, Linked, ToSet, InFlight, Idle, NoCall, Call
  <2>2. Cover({}) = {}
    BY CoverMember
  <2>3. Init => AvailPages = {}
    BY <2>1, <2>2, CoverIs DEF FreeOrMoving
  <2>4. Init => available = 0 /\ Cardinality(AvailPages) = 0
    BY <2>3, FS_EmptySet DEF Init
  <2>. QED
    BY <2>1, <2>4 DEF Counted
<1>2. ZoneInv /\ Counted /\ [Next]_vars => Counted'
  BY CountedStep
<1>3. Spec => []Counted
  BY <1>1, <1>2, ZoneInvariant, PTL DEF Spec
<1>4. ZoneInv /\ NoFreeBuddies /\ Counted => Coalesced
  <2>1. ASSUME ZoneInv, NoFreeBuddies, Idle
        PROVE  FreeBlocks = {b \in Frames \X Orders : Maximal(b[1], b[2], AvailPages)}
    BY <2>1, FreeSet, CoalescedBlocks
  <2>. QED
    BY <2>1 DEF Coalesced
<1>. QED
  BY <1>3, <1>4, ZoneInvariant, BuddiesMerge, PTL
=============================================================================
