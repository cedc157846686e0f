----------------------------- MODULE BuddyLemmas -----------------------------
(***************************************************************************)
(* Lemmas about the blocks of a buddy system, whatever keeps its lists:    *)
(* what each step of the two page allocators, that of the C++ kernel and   *)
(* that of the Rust kernel, does to the blocks.                            *)
(***************************************************************************)
EXTENDS Buddy, ListLemmas

-----------------------------------------------------------------------------
(* Block sizes and alignment.                                              *)

(* A block of order b is cut into whole blocks of any smaller order a.     *)
LEMMA SizeDivides ==
  ASSUME NEW a \in Orders, NEW b \in Orders, a <= b
  PROVE  /\ Size[a] \in Nat \ {0}
         /\ \E c \in Nat \ {0} : Size[b] = c * Size[a]
<1>. DEFINE Bad(n) == {k \in Orders : n <= k /\ ~ \E c \in Nat \ {0} : Size[k] = c * Size[n]}
<1>1. ASSUME NEW n \in Orders PROVE Bad(n) = {}
  <2>1. SUFFICES ASSUME Bad(n) # {} PROVE FALSE
    OBVIOUS
  <2>2. PICK k \in Bad(n) : \A m \in Bad(n) : k <= m
    <3>1. Bad(n) \in SUBSET Nat
      BY ZoneAssumption DEF Orders
    <3>. HIDE DEF Bad
    <3>. QED
      BY <2>1, <3>1, LeastElement
  <2>3. k # n
    <3>1. Size[n] = 1 * Size[n]
      BY SizeAssumption
    <3>. QED
      BY <3>1
  <2>4. k - 1 \in Orders /\ n <= k - 1 /\ k - 1 \notin Bad(n)
    BY <2>2, <2>3, ZoneAssumption DEF Orders
  <2>5. PICK c \in Nat \ {0} : Size[k - 1] = c * Size[n]
    BY <2>4
  <2>6. Size[k] = 2 * Size[k - 1]
    BY <2>2, <2>4, SizeAssumption, ZoneAssumption DEF Orders
  <2>7. Size[k] = (2 * c) * Size[n] /\ 2 * c \in Nat \ {0}
    BY <2>5, <2>6, SizeAssumption
  <2>. QED
    BY <2>2, <2>7
<1>2. \E c \in Nat \ {0} : Size[b] = c * Size[a]
  BY <1>1
<1>3. \E c \in Nat \ {0} : Size[a] = c * Size[0]
  BY <1>1, ZoneAssumption DEF Orders
<1>. QED
  BY <1>2, <1>3, SizeAssumption

(* A block of any order has at least one page.                             *)
LEMMA SizePositive ==
  \A o \in Orders : Size[o] \in Nat \ {0}
BY SizeDivides, ZoneAssumption DEF Orders

(* An aligned page number is a multiple of the block's size.               *)
LEMMA AlignedMultiple ==
  ASSUME NEW p \in Nat, NEW o \in Orders
  PROVE  Aligned(p, o) <=> \E k \in Nat : p = k * Size[o]
<1>1. Size[o] \in Nat \ {0}
  BY SizePositive
<1>2. ASSUME Aligned(p, o) PROVE \E k \in Nat : p = k * Size[o]
  <2>1. p = (p \div Size[o]) * Size[o] /\ p \div Size[o] \in Nat
    BY <1>1, <1>2 DEF Aligned
  <2>. QED
    BY <2>1
<1>3. ASSUME NEW k \in Nat, p = k * Size[o] PROVE Aligned(p, o)
  BY <1>1, <1>3 DEF Aligned
<1>. QED
  BY <1>2, <1>3

(* A block that meets an aligned block of at least its size is inside it.  *)
LEMMA Nested ==
  ASSUME NEW p \in Nat, NEW a \in Orders, Aligned(p, a),
         NEW q \in Nat, NEW b \in Orders, Aligned(q, b),
         a <= b, p < q + Size[b], q < p + Size[a]
  PROVE  q <= p /\ p + Size[a] <= q + Size[b]
<1>1. PICK c \in Nat \ {0} : Size[b] = c * Size[a]
  BY SizeDivides
<1>2. PICK k \in Nat : p = k * Size[a]
  BY AlignedMultiple
<1>3. PICK m \in Nat : q = m * Size[b]
  BY AlignedMultiple
<1>4. Size[a] \in Nat \ {0}
  BY SizePositive
<1>. DEFINE s == Size[a]
            h == m * c
            e == m * c + c
<1>5. h \in Nat /\ e \in Nat /\ q = h * s /\ q + Size[b] = e * s
  BY <1>1, <1>3, <1>4
<1>6. k * s < e * s /\ h * s < (k + 1) * s
  BY <1>2, <1>4, <1>5
<1>. HIDE DEF s, h, e
<1>7. s \in Nat \ {0}
  BY <1>4 DEF s
<1>8. \A x, y \in Nat : x * s < y * s => x < y
  BY <1>7
<1>9. \A x, y \in Nat : x <= y => x * s <= y * s
  BY <1>7
<1>10. k < e /\ h < k + 1
  BY <1>5, <1>6, <1>8
<1>11. h * s <= k * s /\ (k + 1) * s <= e * s
  BY <1>5, <1>9, <1>10
<1>. QED
  BY <1>2, <1>5, <1>7, <1>11 DEF s

(* The lower of two buddies starts the block that Unite makes of them.     *)
LEMMA BuddyPair ==
  ASSUME NEW p \in Nat, NEW o \in Orders, o + 1 \in Orders, Aligned(p, o),
         NEW b, b = BuddyOffset(p, o)
  PROVE  /\ b \in Nat
         /\ Aligned(b, o)
         /\ BuddyOffset(b, o) = p
         /\ Aligned(Lower(p, b), o + 1)
         /\ b = p + Size[o] \/ p = b + Size[o]
         /\ Size[o + 1] = 2 * Size[o]
<1>. DEFINE s == Size[o]
<1>1. s \in Nat \ {0}
  BY SizePositive
<1>2. PICK k \in Nat : p = k * s
  BY AlignedMultiple
<1>3. p \div s = k
  BY <1>1, <1>2
<1>4. Size[o + 1] = 2 * s
  BY SizeAssumption, ZoneAssumption DEF Orders
<1>5. CASE k % 2 = 0
  <2>1. b = (k + 1) * s
    <3>1. b = p + s
      BY <1>3, <1>5 DEF BuddyOffset
    <3>. QED
      BY <1>1, <1>2, <3>1
  <2>2. b \div s = k + 1 /\ (k + 1) % 2 # 0
    BY <1>1, <1>5, <2>1
  <2>3. b \in Nat /\ BuddyOffset(b, o) = p /\ b = p + s /\ Lower(p, b) = p
    BY <1>1, <1>2, <2>1, <2>2 DEF BuddyOffset, Lower
  <2>4. p = (k \div 2) * Size[o + 1] /\ k \div 2 \in Nat
    <3>1. k = (k \div 2) * 2 /\ k \div 2 \in Nat
      BY <1>5
    <3>. QED
      BY <1>1, <1>2, <1>4, <3>1
  <2>. QED
    BY <1>4, <2>1, <2>3, <2>4, AlignedMultiple
<1>6. CASE k % 2 # 0
  <2>1. k - 1 \in Nat /\ b = (k - 1) * s
    <3>1. b = p - s /\ k - 1 \in Nat
      BY <1>3, <1>6 DEF BuddyOffset
    <3>. QED
      BY <1>1, <1>2, <3>1
  <2>2. b \div s = k - 1 /\ (k - 1) % 2 = 0
    BY <1>1, <1>6, <2>1
  <2>3. b \in Nat /\ BuddyOffset(b, o) = p /\ p = b + s /\ Lower(p, b) = b
    BY <1>1, <1>2, <2>1, <2>2 DEF BuddyOffset, Lower
  <2>4. b = (k \div 2) * Size[o + 1] /\ k \div 2 \in Nat
    <3>1. k - 1 = (k \div 2) * 2 /\ k \div 2 \in Nat
      BY <1>6
    <3>. QED
      BY <1>1, <1>4, <2>1, <3>1
  <2>. QED
    BY <1>4, <2>1, <2>3, <2>4, AlignedMultiple
<1>. QED
  BY <1>5, <1>6

(* Split leaves the lower half and frees the upper one.                    *)
LEMMA SplitHalves ==
  ASSUME NEW p \in Nat, NEW o \in Orders, o + 1 \in Orders, Aligned(p, o + 1)
  PROVE  /\ Aligned(p, o)
         /\ BuddyOffset(p, o) = p + Size[o]
         /\ Aligned(p + Size[o], o)
         /\ Size[o + 1] = 2 * Size[o]
<1>. DEFINE s == Size[o]
<1>1. s \in Nat \ {0}
  BY SizePositive
<1>2. Size[o + 1] = 2 * s
  BY SizeAssumption, ZoneAssumption DEF Orders
<1>3. PICK k \in Nat : p = k * Size[o + 1]
  BY AlignedMultiple
<1>4. p = (2 * k) * s /\ p + s = (2 * k + 1) * s /\ p + s \in Nat
  BY <1>1, <1>2, <1>3
<1>5. p \div s = 2 * k /\ (2 * k) % 2 = 0
  BY <1>1, <1>4
<1>6. BuddyOffset(p, o) = p + s
  BY <1>5 DEF BuddyOffset
<1>. QED
  BY <1>2, <1>4, <1>6, AlignedMultiple
-----------------------------------------------------------------------------
(* The blocks between two steps.                                           *)
(*                                                                         *)
(* free and held are blocks <<p, o>>, moving holds the one a call works    *)
(* on, if any; level and isFree are what the pages say of themselves;      *)
(* waiting are pages that boot has not released.                           *)
All(free, held, moving) == free \cup held \cup moving

Typed(free, held, moving, level, isFree, waiting) ==
  /\ All(free, held, moving) \subseteq Frames \X Orders
  /\ level \in [Frames -> Orders]
  /\ isFree \in [Frames -> BOOLEAN]
  /\ waiting \subseteq Frames

(* Blocks lie inside the zone, share no page, and are of one kind.         *)
Separate(free, held, moving) ==
  /\ \A b \in All(free, held, moving) : Inside(b)
  /\ \A b, c \in All(free, held, moving) : b # c => Apart(b, c)
  /\ free \cap held = {}
  /\ moving \cap (free \cup held) = {}

(* The first page of a free or held block tells the truth about it.        *)
Told(free, held, level, isFree) ==
  /\ \A b \in free : isFree[b[1]] /\ level[b[1]] = b[2]
  /\ \A b \in held : ~ isFree[b[1]] /\ level[b[1]] = b[2]

(* A page that looks like the first page of a free block and is not one    *)
(* begins the block in progress or lies inside a larger block.             *)
Stale(free, held, moving, level, isFree) ==
  \A p \in Frames : isFree[p] =>
    /\ Aligned(p, level[p])
    /\ \/ <<p, level[p]>> \in free
       \/ \E b \in moving : p = b[1]
       \/ \E b \in All(free, held, moving) : Within(p, b) /\ level[p] < b[2]

(* A waiting page is in no block and looks like none.                      *)
Unclaimed(free, held, moving, isFree, waiting) ==
  \A p \in waiting :
    /\ ~ isFree[p]
    /\ \A b \in All(free, held, moving) : p < b[1] \/ b[1] + Size[b[2]] <= p

Blocks(free, held, moving, level, isFree, waiting) ==
  /\ Typed(free, held, moving, level, isFree, waiting)
  /\ Separate(free, held, moving)
  /\ Told(free, held, level, isFree)
  /\ Stale(free, held, moving, level, isFree)
  /\ Unclaimed(free, held, moving, isFree, waiting)

(* What any block looks like.                                              *)
LEMMA BlockFacts ==
  ASSUME NEW free, NEW held, NEW moving, NEW level, NEW isFree, NEW waiting,
         Blocks(free, held, moving, level, isFree, waiting)
  PROVE  \A b \in All(free, held, moving) :
           /\ b = <<b[1], b[2]>> /\ b[1] \in Frames /\ b[2] \in Orders
           /\ b[1] \in Nat /\ b[2] \in Nat /\ Size[b[2]] \in Nat \ {0}
           /\ Inside(b) /\ Aligned(b[1], b[2])
           /\ \A c \in All(free, held, moving) : b = c \/ (Apart(b, c) /\ Apart(c, b))
<1>. SUFFICES ASSUME NEW b \in All(free, held, moving)
              PROVE  /\ b = <<b[1], b[2]>> /\ b[1] \in Frames /\ b[2] \in Orders
                     /\ b[1] \in Nat /\ b[2] \in Nat /\ Size[b[2]] \in Nat \ {0}
                     /\ Inside(b) /\ Aligned(b[1], b[2])
                     /\ \A c \in All(free, held, moving) : b = c \/ (Apart(b, c) /\ Apart(c, b))
  OBVIOUS
<1>1. b \in Frames \X Orders
  BY DEF Blocks, Typed
<1>2. Inside(b) /\ \A c \in All(free, held, moving) : b = c \/ (Apart(b, c) /\ Apart(c, b))
  BY DEF Blocks, Separate
<1>3. b = <<b[1], b[2]>> /\ b[1] \in Frames /\ b[2] \in Orders
  BY <1>1
<1>. QED
  BY <1>2, <1>3, SizePositive, ZoneAssumption DEF Inside, Frames, Orders

-----------------------------------------------------------------------------
(* What the steps of a call do to the blocks.                              *)

(* Boot releases a block of waiting pages; what its first page says of its *)
(* level may be stored before or after.                                    *)
LEMMA ReleaseBlock ==
  ASSUME NEW free, NEW held, NEW level, NEW isFree, NEW waiting,
         Blocks(free, held, {}, level, isFree, waiting),
         NEW p \in Frames, NEW o \in Orders, Aligned(p, o), Block(p, o) \subseteq waiting,
         NEW level2 \in [Frames -> Orders], \A q \in Frames : q # p => level2[q] = level[q]
  PROVE  /\ Blocks(free, held, {<<p, o>>}, level2, isFree, waiting \ Block(p, o))
         /\ ~ isFree[p]
<1>. DEFINE s == Size[o]
            x == <<p, o>>
            old == All(free, held, {})
            new == All(free, held, {x})
            left == waiting \ Block(p, o)
<1>1. s \in Nat \ {0} /\ p \in Nat /\ p \in Block(p, o) /\ p \in waiting
  <2>1. s \in Nat \ {0} /\ p \in Nat
    BY SizePositive, ZoneAssumption DEF Frames
  <2>. QED
    BY <2>1 DEF Block
<1>2. Inside(x)
  <2>1. p + s - 1 \in Frames
    <3>1. p + s - 1 \in Block(p, o)
      BY <1>1 DEF Block
    <3>. QED
      BY <3>1 DEF Blocks, Typed
  <2>. QED
    BY <1>1, <2>1, ZoneAssumption DEF Inside, Frames
<1>3. new = old \cup {x}
  BY DEF All
<1>4. ASSUME NEW b \in old PROVE Apart(x, b) /\ Apart(b, x) /\ b[1] # p /\ b[1] \in Frames
  <2>1. b[1] \in Nat /\ Size[b[2]] \in Nat \ {0} /\ b[1] \in Frames
    BY BlockFacts
  <2>2. \A u \in Block(p, o) : u < b[1] \/ b[1] + Size[b[2]] <= u
    BY DEF Blocks, Unclaimed
  <2>3. p < b[1] \/ b[1] + Size[b[2]] <= p
    BY <1>1, <2>2
  <2>4. ~ (p <= b[1] /\ b[1] < p + s)
    <3>1. SUFFICES ASSUME p <= b[1], b[1] < p + s PROVE FALSE
      OBVIOUS
    <3>2. b[1] \in Block(p, o)
      BY <1>1, <2>1, <3>1 DEF Block
    <3>. QED
      BY <2>1, <2>2, <3>2
  <2>. QED
    BY <1>1, <2>1, <2>3, <2>4 DEF Apart
<1>5. x \notin old
  BY <1>4
<1>6. ~ isFree[p]
  BY <1>1 DEF Blocks, Unclaimed
<1>7. Typed(free, held, {x}, level2, isFree, left)
  <2>1. x \in Frames \X Orders /\ left \subseteq waiting
    OBVIOUS
  <2>. HIDE DEF x, left, old, new
  <2>2. All(free, held, {x}) = new
    BY DEF new
  <2>3. old \subseteq Frames \X Orders /\ isFree \in [Frames -> BOOLEAN] /\ waiting \subseteq Frames
    BY DEF Blocks, Typed, old
  <2>. QED
    BY <1>3, <2>1, <2>2, <2>3 DEF Typed
<1>8. Separate(free, held, {x})
  <2>1. \A b \in new : Inside(b)
    BY <1>2, <1>3 DEF Blocks, Separate
  <2>2. \A b, c \in new : b # c => Apart(b, c)
    BY <1>3, <1>4 DEF Blocks, Separate
  <2>. QED
    BY <1>5, <2>1, <2>2 DEF Blocks, Separate, All
<1>9. Told(free, held, level2, isFree)
  <2>1. \A b \in free \cup held : b[1] \in Frames /\ b[1] # p
    BY <1>4 DEF All
  <2>. QED
    BY <2>1 DEF Blocks, Told
<1>10. Stale(free, held, {x}, level2, isFree)
  <2>1. SUFFICES ASSUME NEW q \in Frames, isFree[q]
                 PROVE  /\ Aligned(q, level2[q])
                        /\ \/ <<q, level2[q]>> \in free
                           \/ \E b \in new : Within(q, b) /\ level2[q] < b[2]
    BY DEF Stale
  <2>2. level2[q] = level[q]
    BY <1>6, <2>1
  <2>3. /\ Aligned(q, level[q])
        /\ \/ <<q, level[q]>> \in free
           \/ \E b \in old : Within(q, b) /\ level[q] < b[2]
    BY <2>1 DEF Blocks, Stale
  <2>. QED
    BY <1>3, <2>2, <2>3
<1>11. Unclaimed(free, held, {x}, isFree, left)
  <2>1. ASSUME NEW u \in left PROVE u \in waiting /\ (u < p \/ p + s <= u)
    <3>1. u \in waiting /\ u \notin Block(p, o)
      BY <2>1
    <3>2. u \in Nat
      BY <3>1, ZoneAssumption DEF Blocks, Typed, Frames
    <3>. QED
      BY <1>1, <3>1, <3>2 DEF Block
  <2>2. \A u \in waiting : ~ isFree[u] /\ \A b \in old : u < b[1] \/ b[1] + Size[b[2]] <= u
    BY DEF Blocks, Unclaimed
  <2>3. x[1] = p /\ Size[x[2]] = s
    OBVIOUS
  <2>. HIDE DEF x, left, old, new, s
  <2>4. \A u \in left : ~ isFree[u] /\ \A b \in new : u < b[1] \/ b[1] + Size[b[2]] <= u
    BY <1>3, <2>1, <2>2, <2>3
  <2>. QED
    BY <2>4 DEF Unclaimed, new
<1>. QED
  BY <1>6, <1>7, <1>8, <1>9, <1>10, <1>11 DEF Blocks

(* An allocation takes a free block to work on.                            *)
LEMMA TakeBlock ==
  ASSUME NEW free, NEW held, NEW level, NEW isFree, NEW waiting,
         Blocks(free, held, {}, level, isFree, waiting), NEW x \in free
  PROVE  Blocks(free \ {x}, held, {x}, level, isFree, waiting)
<1>1. All(free \ {x}, held, {x}) = All(free, held, {})
  BY DEF All
<1>2. Typed(free \ {x}, held, {x}, level, isFree, waiting)
  BY <1>1 DEF Blocks, Typed
<1>3. Separate(free \ {x}, held, {x})
  BY <1>1 DEF Blocks, Separate
<1>4. Told(free \ {x}, held, level, isFree)
  BY DEF Blocks, Told
<1>5. Unclaimed(free \ {x}, held, {x}, isFree, waiting)
  BY <1>1 DEF Blocks, Unclaimed
<1>6. Stale(free \ {x}, held, {x}, level, isFree)
  BY <1>1 DEF Blocks, Stale
<1>. QED
  BY <1>2, <1>3, <1>4, <1>5, <1>6 DEF Blocks

(* A free takes a held block to work on; its first page says it is busy.   *)
LEMMA GiveBlock ==
  ASSUME NEW free, NEW held, NEW level, NEW isFree, NEW waiting,
         Blocks(free, held, {}, level, isFree, waiting), NEW x \in held
  PROVE  /\ Blocks(free, held \ {x}, {x}, level, isFree, waiting)
         /\ ~ isFree[x[1]] /\ level[x[1]] = x[2]
<1>1. All(free, held \ {x}, {x}) = All(free, held, {})
  BY DEF All
<1>2. Typed(free, held \ {x}, {x}, level, isFree, waiting)
  BY <1>1 DEF Blocks, Typed
<1>3. Separate(free, held \ {x}, {x})
  BY <1>1 DEF Blocks, Separate
<1>4. Told(free, held \ {x}, level, isFree)
  BY DEF Blocks, Told
<1>5. Unclaimed(free, held \ {x}, {x}, isFree, waiting)
  BY <1>1 DEF Blocks, Unclaimed
<1>6. Stale(free, held \ {x}, {x}, level, isFree)
  BY <1>1 DEF Blocks, Stale
<1>7. ~ isFree[x[1]] /\ level[x[1]] = x[2]
  BY DEF Blocks, Told
<1>. QED
  BY <1>2, <1>3, <1>4, <1>5, <1>6, <1>7 DEF Blocks

(* The block in progress.                                                  *)
Moves(p, o, moving) == moving = {<<p, o>>}

(* The block in progress is cut in halves: the upper one is at buddy.      *)
Cuts(p, k, o, buddy, moving, upper, rest) ==
  /\ k = o + 1 /\ o \in Orders /\ k \in Orders
  /\ buddy = BuddyOffset(p, o)
  /\ moving = {<<p, k>>} /\ upper = {<<buddy, o>>} /\ rest = {<<p, o>>}

(* A block and its buddy are joined: the lower one begins the larger block. *)
Joins(p, o, buddy, l, moving, other, grown) ==
  /\ o < MaxOrder /\ buddy \in Frames
  /\ buddy = BuddyOffset(p, o) /\ l = Lower(p, buddy)
  /\ moving = {<<p, o>>} /\ other = {<<buddy, o>>} /\ grown = {<<l, o + 1>>}

(* A page is told its level, and whether it is free; the others keep their *)
(* words.                                                                  *)
Tells(p, o, level, isFree, level2, isFree2) ==
  /\ level2 \in [Frames -> Orders] /\ isFree2 \in [Frames -> BOOLEAN]
  /\ level2[p] = o
  /\ \A q \in Frames : q # p => level2[q] = level[q] /\ isFree2[q] = isFree[q]

(* The upper half of a block that is being cut is a block of its own.       *)
LEMMA UpperHalf ==
  ASSUME NEW free, NEW held, NEW moving, NEW level, NEW isFree, NEW waiting,
         NEW p, NEW k, NEW o, NEW buddy, NEW upper, NEW rest,
         Blocks(free, held, moving, level, isFree, waiting),
         Cuts(p, k, o, buddy, moving, upper, rest)
  PROVE  /\ buddy \in Frames /\ Aligned(buddy, o) /\ BuddyOffset(buddy, o) = p
         /\ p \in Nat /\ Aligned(p, k)
<1>. PICK x : x = <<p, k>>
  OBVIOUS
<1>. SUFFICES ASSUME k = o + 1, o \in Orders, k \in Orders, buddy = BuddyOffset(p, o),
                     moving = {x}
              PROVE  /\ buddy \in Frames /\ Aligned(buddy, o) /\ BuddyOffset(buddy, o) = p
                     /\ p \in Nat /\ Aligned(p, k)
  BY DEF Cuts
<1>1. x \in All(free, held, {x}) /\ x[1] = p /\ x[2] = k
  BY DEF All
<1>2. p \in Frames /\ p \in Nat /\ Inside(x) /\ Aligned(p, k)
  BY <1>1, BlockFacts
<1>3. /\ Aligned(p, o) /\ buddy = p + Size[o] /\ Size[k] = 2 * Size[o]
      /\ Size[o] \in Nat \ {0}
  BY <1>2, SplitHalves, SizePositive
<1>4. Aligned(buddy, o) /\ BuddyOffset(buddy, o) = p
  BY <1>2, <1>3, BuddyPair
<1>5. p + Size[k] <= Offset + Pages
  BY <1>1, <1>2 DEF Inside
<1>. QED
  BY <1>2, <1>3, <1>4, <1>5, ZoneAssumption DEF Frames

(* No block starts where either half does.                                 *)
LEMMA UpperUnused ==
  ASSUME NEW free, NEW held, NEW moving, NEW level, NEW isFree, NEW waiting,
         NEW p, NEW k, NEW o, NEW buddy, NEW upper, NEW rest,
         Blocks(free, held, moving, level, isFree, waiting),
         Cuts(p, k, o, buddy, moving, upper, rest), NEW b \in free \cup held
  PROVE  b[1] # buddy /\ b[1] # p
<1>. PICK x : x = <<p, k>>
  OBVIOUS
<1>1. /\ k = o + 1 /\ o \in Orders /\ k \in Orders /\ buddy = BuddyOffset(p, o)
      /\ x \in moving /\ x[1] = p /\ x[2] = k
  BY DEF Cuts
<1>2. b \in All(free, held, moving) /\ x \in All(free, held, moving) /\ b # x
  BY <1>1 DEF Blocks, Separate, All
<1>3. /\ b[1] \in Nat /\ Size[b[2]] \in Nat \ {0} /\ p \in Nat /\ Aligned(p, k)
      /\ Apart(b, x)
  BY <1>1, <1>2, BlockFacts
<1>4. buddy = p + Size[o] /\ Size[k] = 2 * Size[o] /\ Size[o] \in Nat \ {0}
  BY <1>1, <1>3, SplitHalves, SizePositive
<1>. QED
  BY <1>1, <1>3, <1>4 DEF Apart

(* An iteration of a split: the block in progress is cut in halves, and    *)
(* the upper one becomes a free block.  No free block starts with either.  *)
LEMMA SplitMoving ==
  ASSUME NEW free, NEW held, NEW moving, NEW level, NEW isFree, NEW waiting,
         NEW p, NEW k, NEW o, NEW buddy, NEW upper, NEW rest, NEW level2, NEW isFree2,
         Blocks(free, held, moving, level, isFree, waiting),
         Cuts(p, k, o, buddy, moving, upper, rest),
         Tells(buddy, o, level, isFree, level2, isFree2), isFree2[buddy]
  PROVE  Blocks(free \cup upper, held, rest, level2, isFree2, waiting)
<1>. SUFFICES ASSUME k = o + 1, o \in Orders, k \in Orders,
                     Blocks(free, held, {<<p, k>>}, level, isFree, waiting),
                     buddy = BuddyOffset(p, o),
                     level2 \in [Frames -> Orders], isFree2 \in [Frames -> BOOLEAN],
                     level2[buddy] = o, isFree2[buddy],
                     \A q \in Frames : q # buddy =>
                        level2[q] = level[q] /\ isFree2[q] = isFree[q]
              PROVE  Blocks(free \cup {<<buddy, o>>}, held, {<<p, o>>},
                            level2, isFree2, waiting)
  BY DEF Cuts, Tells
<1>. DEFINE s == Size[o]
            x == <<p, k>>
            y == <<p, o>>
            z == <<buddy, o>>
            old == All(free, held, {x})
            new == All(free \cup {z}, held, {y})
<1>1. /\ x \in old /\ p \in Frames /\ p \in Nat /\ Inside(x) /\ Aligned(p, k)
      /\ o \in Nat /\ k \in Nat
  <2>1. x \in old /\ x[1] = p /\ x[2] = k
    BY DEF All
  <2>. QED
    BY <2>1, BlockFacts, ZoneAssumption DEF Orders
<1>2. /\ s \in Nat \ {0} /\ buddy = p + s /\ Size[k] = 2 * s
      /\ Aligned(p, o) /\ Aligned(buddy, o)
  BY <1>1, SplitHalves, SizePositive
<1>3. Inside(y) /\ Inside(z) /\ buddy \in Frames /\ buddy \in Nat
  BY <1>1, <1>2, ZoneAssumption DEF Inside, Frames
<1>4. ASSUME NEW b \in old, b # x
      PROVE  /\ Apart(b, y) /\ Apart(y, b) /\ Apart(b, z) /\ Apart(z, b)
             /\ b # y /\ b # z /\ b[1] # p /\ b[1] # buddy /\ b[1] \in Frames
  <2>1. b[1] \in Nat /\ b[1] \in Frames /\ Size[b[2]] \in Nat \ {0} /\ Apart(b, x)
    BY <1>1, <1>4, BlockFacts
  <2>. QED
    BY <1>1, <1>2, <1>3, <2>1 DEF Apart
<1>5. ASSUME NEW b \in free \cup held PROVE b \in old /\ b # x
  <2>1. x \notin free \cup held
    BY DEF Blocks, Separate
  <2>. QED
    BY <2>1 DEF All
<1>6. new = (old \ {x}) \cup {y, z}
  BY <1>5 DEF All
<1>7. Apart(y, z) /\ Apart(z, y) /\ y # z
  BY <1>1, <1>2, <1>3 DEF Apart
<1>8. Typed(free \cup {z}, held, {y}, level2, isFree2, waiting)
  <2>1. y \in Frames \X Orders /\ z \in Frames \X Orders
    BY <1>1, <1>3
  <2>2. old \subseteq Frames \X Orders /\ waiting \subseteq Frames
    BY DEF Blocks, Typed
  <2>3. All(free \cup {z}, held, {y}) = new
    OBVIOUS
  <2>. HIDE DEF old, new, x, y, z
  <2>4. new \subseteq Frames \X Orders
    BY <1>6, <2>1, <2>2
  <2>. QED
    BY <2>2, <2>3, <2>4 DEF Typed
<1>9. Separate(free \cup {z}, held, {y})
  <2>1. \A b \in new : Inside(b)
    BY <1>3, <1>6 DEF Blocks, Separate
  <2>2. \A b, c \in new : b # c => Apart(b, c)
    <3>1. \A b, c \in old : b # c => Apart(b, c)
      BY DEF Blocks, Separate
    <3>. HIDE DEF old, new, x, y, z
    <3>. QED
      BY <1>4, <1>6, <1>7, <3>1
  <2>3. (free \cup {z}) \cap held = {} /\ {y} \cap (free \cup {z} \cup held) = {}
    BY <1>4, <1>5, <1>7 DEF Blocks, Separate
  <2>. QED
    BY <2>1, <2>2, <2>3 DEF Separate
<1>10. Told(free \cup {z}, held, level2, isFree2)
  <2>1. \A b \in free \cup held : b[1] \in Frames /\ b[1] # buddy
    BY <1>4, <1>5
  <2>2. z[1] = buddy /\ z[2] = o
    OBVIOUS
  <2>. QED
    BY <2>1, <2>2 DEF Blocks, Told
<1>11. Stale(free \cup {z}, held, {y}, level2, isFree2)
  <2>1. SUFFICES ASSUME NEW q \in Frames, isFree2[q]
                 PROVE  /\ Aligned(q, level2[q])
                        /\ \/ <<q, level2[q]>> \in free \cup {z}
                           \/ q = p
                           \/ \E b \in new : Within(q, b) /\ level2[q] < b[2]
    BY DEF Stale
  <2>2. CASE q = buddy
    BY <1>2, <2>2
  <2>3. CASE q # buddy
    <3>1. isFree[q] /\ level2[q] = level[q] /\ level[q] \in Orders
      BY <2>1, <2>3 DEF Blocks, Typed
    <3>2. /\ Aligned(q, level[q])
          /\ \/ <<q, level[q]>> \in free
             \/ q = p
             \/ \E b \in old : Within(q, b) /\ level[q] < b[2]
      <4>1. \A b \in {x} : b[1] = p
        OBVIOUS
      <4>. QED
        BY <3>1, <4>1 DEF Blocks, Stale
    <3>3. CASE <<q, level[q]>> \in free \/ q = p
      BY <3>1, <3>2, <3>3
    <3>4. ASSUME NEW b \in old, Within(q, b), level[q] < b[2]
          PROVE  \E c \in new : Within(q, c) /\ level[q] < c[2]
      <4>1. CASE b # x
        BY <1>6, <3>4, <4>1
      <4>2. CASE b = x
        <5>1. q \in Nat /\ p < q /\ q < p + 2 * s /\ level[q] \in Nat /\ level[q] <= o
          BY <1>1, <1>2, <3>1, <3>4, <4>2, ZoneAssumption, SMTT(30) DEF Within, Frames, Orders
        <5>2. level[q] # o
          <6>1. SUFFICES ASSUME level[q] = o PROVE FALSE
            OBVIOUS
          <6>2. Aligned(q, o)
            BY <3>2, <6>1
          <6>3. CASE q < buddy
            <7>1. q + s <= p + s
              BY <1>1, <1>2, <5>1, <6>2, <6>3, Nested
            <7>. QED
              BY <1>1, <1>2, <5>1, <7>1
          <6>4. CASE q > buddy
            <7>1. q < buddy + s /\ buddy < q + s /\ o <= o
              BY <1>1, <1>2, <1>3, <5>1, <6>4
            <7>2. q + s <= buddy + s
              BY <1>2, <1>3, <5>1, <6>2, <7>1, Nested
            <7>. QED
              BY <1>2, <1>3, <5>1, <6>4, <7>2
          <6>. QED
            BY <1>3, <2>3, <5>1, <6>3, <6>4
        <5>3. level[q] < o
          BY <1>1, <5>1, <5>2
        <5>4. Within(q, y) \/ Within(q, z)
          BY <1>1, <1>2, <1>3, <2>3, <5>1 DEF Within
        <5>5. y[2] = o /\ z[2] = o /\ y \in new /\ z \in new
          BY <1>6
        <5>. QED
          BY <5>3, <5>4, <5>5
      <4>. QED
        BY <4>1, <4>2
    <3>. QED
      BY <3>1, <3>2, <3>3, <3>4
  <2>. QED
    BY <2>2, <2>3
<1>12. Unclaimed(free \cup {z}, held, {y}, isFree2, waiting)
  <2>1. ASSUME NEW u \in waiting
        PROVE  /\ u \in Frames /\ u # buddy /\ ~ isFree[u]
               /\ u < p \/ p + s <= u
               /\ u < buddy \/ buddy + s <= u
               /\ \A b \in old : u < b[1] \/ b[1] + Size[b[2]] <= u
    <3>1. ~ isFree[u] /\ \A b \in old : u < b[1] \/ b[1] + Size[b[2]] <= u
      BY DEF Blocks, Unclaimed
    <3>2. u < p \/ p + Size[k] <= u
      BY <1>1, <3>1
    <3>3. u \in Frames /\ u \in Nat
      BY ZoneAssumption DEF Blocks, Typed, Frames
    <3>4. (u < p \/ p + s <= u) /\ (u < buddy \/ buddy + s <= u) /\ u # buddy
      BY <1>1, <1>2, <1>3, <3>2, <3>3
    <3>. QED
      BY <3>1, <3>3, <3>4
  <2>2. y[1] = p /\ Size[y[2]] = s /\ z[1] = buddy /\ Size[z[2]] = s
    OBVIOUS
  <2>3. \A u \in waiting : \A b \in new : u < b[1] \/ b[1] + Size[b[2]] <= u
    <3>. HIDE DEF x, y, z, old, new, s
    <3>. QED
      BY <1>6, <2>1, <2>2
  <2>. QED
    BY <2>1, <2>3 DEF Unclaimed
<1>. QED
  BY <1>2, <1>3, <1>8, <1>9, <1>10, <1>11, <1>12 DEF Blocks

(* No other block starts with the first page of the block in progress.     *)
LEMMA OwnFirstPage ==
  ASSUME NEW free, NEW held, NEW moving, NEW level, NEW isFree, NEW waiting, NEW p, NEW o,
         Blocks(free, held, moving, level, isFree, waiting), Moves(p, o, moving),
         NEW b \in free \cup held
  PROVE  b[1] # p
<1>. PICK x : x = <<p, o>>
  OBVIOUS
<1>1. x \in moving /\ x[1] = p /\ x[2] = o
  BY DEF Moves
<1>2. /\ b \in All(free, held, moving) /\ x \in All(free, held, moving) /\ b # x
  BY <1>1 DEF Blocks, Separate, All
<1>3. /\ b[1] \in Nat /\ Size[b[2]] \in Nat \ {0} /\ Size[x[2]] \in Nat \ {0}
      /\ Apart(b, x)
  BY <1>2, BlockFacts
<1>. QED
  BY <1>1, <1>3 DEF Apart

(* The end of a call: the block in progress becomes a free or a held one,  *)
(* and its first page says so.                                             *)
LEMMA SettleMoving ==
  ASSUME NEW free, NEW held, NEW moving, NEW level, NEW isFree, NEW waiting,
         NEW p, NEW o, NEW level2, NEW isFree2,
         Blocks(free, held, moving, level, isFree, waiting), Moves(p, o, moving),
         Tells(p, o, level, isFree, level2, isFree2)
  PROVE  /\ isFree2[p] => Blocks(free \cup moving, held, {}, level2, isFree2, waiting)
         /\ ~ isFree2[p] => Blocks(free, held \cup moving, {}, level2, isFree2, waiting)
<1>. SUFFICES ASSUME Blocks(free, held, {<<p, o>>}, level, isFree, waiting),
                     level2 \in [Frames -> Orders], isFree2 \in [Frames -> BOOLEAN],
                     level2[p] = o,
                     \A q \in Frames : q # p => level2[q] = level[q] /\ isFree2[q] = isFree[q]
              PROVE  /\ isFree2[p] => Blocks(free \cup {<<p, o>>}, held, {},
                                             level2, isFree2, waiting)
                     /\ ~ isFree2[p] => Blocks(free, held \cup {<<p, o>>}, {},
                                               level2, isFree2, waiting)
  BY DEF Tells, Moves
<1>. DEFINE x == <<p, o>>
            old == All(free, held, {x})
<1>1. /\ x \in old /\ p \in Frames /\ o \in Orders /\ p \in Nat /\ Size[o] \in Nat \ {0}
      /\ Aligned(p, o)
  <2>1. x \in old /\ x[1] = p /\ x[2] = o
    BY DEF All
  <2>. QED
    BY <2>1, BlockFacts
<1>2. ASSUME NEW b \in free \cup held PROVE b[1] # p /\ b[1] \in Frames /\ b \in old
  <2>1. b \in old
    BY DEF All
  <2>. QED
    BY <2>1, BlockFacts, OwnFirstPage
<1>. DEFINE free2 == IF isFree2[p] THEN free \cup {x} ELSE free
            held2 == IF isFree2[p] THEN held ELSE held \cup {x}
<1>3. All(free2, held2, {}) = old
  BY DEF All
<1>4. x \notin free \cup held
  BY <1>2
<1>5. Typed(free2, held2, {}, level2, isFree2, waiting)
  BY <1>3 DEF Blocks, Typed
<1>6. Separate(free2, held2, {})
  <2>1. free2 \cap held2 = {}
    BY <1>4 DEF Blocks, Separate
  <2>. HIDE DEF free2, held2
  <2>. QED
    BY <1>3, <2>1 DEF Blocks, Separate
<1>7. Told(free2, held2, level2, isFree2)
  <2>1. \A b \in free : isFree2[b[1]] /\ level2[b[1]] = b[2]
    BY <1>2 DEF Blocks, Told
  <2>2. \A b \in held : ~ isFree2[b[1]] /\ level2[b[1]] = b[2]
    BY <1>2 DEF Blocks, Told
  <2>3. x[1] = p /\ x[2] = o
    OBVIOUS
  <2>. QED
    BY <2>1, <2>2, <2>3 DEF Told
<1>8. Stale(free2, held2, {}, level2, isFree2)
  <2>1. SUFFICES ASSUME NEW q \in Frames, isFree2[q]
                 PROVE  /\ Aligned(q, level2[q])
                        /\ \/ <<q, level2[q]>> \in free2
                           \/ \E b \in old : Within(q, b) /\ level2[q] < b[2]
    BY <1>3 DEF Stale
  <2>2. CASE q = p
    BY <1>1, <2>1, <2>2
  <2>3. CASE q # p
    <3>1. isFree[q] /\ level2[q] = level[q]
      BY <2>1, <2>3
    <3>2. \A b \in {x} : b[1] = p
      OBVIOUS
    <3>3. /\ Aligned(q, level[q])
          /\ \/ <<q, level[q]>> \in free
             \/ \E b \in old : Within(q, b) /\ level[q] < b[2]
      BY <2>3, <3>1, <3>2 DEF Blocks, Stale
    <3>. QED
      BY <3>1, <3>3
  <2>. QED
    BY <2>2, <2>3
<1>9. Unclaimed(free2, held2, {}, isFree2, waiting)
  <2>1. ASSUME NEW u \in waiting
        PROVE  ~ isFree2[u] /\ \A b \in old : u < b[1] \/ b[1] + Size[b[2]] <= u
    <3>1. ~ isFree[u] /\ \A b \in old : u < b[1] \/ b[1] + Size[b[2]] <= u
      BY DEF Blocks, Unclaimed
    <3>2. u < p \/ p + Size[o] <= u
      BY <1>1, <3>1
    <3>3. u \in Frames /\ u # p
      <4>1. u \in Frames
        BY DEF Blocks, Typed
      <4>. QED
        BY <1>1, <3>2, <4>1
    <3>. QED
      BY <3>1, <3>3
  <2>. QED
    BY <1>3, <2>1 DEF Unclaimed
<1>10. Blocks(free2, held2, {}, level2, isFree2, waiting)
  BY <1>5, <1>6, <1>7, <1>8, <1>9 DEF Blocks
<1>. QED
  BY <1>1, <1>2, <1>10

(* If the buddy of the block in progress looks free at the same level, it  *)
(* is a free block: a larger block with a stale word in it would cover the *)
(* block in progress too.                                                  *)
LEMMA BuddyIsFree ==
  ASSUME NEW free, NEW held, NEW moving, NEW level, NEW isFree, NEW waiting,
         NEW p, NEW o, NEW buddy, NEW l, NEW other, NEW grown,
         Blocks(free, held, moving, level, isFree, waiting),
         Joins(p, o, buddy, l, moving, other, grown), level[buddy] = o, isFree[buddy]
  PROVE  other \subseteq free
<1>. SUFFICES ASSUME Blocks(free, held, {<<p, o>>}, level, isFree, waiting),
                     o < MaxOrder, buddy \in Frames, buddy = BuddyOffset(p, o),
                     l = Lower(p, buddy), level[buddy] = o, isFree[buddy]
              PROVE  <<buddy, o>> \in free
  BY DEF Joins
<1>. DEFINE s == Size[o]
            x == <<p, o>>
            old == All(free, held, {x})
<1>1. /\ x \in old /\ p \in Frames /\ p \in Nat /\ o \in Orders /\ o \in Nat /\ s \in Nat \ {0}
      /\ Aligned(p, o) /\ o + 1 \in Orders
  <2>1. x \in old /\ x[1] = p /\ x[2] = o
    BY DEF All
  <2>. QED
    BY <2>1, BlockFacts, ZoneAssumption DEF Orders
<1>2. /\ buddy \in Nat /\ Aligned(l, o + 1) /\ l \in Nat
      /\ buddy = p + s \/ p = buddy + s
      /\ Size[o + 1] = 2 * s
  BY <1>1, BuddyPair DEF Lower
<1>3. ASSUME NEW b \in old, Within(buddy, b), o < b[2] PROVE FALSE
  <2>1. b # x /\ b[1] \in Nat /\ b[2] \in Orders /\ Size[b[2]] \in Nat \ {0}
        /\ b[2] \in Nat /\ Aligned(b[1], b[2])
    BY <1>1, <1>3, BlockFacts
  <2>2. l < b[1] + Size[b[2]] /\ b[1] < l + Size[o + 1] /\ o + 1 <= b[2]
    BY <1>1, <1>2, <1>3, <2>1 DEF Within, Lower
  <2>3. b[1] <= l /\ l + Size[o + 1] <= b[1] + Size[b[2]]
    BY <1>1, <1>2, <2>1, <2>2, Nested
  <2>4. Apart(b, x)
    BY <1>1, <2>1, BlockFacts
  <2>. QED
    BY <1>1, <1>2, <2>1, <2>3, <2>4 DEF Apart, Lower
<1>4. buddy # p
  BY <1>1, <1>2
<1>5. \A b \in {x} : b[1] = p
  OBVIOUS
<1>. QED
  BY <1>3, <1>4, <1>5 DEF Blocks, Stale

(* An iteration of a merge: the buddy leaves the free blocks and the block *)
(* in progress grows.  The page that becomes its inside keeps its word.    *)
LEMMA MergeMoving ==
  ASSUME NEW free, NEW held, NEW moving, NEW level, NEW isFree, NEW waiting,
         NEW p, NEW o, NEW buddy, NEW l, NEW other, NEW grown,
         Blocks(free, held, moving, level, isFree, waiting),
         Joins(p, o, buddy, l, moving, other, grown), level[buddy] = o, isFree[buddy],
         isFree[p] => level[p] < o
  PROVE  /\ other \subseteq free
         /\ Blocks(free \ other, held, grown, level, isFree, waiting)
         /\ l \in Frames /\ o + 1 \in Orders
         /\ isFree[l] => level[l] < o + 1
<1>. SUFFICES ASSUME Blocks(free, held, {<<p, o>>}, level, isFree, waiting),
                     o < MaxOrder, buddy \in Frames, buddy = BuddyOffset(p, o),
                     level[buddy] = o, isFree[buddy], isFree[p] => level[p] < o,
                     l = Lower(p, buddy)
              PROVE  /\ <<buddy, o>> \in free
                     /\ Blocks(free \ {<<buddy, o>>}, held, {<<l, o + 1>>},
                               level, isFree, waiting)
                     /\ l \in Frames /\ o + 1 \in Orders
                     /\ isFree[l] => level[l] < o + 1
  BY DEF Joins
<1>. DEFINE s == Size[o]
            x == <<p, o>>
            w == <<buddy, o>>
            y == <<l, o + 1>>
            old == All(free, held, {x})
            new == All(free \ {w}, held, {y})
<1>1. /\ x \in old /\ p \in Frames /\ p \in Nat /\ o \in Orders /\ o \in Nat /\ s \in Nat \ {0}
      /\ Aligned(p, o) /\ o + 1 \in Orders /\ Inside(x)
  <2>1. x \in old /\ x[1] = p /\ x[2] = o
    BY DEF All
  <2>. QED
    BY <2>1, BlockFacts, ZoneAssumption DEF Orders
<1>2. w \in free
  <2>1. other \subseteq free
    BY BuddyIsFree
  <2>. QED
    BY <2>1 DEF Joins
<1>3. w # x /\ w \in old /\ Inside(w) /\ w \notin held /\ x \notin free \cup held
  <2>1. w \in old /\ w # x /\ w \notin held /\ x \notin free \cup held
    BY <1>2 DEF Blocks, Separate, All
  <2>. QED
    BY <2>1, BlockFacts
<1>4. /\ buddy \in Nat /\ Aligned(l, o + 1) /\ l \in Nat /\ l \in Frames
      /\ \/ l = p /\ buddy = l + s
         \/ l = buddy /\ p = l + s
      /\ Size[o + 1] = 2 * s
  <2>1. /\ buddy \in Nat /\ Aligned(l, o + 1)
        /\ buddy = p + s \/ p = buddy + s
        /\ Size[o + 1] = 2 * s
    BY <1>1, BuddyPair
  <2>2. CASE buddy = p + s
    <3>1. l = p
      BY <1>1, <2>2 DEF Lower
    <3>. QED
      BY <1>1, <2>1, <2>2, <3>1
  <2>3. CASE p = buddy + s
    <3>1. l = buddy
      BY <1>1, <2>1, <2>3 DEF Lower
    <3>. QED
      BY <1>1, <2>1, <2>3, <3>1
  <2>. QED
    BY <2>1, <2>2, <2>3
<1>5. Inside(y)
  BY <1>1, <1>3, <1>4, ZoneAssumption DEF Inside
<1>6. new = (old \ {x, w}) \cup {y}
  BY <1>2, <1>3 DEF All
<1>7. ASSUME NEW b \in old, b # x, b # w
      PROVE  Apart(b, y) /\ Apart(y, b) /\ b # y
  <2>1. Apart(b, x) /\ Apart(b, w) /\ b[1] \in Nat /\ Size[b[2]] \in Nat \ {0}
    BY <1>1, <1>3, <1>7, BlockFacts
  <2>. QED
    BY <1>1, <1>4, <2>1 DEF Apart
<1>8. Typed(free \ {w}, held, {y}, level, isFree, waiting)
  <2>1. y \in Frames \X Orders
    BY <1>1, <1>4
  <2>2. old \subseteq Frames \X Orders
    BY DEF Blocks, Typed
  <2>3. new \subseteq Frames \X Orders
    <3>. HIDE DEF old, new, x, y, w
    <3>. QED
      BY <1>6, <2>1, <2>2
  <2>. QED
    BY <2>3 DEF Blocks, Typed
<1>9. Separate(free \ {w}, held, {y})
  <2>1. \A b \in new : Inside(b)
    BY <1>5, <1>6 DEF Blocks, Separate
  <2>2. \A b, c \in new : b # c => Apart(b, c)
    <3>1. \A b, c \in old : b # c => Apart(b, c)
      BY DEF Blocks, Separate
    <3>. HIDE DEF old, new, x, y, w
    <3>. QED
      BY <1>6, <1>7, <3>1
  <2>3. y \notin (free \ {w}) \cup held
    <3>1. ASSUME NEW b \in (free \ {w}) \cup held PROVE b \in old /\ b # x /\ b # w
      BY <1>3 DEF All
    <3>. QED
      BY <1>7, <3>1
  <2>4. (free \ {w}) \cap held = {}
    BY DEF Blocks, Separate
  <2>. QED
    BY <2>1, <2>2, <2>3, <2>4 DEF Separate
<1>10. Told(free \ {w}, held, level, isFree)
  BY DEF Blocks, Told
<1>11. Stale(free \ {w}, held, {y}, level, isFree)
  <2>1. SUFFICES ASSUME NEW q \in Frames, isFree[q]
                 PROVE  /\ Aligned(q, level[q])
                        /\ \/ <<q, level[q]>> \in free \ {w}
                           \/ q = l
                           \/ \E b \in new : Within(q, b) /\ level[q] < b[2]
    BY DEF Stale
  <2>2. /\ Aligned(q, level[q])
        /\ \/ <<q, level[q]>> \in free
           \/ q = p
           \/ \E b \in old : Within(q, b) /\ level[q] < b[2]
    <3>1. \A b \in {x} : b[1] = p
      OBVIOUS
    <3>. QED
      BY <2>1, <3>1 DEF Blocks, Stale
  <2>3. level[q] \in Orders /\ level[q] \in Nat /\ q \in Nat
    BY ZoneAssumption DEF Blocks, Typed, Orders, Frames
  <2>4. y \in new /\ y[2] = o + 1
    BY <1>6
  <2>5. ASSUME q = p \/ q = buddy, q # l PROVE Within(q, y) /\ level[q] < o + 1
    <3>1. Within(q, y)
      BY <1>1, <1>4, <2>5 DEF Within
    <3>2. level[q] <= o
      BY <1>1, <2>1, <2>3, <2>5
    <3>. QED
      BY <1>1, <2>3, <3>1, <3>2
  <2>6. CASE q = p \/ q = buddy
    BY <2>2, <2>4, <2>5, <2>6
  <2>7. CASE <<q, level[q]>> \in free /\ q # buddy
    BY <2>2, <2>7
  <2>8. ASSUME NEW b \in old, Within(q, b), level[q] < b[2]
        PROVE  \E c \in new : Within(q, c) /\ level[q] < c[2]
    <3>1. CASE b # x /\ b # w
      BY <1>6, <2>8, <3>1
    <3>2. CASE b = x \/ b = w
      <4>1. Within(q, y)
        BY <1>1, <1>4, <2>3, <2>8, <3>2 DEF Within
      <4>2. level[q] < o + 1
        BY <1>1, <2>3, <2>8, <3>2
      <4>. QED
        BY <2>4, <4>1, <4>2
    <3>. QED
      BY <3>1, <3>2
  <2>. QED
    BY <2>2, <2>6, <2>7, <2>8
<1>12. Unclaimed(free \ {w}, held, {y}, isFree, waiting)
  <2>1. ASSUME NEW u \in waiting
        PROVE  /\ ~ isFree[u]
               /\ u < l \/ l + Size[o + 1] <= u
               /\ \A b \in old : u < b[1] \/ b[1] + Size[b[2]] <= u
    <3>1. ~ isFree[u] /\ \A b \in old : u < b[1] \/ b[1] + Size[b[2]] <= u
      BY DEF Blocks, Unclaimed
    <3>2. (u < p \/ p + s <= u) /\ (u < buddy \/ buddy + s <= u)
      BY <1>1, <1>3, <3>1
    <3>3. u \in Nat
      BY ZoneAssumption DEF Blocks, Typed, Frames
    <3>4. u < l \/ l + Size[o + 1] <= u
      BY <1>1, <1>4, <3>2, <3>3
    <3>. QED
      BY <3>1, <3>4
  <2>2. y[1] = l /\ Size[y[2]] = Size[o + 1]
    OBVIOUS
  <2>3. \A u \in waiting : \A b \in new : u < b[1] \/ b[1] + Size[b[2]] <= u
    <3>. HIDE DEF x, y, w, old, new
    <3>. QED
      BY <1>6, <2>1, <2>2
  <2>. QED
    BY <2>1, <2>3 DEF Unclaimed
<1>13. isFree[l] => level[l] < o + 1
  BY <1>1, <1>4, ZoneAssumption DEF Blocks, Typed, Orders
<1>. QED
  BY <1>1, <1>2, <1>4, <1>8, <1>9, <1>10, <1>11, <1>12, <1>13 DEF Blocks

-----------------------------------------------------------------------------
(* The pages of a set of blocks.                                           *)
Cover(S) == UNION {Block(b[1], b[2]) : b \in S}

(* What it is for a page to be covered.                                    *)
LEMMA CoverMember ==
  ASSUME NEW S, NEW q
  PROVE  q \in Cover(S) <=> \E b \in S : q \in Block(b[1], b[2])
BY DEF Cover

(* No block covers no page.                                                *)
LEMMA CoverNone == Cover({}) = {}
BY CoverMember

(* One more block covers its own pages more.                               *)
LEMMA CoverAdd ==
  ASSUME NEW S, NEW p, NEW o
  PROVE  Cover(S \cup {<<p, o>>}) = Cover(S) \cup Block(p, o)
<1>1. ASSUME NEW q
      PROVE  q \in Cover(S \cup {<<p, o>>}) <=> q \in Cover(S) \cup Block(p, o)
  <2>1. q \in Cover(S \cup {<<p, o>>})
          <=> \E b \in S \cup {<<p, o>>} : q \in Block(b[1], b[2])
    BY CoverMember
  <2>2. q \in Cover(S) <=> \E b \in S : q \in Block(b[1], b[2])
    BY CoverMember
  <2>3. <<p, o>>[1] = p /\ <<p, o>>[2] = o
    OBVIOUS
  <2>. QED
    BY <2>1, <2>2, <2>3, Zenon
<1>. QED
  BY <1>1

(* A block is its two halves.                                              *)
LEMMA Halves ==
  ASSUME NEW l \in Nat, NEW o \in Orders, o + 1 \in Orders
  PROVE  Block(l, o + 1) = Block(l, o) \cup Block(l + Size[o], o)
<1>1. Size[o + 1] = 2 * Size[o] /\ Size[o] \in Nat \ {0}
  BY SizeAssumption, SizePositive, ZoneAssumption DEF Orders
<1>. QED
  BY <1>1 DEF Block

(* Cutting a block in halves covers the same pages.                        *)
LEMMA CutCover ==
  ASSUME NEW free, NEW p \in Nat, NEW k, NEW o, NEW buddy, NEW moving, NEW upper, NEW rest,
         Cuts(p, k, o, buddy, moving, upper, rest), Aligned(p, k)
  PROVE  Cover((free \cup upper) \cup rest) = Cover(free \cup moving)
<1>1. /\ moving = {<<p, o + 1>>} /\ upper = {<<p + Size[o], o>>} /\ rest = {<<p, o>>}
      /\ o \in Orders /\ o + 1 \in Orders
  BY SplitHalves DEF Cuts
<1>2. /\ Cover((free \cup upper) \cup rest) = Cover(free \cup upper) \cup Block(p, o)
      /\ Cover(free \cup upper) = Cover(free) \cup Block(p + Size[o], o)
      /\ Cover(free \cup moving) = Cover(free) \cup Block(p, o + 1)
  BY <1>1, CoverAdd
<1>. QED
  BY <1>1, <1>2, Halves

(* Joining a block with its free buddy covers the same pages.              *)
LEMMA MergeCover ==
  ASSUME NEW free, NEW p \in Nat, NEW o \in Orders, Aligned(p, o),
         NEW buddy, NEW l, NEW moving, NEW other, NEW grown,
         Joins(p, o, buddy, l, moving, other, grown), <<buddy, o>> \in free
  PROVE  Cover((free \ other) \cup grown) = Cover(free \cup moving)
<1>1. /\ o + 1 \in Orders /\ buddy = BuddyOffset(p, o) /\ l = Lower(p, buddy)
      /\ moving = {<<p, o>>} /\ other = {<<buddy, o>>} /\ grown = {<<l, o + 1>>}
  BY ZoneAssumption DEF Joins, Orders
<1>2. buddy \in Nat /\ (buddy = p + Size[o] \/ p = buddy + Size[o]) /\ Size[o] \in Nat \ {0}
  BY <1>1, BuddyPair, SizePositive
<1>. PICK S : S = free \ {<<buddy, o>>}
  OBVIOUS
<1>3. free \cup {<<p, o>>} = (S \cup {<<p, o>>}) \cup {<<buddy, o>>}
  BY <1>1
<1>4. /\ Cover((S \cup {<<p, o>>}) \cup {<<buddy, o>>})
           = Cover(S \cup {<<p, o>>}) \cup Block(buddy, o)
      /\ Cover(S \cup {<<p, o>>}) = Cover(S) \cup Block(p, o)
      /\ Cover(S \cup {<<l, o + 1>>}) = Cover(S) \cup Block(l, o + 1)
  BY CoverAdd
<1>5. Cover(free \cup {<<p, o>>}) = Cover(S) \cup (Block(p, o) \cup Block(buddy, o))
  BY <1>3, <1>4
<1>6. Block(l, o + 1) = Block(p, o) \cup Block(buddy, o)
  <2>1. CASE buddy = p + Size[o]
    BY <1>1, <1>2, <2>1, Halves DEF Lower
  <2>2. CASE p = buddy + Size[o]
    BY <1>1, <1>2, <2>2, Halves DEF Lower
  <2>. QED
    BY <1>2, <2>1, <2>2
<1>. QED
  BY <1>1, <1>4, <1>5, <1>6

(* The block in progress covers pages that no free block covers.           *)
LEMMA MovingCover ==
  ASSUME NEW free, NEW held, NEW moving, NEW level, NEW isFree, NEW waiting, NEW p, NEW o,
         Blocks(free, held, moving, level, isFree, waiting), Moves(p, o, moving)
  PROVE  /\ Block(p, o) \subseteq Cover(free \cup moving)
         /\ Cover(free) = Cover(free \cup moving) \ Block(p, o)
<1>. SUFFICES ASSUME moving = {<<p, o>>}
              PROVE  /\ Block(p, o) \subseteq Cover(free \cup {<<p, o>>})
                     /\ Cover(free) = Cover(free \cup {<<p, o>>}) \ Block(p, o)
  BY DEF Moves
<1>. DEFINE x == <<p, o>>
<1>1. Cover(free \cup {x}) = Cover(free) \cup Block(p, o)
  BY CoverAdd
<1>2. Cover(free) \cap Block(p, o) = {}
  <2>1. ASSUME NEW b \in free PROVE Block(b[1], b[2]) \cap Block(p, o) = {}
    <3>1. b \in All(free, held, {x}) /\ x \in All(free, held, {x}) /\ b # x
      BY DEF Blocks, Separate, All
    <3>2. /\ b[1] \in Nat /\ Size[b[2]] \in Nat /\ x[1] \in Nat /\ Size[x[2]] \in Nat
          /\ Apart(b, x)
      BY <3>1, BlockFacts
    <3>. QED
      BY <3>2 DEF Apart, Block
  <2>. QED
    BY <2>1, CoverMember
<1>. QED
  BY <1>1, <1>2

-----------------------------------------------------------------------------
(* Blocks that are not joined although they could be.                      *)

(* No block of F is beside its buddy.                                      *)
NoPairs(F) == \A b \in F : b[2] < MaxOrder => <<BuddyOffset(b[1], b[2]), b[2]>> \notin F

(* A block whose buddy is not there makes no pair.                         *)
LEMMA NoPairsAdd ==
  ASSUME NEW F, F \subseteq Frames \X Orders, \A b \in F : Aligned(b[1], b[2]), NoPairs(F),
         NEW p \in Frames, NEW o \in Orders, Aligned(p, o),
         o < MaxOrder => <<BuddyOffset(p, o), o>> \notin F
  PROVE  NoPairs(F \cup {<<p, o>>})
<1>. DEFINE x == <<p, o>>
<1>1. ASSUME NEW b \in Frames \X Orders, Aligned(b[1], b[2]), b[2] < MaxOrder
      PROVE  /\ b = <<b[1], b[2]>> /\ b[2] \in Orders /\ b[1] \in Nat
             /\ BuddyOffset(b[1], b[2]) # b[1]
             /\ BuddyOffset(BuddyOffset(b[1], b[2]), b[2]) = b[1]
  <2>1. b = <<b[1], b[2]>> /\ b[2] \in Orders /\ b[1] \in Nat /\ b[2] + 1 \in Orders
    BY <1>1, ZoneAssumption DEF Frames, Orders
  <2>. QED
    BY <1>1, <2>1, BuddyPair, SizePositive
<1>2. SUFFICES ASSUME NEW b \in F \cup {x}, b[2] < MaxOrder,
                      <<BuddyOffset(b[1], b[2]), b[2]>> \in F \cup {x}
               PROVE  FALSE
  BY DEF NoPairs
<1>3. x \in Frames \X Orders /\ x[1] = p /\ x[2] = o
  OBVIOUS
<1>. DEFINE c == <<BuddyOffset(b[1], b[2]), b[2]>>
<1>4. /\ b = <<b[1], b[2]>> /\ BuddyOffset(b[1], b[2]) # b[1]
      /\ BuddyOffset(BuddyOffset(b[1], b[2]), b[2]) = b[1]
      /\ c[1] = BuddyOffset(b[1], b[2]) /\ c[2] = b[2]
  BY <1>1, <1>2, <1>3
<1>. HIDE DEF x, c
<1>5. CASE b = x
  <2>1. c # x
    BY <1>4, <1>5
  <2>2. c = <<BuddyOffset(p, o), o>>
    BY <1>3, <1>5 DEF c
  <2>. QED
    BY <1>2, <1>3, <1>5, <2>1, <2>2 DEF c
<1>6. CASE b \in F
  <2>1. c = x
    BY <1>2, <1>6 DEF NoPairs, c
  <2>2. b[1] = BuddyOffset(p, o) /\ b[2] = o
    BY <1>3, <1>4, <2>1
  <2>. QED
    BY <1>2, <1>4, <1>6, <2>2
<1>. QED
  BY <1>2, <1>5, <1>6

(* Free blocks as they are between calls: aligned, apart, no buddies.      *)
IsFreeSet(F) ==
  /\ \A b \in F : /\ b \in Frames \X Orders /\ Aligned(b[1], b[2])
                  /\ \A c \in F : b = c \/ Apart(b, c)
  /\ NoPairs(F)

(* Free blocks start in the zone and meet no other block.                  *)
LEMMA FreeSetFacts ==
  ASSUME NEW F, IsFreeSet(F)
  PROVE  \A b \in F :
           /\ b = <<b[1], b[2]>> /\ b[1] \in Frames /\ b[2] \in Orders
           /\ b[1] \in Nat /\ b[2] \in Nat /\ Size[b[2]] \in Nat \ {0}
           /\ Aligned(b[1], b[2])
           /\ \A c \in F : b = c \/ Apart(b, c)
<1>. SUFFICES ASSUME NEW b \in F
              PROVE  /\ b = <<b[1], b[2]>> /\ b[1] \in Frames /\ b[2] \in Orders
                     /\ b[1] \in Nat /\ b[2] \in Nat /\ Size[b[2]] \in Nat \ {0}
                     /\ Aligned(b[1], b[2])
                     /\ \A c \in F : b = c \/ Apart(b, c)
  OBVIOUS
<1>1. b \in Frames \X Orders /\ Aligned(b[1], b[2]) /\ \A c \in F : b = c \/ Apart(b, c)
  BY DEF IsFreeSet
<1>2. b = <<b[1], b[2]>> /\ b[1] \in Frames /\ b[2] \in Orders
  BY <1>1
<1>. QED
  BY <1>1, <1>2, SizePositive, ZoneAssumption DEF Frames, Orders

(* An aligned region of available pages lies in one free block: were it in *)
(* pieces, the smallest of them would have its buddy free beside it.       *)
LEMMA OneFreeBlock ==
  ASSUME NEW F, IsFreeSet(F), NEW r \in Nat, NEW m \in Orders,
         Aligned(r, m), Block(r, m) \subseteq Cover(F)
  PROVE  \E b \in F : m <= b[2] /\ b[1] <= r /\ r + Size[m] <= b[1] + Size[b[2]]
<1>. DEFINE In(b) == r <= b[1] /\ b[1] + Size[b[2]] <= r + Size[m]
<1>1. SUFFICES ASSUME \A b \in F : ~ (m <= b[2] /\ b[1] <= r /\ r + Size[m] <= b[1] + Size[b[2]])
               PROVE  FALSE
  OBVIOUS
<1>2. Size[m] \in Nat \ {0} /\ m \in Nat
  BY SizePositive, ZoneAssumption DEF Orders
<1>3. ASSUME NEW q \in Nat, q \in Block(r, m)
      PROVE  \E b \in F : In(b) /\ b[2] < m /\ q \in Block(b[1], b[2])
  <2>1. PICK b \in F : q \in Block(b[1], b[2])
    BY <1>3, CoverMember
  <2>2. /\ b[1] \in Nat /\ b[2] \in Orders /\ b[2] \in Nat
        /\ Size[b[2]] \in Nat \ {0} /\ Aligned(b[1], b[2])
    BY FreeSetFacts
  <2>3. b[1] < r + Size[m] /\ r < b[1] + Size[b[2]]
    BY <1>2, <1>3, <2>1, <2>2 DEF Block
  <2>4. b[2] < m
    <3>1. SUFFICES ASSUME m <= b[2] PROVE FALSE
      BY <1>2, <2>2
    <3>. QED
      BY <1>1, <2>2, <2>3, <3>1, Nested
  <2>5. In(b)
    BY <1>2, <2>2, <2>3, <2>4, Nested
  <2>. QED
    BY <2>1, <2>4, <2>5
<1>. DEFINE Orders_In == {k \in Nat : \E b \in F : In(b) /\ b[2] = k /\ k < m}
<1>4. Orders_In # {}
  <2>1. r \in Block(r, m)
    BY <1>2 DEF Block
  <2>2. PICK b \in F : In(b) /\ b[2] < m
    BY <1>3, <2>1
  <2>3. b[2] \in Nat
    BY FreeSetFacts
  <2>. QED
    BY <2>2, <2>3
<1>5. PICK k \in Orders_In : \A j \in Orders_In : k <= j
  <2>1. Orders_In \in SUBSET Nat
    OBVIOUS
  <2>. QED
    BY <1>4, <2>1, LeastElement
<1>6. PICK b \in F : In(b) /\ b[2] = k /\ k < m
  BY <1>5
<1>. DEFINE p == b[1]
            buddy == BuddyOffset(p, k)
            l == Lower(p, buddy)
<1>7. /\ k \in Orders /\ k \in Nat /\ k + 1 \in Orders /\ k # MaxOrder /\ k + 1 <= m
      /\ p \in Nat /\ Aligned(p, k) /\ Size[k] \in Nat \ {0} /\ b = <<p, k>>
  BY <1>2, <1>6, FreeSetFacts, ZoneAssumption DEF Orders
<1>8. /\ buddy \in Nat /\ Aligned(buddy, k) /\ Aligned(l, k + 1)
      /\ buddy = p + Size[k] \/ p = buddy + Size[k]
      /\ Size[k + 1] = 2 * Size[k]
  BY <1>7, BuddyPair
<1>9. l \in Nat /\ l <= p /\ l <= buddy /\ p + Size[k] <= l + Size[k + 1]
      /\ buddy + Size[k] <= l + Size[k + 1]
  BY <1>7, <1>8 DEF Lower
<1>10. r <= l /\ l + Size[k + 1] <= r + Size[m]
  <2>1. l < r + Size[m] /\ r < l + Size[k + 1]
    BY <1>2, <1>6, <1>7, <1>8, <1>9
  <2>. QED
    BY <1>7, <1>8, <1>9, <2>1, Nested
<1>11. buddy \in Block(r, m)
  BY <1>2, <1>7, <1>8, <1>9, <1>10 DEF Block
<1>12. PICK c \in F : In(c) /\ c[2] < m /\ buddy \in Block(c[1], c[2])
  BY <1>3, <1>8, <1>11
<1>13. /\ c = <<c[1], c[2]>> /\ c[1] \in Nat /\ c[2] \in Nat /\ c[2] \in Orders
       /\ Aligned(c[1], c[2]) /\ Size[c[2]] \in Nat \ {0}
       /\ b = c \/ Apart(b, c)
  BY FreeSetFacts
<1>14. k <= c[2]
  <2>1. c[2] \in Orders_In
    BY <1>12, <1>13
  <2>. QED
    BY <1>5, <2>1
<1>15. c[1] <= buddy /\ buddy + Size[k] <= c[1] + Size[c[2]]
  <2>1. c[1] <= buddy /\ buddy < c[1] + Size[c[2]]
    BY <1>12, <1>13, <1>8 DEF Block
  <2>. QED
    BY <1>7, <1>8, <1>13, <1>14, <2>1, Nested
<1>16. b # c
  BY <1>7, <1>8, <1>12, <1>13 DEF Block
<1>17. Apart(b, c)
  BY <1>13, <1>16
<1>18. CASE c[2] = k
  <2>1. c[1] = buddy
    BY <1>7, <1>8, <1>13, <1>15, <1>18
  <2>2. <<buddy, k>> \in F
    BY <1>6, <1>7, <1>12, <1>13, <1>18, <2>1
  <2>3. <<buddy, k>> \notin F
    BY <1>6, <1>7, ZoneAssumption DEF IsFreeSet, NoPairs, Orders
  <2>. QED
    BY <2>2, <2>3
<1>19. CASE c[2] # k
  <2>1. k + 1 <= c[2]
    BY <1>7, <1>13, <1>14, <1>19
  <2>2. l < c[1] + Size[c[2]] /\ c[1] < l + Size[k + 1]
    BY <1>7, <1>8, <1>9, <1>13, <1>15
  <2>3. c[1] <= l /\ l + Size[k + 1] <= c[1] + Size[c[2]]
    BY <1>7, <1>8, <1>9, <1>13, <2>1, <2>2, Nested
  <2>. QED
    BY <1>7, <1>8, <1>9, <1>13, <1>17, <2>3 DEF Apart
<1>. QED
  BY <1>18, <1>19

(* Between calls the free blocks are the maximal aligned blocks of         *)
(* available pages.                                                        *)
LEMMA CoalescedBlocks ==
  ASSUME NEW F, IsFreeSet(F)
  PROVE  F = {b \in Frames \X Orders : Maximal(b[1], b[2], Cover(F))}
<1>. DEFINE parent(b) == Lower(b[1], BuddyOffset(b[1], b[2]))
<1>1. ASSUME NEW b \in Frames \X Orders, Aligned(b[1], b[2]), b[2] < MaxOrder
      PROVE  /\ parent(b) \in Nat /\ b[2] + 1 \in Orders
             /\ Aligned(parent(b), b[2] + 1)
             /\ parent(b) <= b[1] /\ b[1] + Size[b[2]] <= parent(b) + Size[b[2] + 1]
             /\ Size[b[2]] \in Nat \ {0} /\ Size[b[2] + 1] \in Nat
  <2>1. b[1] \in Nat /\ b[2] \in Orders /\ b[2] + 1 \in Orders
    BY <1>1, ZoneAssumption DEF Frames, Orders
  <2>. QED
    BY <1>1, <2>1, SizePositive, BuddyPair DEF Lower
<1>2. ASSUME NEW b \in F PROVE b \in Frames \X Orders /\ Maximal(b[1], b[2], Cover(F))
  <2>1. /\ b = <<b[1], b[2]>> /\ b[1] \in Frames /\ b[2] \in Orders
        /\ b[1] \in Nat /\ b[2] \in Nat /\ Size[b[2]] \in Nat \ {0}
        /\ Aligned(b[1], b[2]) /\ b \in Frames \X Orders
    BY FreeSetFacts
  <2>2. Block(b[1], b[2]) \subseteq Cover(F)
    BY CoverMember
  <2>3. ASSUME b[2] < MaxOrder, Block(parent(b), b[2] + 1) \subseteq Cover(F) PROVE FALSE
    <3>1. PICK c \in F : /\ b[2] + 1 <= c[2] /\ c[1] <= parent(b)
                                  /\ parent(b) + Size[b[2] + 1] <= c[1] + Size[c[2]]
      BY <1>1, <2>1, <2>3, OneFreeBlock
    <3>2. /\ c[1] \in Nat /\ c[2] \in Nat /\ Size[c[2]] \in Nat \ {0}
          /\ b = c \/ Apart(b, c)
      BY FreeSetFacts
    <3>3. b # c
      BY <2>1, <3>1, <3>2
    <3>. QED
      BY <1>1, <2>1, <2>3, <3>1, <3>2, <3>3 DEF Apart
  <2>. QED
    BY <2>1, <2>2, <2>3 DEF Maximal
<1>3. ASSUME NEW b \in Frames \X Orders, Maximal(b[1], b[2], Cover(F)) PROVE b \in F
  <2>1. /\ b = <<b[1], b[2]>> /\ b[1] \in Nat /\ b[2] \in Orders /\ b[2] \in Nat
        /\ Aligned(b[1], b[2]) /\ Block(b[1], b[2]) \subseteq Cover(F)
        /\ Size[b[2]] \in Nat \ {0}
    BY <1>3, SizePositive, ZoneAssumption DEF Maximal, Frames, Orders
  <2>2. PICK c \in F : /\ b[2] <= c[2] /\ c[1] <= b[1]
                                /\ b[1] + Size[b[2]] <= c[1] + Size[c[2]]
    BY <2>1, OneFreeBlock
  <2>3. /\ c = <<c[1], c[2]>> /\ c[1] \in Nat /\ c[2] \in Nat /\ c[2] \in Orders
        /\ Aligned(c[1], c[2]) /\ Size[c[2]] \in Nat \ {0}
    BY FreeSetFacts
  <2>4. CASE b[2] = c[2]
    BY <2>1, <2>2, <2>3, <2>4
  <2>5. CASE b[2] # c[2]
    <3>1. b[2] < MaxOrder /\ b[2] + 1 <= c[2]
      BY <2>1, <2>2, <2>3, <2>5, ZoneAssumption DEF Orders
    <3>2. c[1] <= parent(b) /\ parent(b) + Size[b[2] + 1] <= c[1] + Size[c[2]]
      <4>. DEFINE q == parent(b)
                  n == b[2] + 1
      <4>1. /\ q \in Nat /\ n \in Orders /\ Aligned(q, n) /\ n <= c[2]
            /\ q <= b[1] /\ b[1] + Size[b[2]] <= q + Size[n] /\ Size[n] \in Nat
        BY <1>1, <2>1, <3>1
      <4>. HIDE DEF q, n
      <4>2. q < c[1] + Size[c[2]] /\ c[1] < q + Size[n]
        BY <2>1, <2>2, <2>3, <4>1
      <4>3. c[1] <= q /\ q + Size[n] <= c[1] + Size[c[2]]
        BY <2>3, <4>1, <4>2, Nested
      <4>. QED
        BY <4>3 DEF q, n
    <3>3. Block(parent(b), b[2] + 1) \subseteq Block(c[1], c[2])
      BY <1>1, <2>1, <2>3, <3>1, <3>2 DEF Block
    <3>4. Block(c[1], c[2]) \subseteq Cover(F)
      BY CoverMember
    <3>. QED
      BY <1>3, <3>1, <3>3, <3>4 DEF Maximal
  <2>. QED
    BY <2>4, <2>5
<1>. QED
  BY <1>2, <1>3
=============================================================================
