---------------------------- MODULE CacheProofs -----------------------------
(***************************************************************************)
(* Machine-checked proofs about Cache, for any number of slabs and any     *)
(* number of objects in each: slabs are in the right list, objects are     *)
(* handed out once, and the cache implements ObjectPool.                   *)
(***************************************************************************)
EXTENDS Cache, ListLemmas

-----------------------------------------------------------------------------
(* The objects of one slab.                                                *)

ObjectsOf(s) ==
  /\ IsInjective(freelist[s])
  /\ ToSet(freelist[s]) = Index \ LiveIn(s)
  /\ count[s] = Cardinality(LiveIn(s))

(* A slab has finitely many objects, at least two.                         *)
LEMMA IndexFacts ==
  /\ IsFiniteSet(Index) /\ Cardinality(Index) = Objects
  /\ Objects \in Nat /\ Objects >= 2
BY CacheAssumption, FS_Interval DEF Index

(* What a slab has handed out can be counted, and is at most its objects.  *)
LEMMA LiveFinite ==
  ASSUME live \subseteq Slabs \X Index
  PROVE  /\ IsFiniteSet(live) /\ Cardinality(live) \in Nat
         /\ \A s : IsFiniteSet(LiveIn(s)) /\ Cardinality(LiveIn(s)) \in 0 .. Objects
<1>1. IsFiniteSet(Slabs \X Index)
  BY IndexFacts, CacheAssumption, FS_Product
<1>2. IsFiniteSet(live) /\ Cardinality(live) \in Nat
  BY <1>1, FS_Subset, FS_CardinalityType
<1>3. ASSUME NEW s PROVE IsFiniteSet(LiveIn(s)) /\ Cardinality(LiveIn(s)) \in 0 .. Objects
  <2>1. LiveIn(s) \in SUBSET Index
    BY DEF LiveIn
  <2>2. IsFiniteSet(LiveIn(s)) /\ Cardinality(LiveIn(s)) <= Objects
    BY <2>1, IndexFacts, FS_Subset
  <2>. QED
    BY <2>2, IndexFacts, FS_CardinalityType
<1>. QED
  BY <1>2, <1>3

(* The slabs of the cache can be counted.                                  *)
LEMMA OwnedFinite ==
  ASSUME TypeOK
  PROVE  Owned \subseteq Slabs /\ IsFiniteSet(Owned) /\ Cardinality(Owned) \in Nat
<1>1. Owned \in SUBSET Slabs
  BY DEF TypeOK, Owned, ToSet
<1>. QED
  BY <1>1, CacheAssumption, FS_Subset, FS_CardinalityType

(* A slab whose objects are not all in use has one in its freelist; once   *)
(* it is popped, the slab counts one more, and nothing else changes.       *)
LEMMA PopObjectOnce ==
  ASSUME TypeOK, ObjectsOnce, NEW s \in Slabs, NEW list \in Seq(Index),
         IsInjective(list), ToSet(list) = Index \ LiveIn(s),
         count[s] = Cardinality(LiveIn(s)), count[s] < Objects,
         PopObject(s, list)
  PROVE  /\ Head(list) \in Index \ LiveIn(s)
         /\ live' = live \cup {<<s, Head(list)>>}
         /\ live' \subseteq Slabs \X Index
         /\ freelist' \in [Slabs -> Seq(Index)]
         /\ count' = [count EXCEPT ![s] = count[s] + 1]
         /\ count' \in [Slabs -> 0 .. Objects]
         /\ ObjectsOf(s)'
         /\ \A t \in Slabs \ {s} : ObjectsOf(t) => ObjectsOf(t)'
         /\ allocated' = ObjectSize * Cardinality(live')
         /\ allocated' \in Int
<1>1. live \subseteq Slabs \X Index /\ freelist \in [Slabs -> Seq(Index)]
      /\ count \in [Slabs -> 0 .. Objects]
  BY DEF TypeOK
<1>2. list # <<>>
  <2>1. SUFFICES ASSUME list = <<>> PROVE FALSE
    OBVIOUS
  <2>2. Index = LiveIn(s)
    BY <2>1 DEF ToSet, LiveIn
  <2>. QED
    BY <2>2, IndexFacts
<1>. DEFINE i == Head(list)
<1>3. /\ i \in Index \ LiveIn(s)
      /\ Tail(list) \in Seq(Index)
      /\ ToSet(Tail(list)) = ToSet(list) \ {i}
      /\ IsInjective(Tail(list))
  BY <1>2, PopFront
<1>4. /\ freelist' = [freelist EXCEPT ![s] = Tail(list)]
      /\ count' = [count EXCEPT ![s] = count[s] + 1]
      /\ live' = live \cup {<<s, i>>}
      /\ allocated' = allocated + ObjectSize
  BY <1>2 DEF PopObject
<1>. HIDE DEF i
<1>5. live' \subseteq Slabs \X Index
  BY <1>1, <1>3, <1>4
<1>6. LiveIn(s)' = LiveIn(s) \cup {i} /\ \A t : t # s => LiveIn(t)' = LiveIn(t)
  BY <1>3, <1>4 DEF LiveIn
<1>7. Cardinality(LiveIn(s)') = Cardinality(LiveIn(s)) + 1
  BY <1>1, <1>3, <1>6, LiveFinite, FS_AddElement
<1>8. ObjectsOf(s)'
  BY <1>1, <1>3, <1>4, <1>6, <1>7 DEF ObjectsOf
<1>9. ASSUME NEW t \in Slabs \ {s}, ObjectsOf(t) PROVE ObjectsOf(t)'
  BY <1>1, <1>4, <1>6, <1>9 DEF ObjectsOf
<1>10. Cardinality(live') = Cardinality(live) + 1
  <2>1. <<s, i>> \notin live
    BY <1>3 DEF LiveIn
  <2>. QED
    BY <1>1, <1>4, <2>1, LiveFinite, FS_AddElement
<1>11. allocated' = ObjectSize * Cardinality(live') /\ allocated' \in Int
  <2>1. allocated = ObjectSize * Cardinality(live)
    BY DEF ObjectsOnce
  <2>. QED
    BY <1>1, <1>4, <1>10, <2>1, LiveFinite, CacheAssumption
<1>12. freelist' \in [Slabs -> Seq(Index)] /\ count' \in [Slabs -> 0 .. Objects]
  BY <1>1, <1>3, <1>4, IndexFacts
<1>. QED
  BY <1>3, <1>4, <1>5, <1>8, <1>9, <1>11, <1>12 DEF i

(* The converse of it.                                                     *)
LEMMA PushObjectOnce ==
  ASSUME TypeOK, ObjectsOnce, NEW s \in Slabs, NEW i \in Index, <<s, i>> \in live,
         ObjectsOf(s),
         freelist' = [freelist EXCEPT ![s] = Cons(i, @)],
         live' = live \ {<<s, i>>},
         count' = [count EXCEPT ![s] = @ - 1],
         allocated' = allocated - ObjectSize
  PROVE  /\ live' \subseteq Slabs \X Index
         /\ freelist' \in [Slabs -> Seq(Index)]
         /\ count' = [count EXCEPT ![s] = count[s] - 1]
         /\ count[s] \in 1 .. Objects
         /\ count' \in [Slabs -> 0 .. Objects]
         /\ ObjectsOf(s)'
         /\ \A t \in Slabs \ {s} : ObjectsOf(t) => ObjectsOf(t)'
         /\ allocated' = ObjectSize * Cardinality(live')
         /\ allocated' \in Int
<1>1. live \subseteq Slabs \X Index /\ freelist \in [Slabs -> Seq(Index)]
      /\ count \in [Slabs -> 0 .. Objects]
  BY DEF TypeOK
<1>2. i \in LiveIn(s)
  BY DEF LiveIn
<1>3. /\ Cons(i, freelist[s]) \in Seq(Index)
      /\ ToSet(Cons(i, freelist[s])) = {i} \cup ToSet(freelist[s])
      /\ IsInjective(Cons(i, freelist[s]))
  BY <1>1, <1>2, PushFront DEF ObjectsOf
<1>4. LiveIn(s)' = LiveIn(s) \ {i} /\ \A t : t # s => LiveIn(t)' = LiveIn(t)
  BY DEF LiveIn
<1>5. Cardinality(LiveIn(s)') = Cardinality(LiveIn(s)) - 1 /\ count[s] \in 1 .. Objects
  <2>1. Cardinality(LiveIn(s) \ {i}) = Cardinality(LiveIn(s)) - 1
    BY <1>1, <1>2, LiveFinite, FS_RemoveElement
  <2>2. count[s] # 0
    BY <1>1, <1>2, LiveFinite, FS_EmptySet DEF ObjectsOf
  <2>. QED
    BY <1>1, <1>4, <2>1, <2>2
<1>6. ObjectsOf(s)'
  <2>1. count'[s] = Cardinality(LiveIn(s)')
    BY <1>1, <1>5 DEF ObjectsOf
  <2>2. ToSet(freelist'[s]) = Index \ LiveIn(s)'
    BY <1>1, <1>3, <1>4 DEF ObjectsOf, LiveIn
  <2>. QED
    BY <1>1, <1>3, <2>1, <2>2 DEF ObjectsOf
<1>7. ASSUME NEW t \in Slabs \ {s}, ObjectsOf(t) PROVE ObjectsOf(t)'
  BY <1>1, <1>4, <1>7 DEF ObjectsOf
<1>8. allocated' = ObjectSize * Cardinality(live') /\ allocated' \in Int
  <2>1. Cardinality(live') = Cardinality(live) - 1
    BY <1>1, LiveFinite, FS_RemoveElement
  <2>2. allocated = ObjectSize * Cardinality(live)
    BY DEF ObjectsOnce
  <2>. QED
    BY <1>1, <2>1, <2>2, LiveFinite, CacheAssumption
<1>9. freelist' \in [Slabs -> Seq(Index)] /\ count' \in [Slabs -> 0 .. Objects]
  BY <1>1, <1>3, <1>5, IndexFacts
<1>. QED
  BY <1>1, <1>5, <1>6, <1>7, <1>8, <1>9

-----------------------------------------------------------------------------
(* Every action preserves CacheInv.                                        *)

(* A new cache has no slab and satisfies the invariant.                    *)
LEMMA InitInv == Init => CacheInv
<1>1. SUFFICES ASSUME Init PROVE CacheInv
  OBVIOUS
<1>2. Owned = {} /\ Cardinality(Owned) = 0 /\ Cardinality(live) = 0
  BY <1>1, FS_EmptySet DEF Init, Owned, ToSet
<1>3. TypeOK
  <2>1. freelist \in [Slabs -> Seq(Index)] /\ count \in [Slabs -> 0 .. Objects]
    <3>1. 0 \in 0 .. Objects /\ <<>> \in Seq(Index)
      BY IndexFacts
    <3>. QED
      BY <1>1, <3>1 DEF Init
  <2>2. allocated \in Int /\ reclaimable \in Int /\ occupied \in Int
    BY <1>1 DEF Init
  <2>3. <<>> \in Seq(Slabs)
    OBVIOUS
  <2>. QED
    BY <1>1, <2>1, <2>2, <2>3, Zenon DEF Init, TypeOK
<1>4. SlabsFiled
  BY <1>1, <1>2, <1>3 DEF Init, SlabsFiled, IsInjective, ToSet
<1>5. ObjectsOnce
  BY <1>1, <1>2, CacheAssumption DEF Init, ObjectsOnce
<1>6. Unowned
  BY <1>1 DEF Init, Unowned
<1>. QED
  BY <1>4, <1>5, <1>6 DEF CacheInv

(* What the invariant says of the slabs of each list.                      *)
LEMMA Filed ==
  ASSUME CacheInv
  PROVE  /\ TypeOK /\ ~ panicked
         /\ free \in Seq(Slabs) /\ partial \in Seq(Slabs) /\ full \in Seq(Slabs)
         /\ IsInjective(free) /\ IsInjective(partial) /\ IsInjective(full)
         /\ Owned \subseteq Slabs
         /\ \A s \in Slabs : count[s] \in 0 .. Objects
         /\ \A s \in Owned : ObjectsOf(s)
         /\ \A s \in ToSet(free) : s \in Owned /\ count[s] = 0
         /\ \A s \in ToSet(partial) : s \in Owned /\ count[s] \in 1 .. Objects - 1
         /\ \A s \in ToSet(full) : s \in Owned /\ count[s] = Objects
         /\ \A s \in Slabs \ Owned : count[s] = 0
         /\ \A x \in live : x[1] \in Owned
BY OwnedFinite DEF CacheInv, SlabsFiled, ObjectsOnce, Unowned, ObjectsOf, Owned, TypeOK

(* An allocation or a free changes one slab: if it is filed by its new     *)
(* number of objects, and its objects are accounted for, all is well.      *)
LEMMA OneSlab ==
  ASSUME CacheInv, NEW s \in Slabs, NEW n \in 0 .. Objects,
         count' = [count EXCEPT ![s] = n],
         free' \in Seq(Slabs), IsInjective(free'),
         partial' \in Seq(Slabs), IsInjective(partial'),
         full' \in Seq(Slabs), IsInjective(full'),
         ToSet(free') = IF n = 0 THEN {s} \cup ToSet(free) ELSE ToSet(free) \ {s},
         ToSet(partial') = IF n \in 1 .. Objects - 1 THEN {s} \cup ToSet(partial)
                           ELSE ToSet(partial) \ {s},
         ToSet(full') = IF n = Objects THEN {s} \cup ToSet(full) ELSE ToSet(full) \ {s},
         memory' = memory \ {s}, panicked' = panicked,
         freelist' \in [Slabs -> Seq(Index)],
         live' \subseteq Slabs \X Index,
         \A x \in live' : x \in live \/ x[1] = s,
         ObjectsOf(s)', \A t \in Slabs \ {s} : ObjectsOf(t) => ObjectsOf(t)',
         allocated' \in Int, allocated' = ObjectSize * Cardinality(live'),
         reclaimable' = SlabSize * Len(free'),
         occupied' = occupied + IF s \in Owned THEN 0 ELSE SlabSize
  PROVE  CacheInv' /\ Owned' = Owned \cup {s}
<1>1. /\ \A t \in Slabs : count'[t] = IF t = s THEN n ELSE count[t]
      /\ count' \in [Slabs -> 0 .. Objects]
      /\ n = 0 \/ n \in 1 .. Objects - 1 \/ n = Objects
      /\ ~ (0 \in 1 .. Objects - 1) /\ ~ (Objects \in 1 .. Objects - 1) /\ Objects # 0
  BY Filed, IndexFacts DEF TypeOK
<1>2. Owned' = Owned \cup {s}
  BY <1>1 DEF Owned
<1>3. IsFiniteSet(Owned) /\ Cardinality(Owned) \in Nat /\ occupied = SlabSize * Cardinality(Owned)
  BY Filed, OwnedFinite DEF CacheInv, ObjectsOnce
<1>4. occupied' = SlabSize * Cardinality(Owned') /\ occupied' \in Int
  <2>1. Cardinality(Owned') = IF s \in Owned THEN Cardinality(Owned) ELSE Cardinality(Owned) + 1
    BY <1>2, <1>3, FS_AddElement
  <2>2. \A c \in Nat : SlabSize * (c + 1) = SlabSize * c + SlabSize /\ SlabSize * c \in Int
    BY CacheAssumption
  <2>3. CASE s \in Owned
    BY <1>3, <2>1, <2>2, <2>3
  <2>4. CASE s \notin Owned
    BY <1>3, <2>1, <2>2, <2>4, SMTT(30)
  <2>. QED
    BY <2>3, <2>4
<1>5. reclaimable' \in Int
  BY CacheAssumption
<1>6. TypeOK'
  BY <1>1, <1>4, <1>5, Filed DEF TypeOK
<1>7. SlabsFiled'
  <2>1. \A t \in ToSet(free') : count'[t] = 0
    BY <1>1, Filed
  <2>2. \A t \in ToSet(partial') : count'[t] \in 1 .. Objects - 1
    BY <1>1, Filed
  <2>3. \A t \in ToSet(full') : count'[t] = Objects
    BY <1>1, Filed
  <2>4. Owned' \cap memory' = {} /\ ~ panicked'
    BY <1>2 DEF CacheInv, SlabsFiled
  <2>. QED
    BY <1>6, <2>1, <2>2, <2>3, <2>4 DEF SlabsFiled
<1>8. ObjectsOnce'
  <2>1. \A x \in live' : x[1] \in Owned'
    BY <1>2, Filed
  <2>2. \A t \in Owned' : ObjectsOf(t)'
    <3>1. \A t \in Owned : t \in Slabs /\ ObjectsOf(t)
      BY Filed
    <3>. QED
      BY <1>2, <3>1
  <2>. QED
    BY <1>4, <2>1, <2>2 DEF ObjectsOnce, ObjectsOf
<1>9. Unowned'
  BY <1>1, <1>2, Filed DEF Unowned
<1>. QED
  BY <1>2, <1>7, <1>8, <1>9 DEF CacheInv

(* Allocate from a partial slab: one object more, refiled if it was the    *)
(* last.                                                                   *)
LEMMA AllocateFromPartialInv ==
  ASSUME CacheInv, AllocateFromPartial
  PROVE  /\ CacheInv' /\ Owned' = Owned
         /\ \E s \in Owned : \E i \in Index \ LiveIn(s) : live' = live \cup {<<s, i>>}
<1>. PICK s : s = Head(partial)
  OBVIOUS
<1>. PICK list : list = freelist[s]
  OBVIOUS
<1>. PICK n : n = count[s] + 1
  OBVIOUS
<1>1. /\ partial # <<>> /\ PopObject(s, list)
      /\ free' = free /\ reclaimable' = reclaimable /\ occupied' = occupied
      /\ memory' = memory /\ panicked' = panicked
      /\ IF n = Objects
         THEN partial' = Tail(partial) /\ full' = Cons(s, full)
         ELSE partial' = partial /\ full' = full
  BY DEF AllocateFromPartial
<1>2. /\ s \in ToSet(partial)
      /\ Tail(partial) \in Seq(Slabs)
      /\ ToSet(Tail(partial)) = ToSet(partial) \ {s}
      /\ IsInjective(Tail(partial))
  BY <1>1, Filed, PopFront
<1>3. /\ s \in Slabs /\ s \in Owned /\ count[s] \in 1 .. Objects - 1 /\ ObjectsOf(s)
      /\ s \notin ToSet(full) /\ s \notin ToSet(free)
  BY <1>2, IndexFacts, Filed
<1>4. /\ Cons(s, full) \in Seq(Slabs)
      /\ ToSet(Cons(s, full)) = {s} \cup ToSet(full)
      /\ IsInjective(Cons(s, full))
  BY <1>3, Filed, PushFront
<1>5. /\ Head(list) \in Index \ LiveIn(s)
      /\ live' = live \cup {<<s, Head(list)>>}
      /\ live' \subseteq Slabs \X Index
      /\ freelist' \in [Slabs -> Seq(Index)]
      /\ count' = [count EXCEPT ![s] = n]
      /\ ObjectsOf(s)'
      /\ \A t \in Slabs \ {s} : ObjectsOf(t) => ObjectsOf(t)'
      /\ allocated' = ObjectSize * Cardinality(live')
      /\ allocated' \in Int
  <2>1. list \in Seq(Index) /\ count[s] < Objects
    BY <1>3, IndexFacts, Filed DEF TypeOK
  <2>2. /\ IsInjective(list) /\ ToSet(list) = Index \ LiveIn(s)
        /\ count[s] = Cardinality(LiveIn(s)) /\ ObjectsOnce
    BY <1>3 DEF ObjectsOf, CacheInv
  <2>. QED
    BY <1>1, <1>3, <2>1, <2>2, Filed, PopObjectOnce
<1>6. /\ n \in 0 .. Objects /\ n # 0 /\ n = count[s] + 1
      /\ n = Objects <=> ~ (n \in 1 .. Objects - 1)
  BY <1>3, IndexFacts
<1>7. /\ partial' \in Seq(Slabs) /\ IsInjective(partial')
      /\ full' \in Seq(Slabs) /\ IsInjective(full')
      /\ ToSet(partial') = IF n \in 1 .. Objects - 1 THEN {s} \cup ToSet(partial)
                           ELSE ToSet(partial) \ {s}
      /\ ToSet(full') = IF n = Objects THEN {s} \cup ToSet(full) ELSE ToSet(full) \ {s}
  <2>1. CASE n = Objects
    BY <1>1, <1>2, <1>3, <1>4, <1>6, <2>1, Filed
  <2>2. CASE n # Objects
    BY <1>1, <1>2, <1>3, <1>6, <2>2, Filed
  <2>. QED
    BY <2>1, <2>2
<1>8. /\ free' \in Seq(Slabs) /\ IsInjective(free')
      /\ ToSet(free') = IF n = 0 THEN {s} \cup ToSet(free) ELSE ToSet(free) \ {s}
      /\ memory' = memory \ {s} /\ panicked' = panicked
      /\ reclaimable' = SlabSize * Len(free')
      /\ occupied' = occupied + IF s \in Owned THEN 0 ELSE SlabSize
  <2>1. s \notin memory /\ occupied \in Int /\ reclaimable = SlabSize * Len(free)
    BY <1>3 DEF CacheInv, SlabsFiled, ObjectsOnce, TypeOK
  <2>. QED
    BY <1>1, <1>3, <1>6, <2>1, Filed
<1>9. \A x \in live' : x \in live \/ x[1] = s
  BY <1>5
<1>10. CacheInv' /\ Owned' = Owned \cup {s}
  BY <1>3, <1>5, <1>6, <1>7, <1>8, <1>9, OneSlab
<1>. QED
  BY <1>3, <1>5, <1>10

(* A slab all of whose objects are free gives its first one: what          *)
(* AllocateFromFree and AllocateFromNew have in common.                    *)
LEMMA FirstObject ==
  ASSUME CacheInv, NEW s \in Slabs, count[s] = 0, s \notin ToSet(partial), s \notin ToSet(full),
         NEW list \in Seq(Index), IsInjective(list), ToSet(list) = Index \ LiveIn(s),
         LiveIn(s) = {}, PopObject(s, list),
         partial' = Cons(s, partial), full' = full, panicked' = panicked,
         free' \in Seq(Slabs), IsInjective(free'), ToSet(free') = ToSet(free) \ {s},
         memory' = memory \ {s},
         reclaimable' = SlabSize * Len(free'),
         occupied' = occupied + IF s \in Owned THEN 0 ELSE SlabSize
  PROVE  /\ CacheInv' /\ Owned' = Owned \cup {s}
         /\ \E i \in Index \ LiveIn(s) : live' = live \cup {<<s, i>>}
<1>1. count[s] = Cardinality(LiveIn(s)) /\ count[s] < Objects /\ count[s] + 1 = 1
      /\ 1 \in 0 .. Objects /\ 1 # 0 /\ 1 # Objects /\ 1 \in 1 .. Objects - 1
  BY FS_EmptySet, IndexFacts
<1>2. TypeOK /\ ObjectsOnce
  BY Filed DEF CacheInv
<1>3. /\ Head(list) \in Index \ LiveIn(s)
      /\ live' = live \cup {<<s, Head(list)>>}
      /\ live' \subseteq Slabs \X Index
      /\ freelist' \in [Slabs -> Seq(Index)]
      /\ count' = [count EXCEPT ![s] = count[s] + 1]
      /\ ObjectsOf(s)'
      /\ \A t \in Slabs \ {s} : ObjectsOf(t) => ObjectsOf(t)'
      /\ allocated' = ObjectSize * Cardinality(live')
      /\ allocated' \in Int
  BY <1>1, <1>2, PopObjectOnce
<1>4. /\ partial' \in Seq(Slabs) /\ IsInjective(partial')
      /\ ToSet(partial') = {s} \cup ToSet(partial)
  BY Filed, PushFront
<1>5. full' \in Seq(Slabs) /\ IsInjective(full') /\ ToSet(full') = ToSet(full) \ {s}
  BY Filed
<1>6. \A x \in live' : x \in live \/ x[1] = s
  BY <1>3
<1>7. count' = [count EXCEPT ![s] = 1]
  BY <1>1, <1>3
<1>8. CacheInv' /\ Owned' = Owned \cup {s}
  BY <1>1, <1>3, <1>4, <1>5, <1>6, <1>7, OneSlab
<1>. QED
  BY <1>3, <1>8

(* Allocate from an empty slab: it becomes partial.                        *)
LEMMA AllocateFromFreeInv ==
  ASSUME CacheInv, AllocateFromFree
  PROVE  /\ CacheInv' /\ Owned' = Owned
         /\ \E s \in Owned : \E i \in Index \ LiveIn(s) : live' = live \cup {<<s, i>>}
<1>. PICK s : s = Head(free)
  OBVIOUS
<1>. PICK list : list = freelist[s]
  OBVIOUS
<1>1. /\ free # <<>> /\ PopObject(s, list)
      /\ free' = Tail(free) /\ partial' = Cons(s, partial)
      /\ reclaimable' = reclaimable - SlabSize
      /\ full' = full /\ occupied' = occupied /\ memory' = memory /\ panicked' = panicked
  BY DEF AllocateFromFree
<1>2. /\ s \in ToSet(free)
      /\ Tail(free) \in Seq(Slabs)
      /\ ToSet(Tail(free)) = ToSet(free) \ {s}
      /\ IsInjective(Tail(free))
      /\ Len(Tail(free)) = Len(free) - 1
  BY <1>1, Filed, PopFront, HeadTailProperties, EmptySeq
<1>3. /\ s \in Slabs /\ s \in Owned /\ count[s] = 0 /\ ObjectsOf(s)
      /\ s \notin ToSet(full) /\ s \notin ToSet(partial)
  BY <1>2, IndexFacts, Filed
<1>4. list \in Seq(Index) /\ live \subseteq Slabs \X Index
  BY <1>3, Filed DEF TypeOK
<1>5. LiveIn(s) = {}
  BY <1>3, <1>4, LiveFinite, FS_EmptySet DEF ObjectsOf
<1>6. IsInjective(list) /\ ToSet(list) = Index \ LiveIn(s)
  BY <1>3 DEF ObjectsOf
<1>7. reclaimable' = SlabSize * Len(free')
  <2>1. reclaimable = SlabSize * Len(free) /\ Len(free) \in Nat
    BY Filed DEF CacheInv, ObjectsOnce
  <2>2. \A c \in Nat : SlabSize * (c - 1) = SlabSize * c - SlabSize
    BY CacheAssumption
  <2>. QED
    BY <1>1, <1>2, <2>1, <2>2
<1>8. /\ occupied' = occupied + IF s \in Owned THEN 0 ELSE SlabSize
      /\ memory' = memory \ {s}
  <2>1. s \notin memory /\ occupied \in Int
    BY <1>3 DEF CacheInv, SlabsFiled, TypeOK
  <2>. QED
    BY <1>1, <1>3, <2>1
<1>9. free' \in Seq(Slabs) /\ IsInjective(free') /\ ToSet(free') = ToSet(free) \ {s}
  BY <1>1, <1>2
<1>10. /\ CacheInv' /\ Owned' = Owned \cup {s}
       /\ \E i \in Index \ LiveIn(s) : live' = live \cup {<<s, i>>}
  BY <1>1, <1>3, <1>4, <1>5, <1>6, <1>7, <1>8, <1>9, FirstObject
<1>. QED
  BY <1>3, <1>10

(* Allocate from a new slab: only when every object of the others is out.  *)
LEMMA AllocateFromNewInv ==
  ASSUME CacheInv, NEW s \in Slabs, AllocateFromNew(s)
  PROVE  /\ CacheInv' /\ Owned' = Owned \cup {s} /\ s \notin Owned
         /\ Owned \X Index \subseteq live
         /\ \E i \in Index : live' = live \cup {<<s, i>>}
<1>. PICK list : list = [i \in Index |-> i]
  OBVIOUS
<1>1. /\ partial = <<>> /\ free = <<>> /\ s \in memory /\ PopObject(s, list)
      /\ free' = free /\ partial' = Cons(s, partial)
      /\ reclaimable' = reclaimable /\ full' = full
      /\ occupied' = occupied + SlabSize /\ memory' = memory \ {s} /\ panicked' = panicked
  BY DEF AllocateFromNew
<1>2. s \notin Owned
  BY <1>1 DEF CacheInv, SlabsFiled
<1>3. s \notin ToSet(free) /\ s \notin ToSet(full) /\ s \notin ToSet(partial)
  BY <1>2 DEF Owned
<1>4. count[s] = 0 /\ LiveIn(s) = {}
  BY <1>2, Filed DEF LiveIn
<1>5. list \in Seq(Index) /\ IsInjective(list) /\ ToSet(list) = Index \ LiveIn(s)
  <2>1. list \in Seq(Index) /\ DOMAIN list = Index /\ \A i \in Index : list[i] = i
    BY IndexFacts DEF Index
  <2>. QED
    BY <1>4, <2>1 DEF IsInjective, ToSet
<1>6. /\ free' \in Seq(Slabs) /\ IsInjective(free') /\ ToSet(free') = ToSet(free) \ {s}
      /\ reclaimable' = SlabSize * Len(free')
      /\ occupied' = occupied + IF s \in Owned THEN 0 ELSE SlabSize
  BY <1>1, <1>2, <1>3, Filed DEF CacheInv, ObjectsOnce
<1>7. /\ CacheInv' /\ Owned' = Owned \cup {s}
      /\ \E i \in Index \ LiveIn(s) : live' = live \cup {<<s, i>>}
  BY <1>1, <1>3, <1>4, <1>5, <1>6, FirstObject
<1>8. Owned \X Index \subseteq live
  <2>1. SUFFICES ASSUME NEW t \in Owned, NEW i \in Index PROVE <<t, i>> \in live
    OBVIOUS
  <2>2. count[t] = Objects /\ ObjectsOf(t)
    BY <1>1, Filed DEF Owned, ToSet
  <2>3. LiveIn(t) \in SUBSET Index
    BY DEF LiveIn
  <2>4. LiveIn(t) = Index
    BY <2>2, <2>3, IndexFacts, FS_Subset DEF ObjectsOf
  <2>. QED
    BY <2>4 DEF LiveIn
<1>. QED
  BY <1>2, <1>4, <1>7, <1>8

(* A freed object leaves its slab with one object less: the slab is filed  *)
(* by what it has left.                                                    *)
LEMMA FreeInv ==
  ASSUME CacheInv, NEW s \in Slabs, NEW i \in Index, Free(s, i)
  PROVE  /\ CacheInv' /\ Owned' = Owned
         /\ <<s, i>> \in live /\ live' = live \ {<<s, i>>}
<1>. PICK n : n = count[s] - 1
  OBVIOUS
<1>1. /\ <<s, i>> \in live
      /\ freelist' = [freelist EXCEPT ![s] = Cons(i, @)]
      /\ count' = [count EXCEPT ![s] = @ - 1]
      /\ live' = live \ {<<s, i>>}
      /\ allocated' = allocated - ObjectSize
      /\ Refile(s, n)
      /\ occupied' = occupied /\ memory' = memory /\ panicked' = panicked
  BY DEF Free
<1>2. s \in Owned /\ ObjectsOf(s)
  <2>1. <<s, i>>[1] \in Owned
    BY <1>1, Filed
  <2>. QED
    BY <2>1, Filed
<1>3. TypeOK /\ ObjectsOnce
  BY Filed DEF CacheInv
<1>4. /\ live' \subseteq Slabs \X Index
      /\ freelist' \in [Slabs -> Seq(Index)]
      /\ count' = [count EXCEPT ![s] = count[s] - 1]
      /\ count[s] \in 1 .. Objects
      /\ ObjectsOf(s)'
      /\ \A t \in Slabs \ {s} : ObjectsOf(t) => ObjectsOf(t)'
      /\ allocated' = ObjectSize * Cardinality(live')
      /\ allocated' \in Int
  BY <1>1, <1>2, <1>3, PushObjectOnce
<1>5. /\ n \in 0 .. Objects /\ n # Objects /\ Objects # 0
      /\ n \in 1 .. Objects - 1 <=> n # 0
      /\ n + 1 = Objects <=> count[s] = Objects
      /\ n = 0 => count[s] = 1
      /\ 1 \in 1 .. Objects - 1 /\ ~ (Objects \in 1 .. Objects - 1)
  BY <1>4, IndexFacts
<1>6. s \notin ToSet(free)
  BY <1>4, IndexFacts, Filed
<1>7. /\ n + 1 = Objects => s \in ToSet(full) /\ s \notin ToSet(partial)
      /\ n + 1 # Objects => s \in ToSet(partial) /\ s \notin ToSet(full)
  BY <1>2, <1>5, <1>6, Filed DEF Owned
<1>8. Len(free) \in Nat /\ reclaimable = SlabSize * Len(free)
  BY Filed DEF CacheInv, ObjectsOnce
<1>9. /\ free' \in Seq(Slabs) /\ IsInjective(free')
      /\ partial' \in Seq(Slabs) /\ IsInjective(partial')
      /\ full' \in Seq(Slabs) /\ IsInjective(full')
      /\ ToSet(free') = IF n = 0 THEN {s} \cup ToSet(free) ELSE ToSet(free) \ {s}
      /\ ToSet(partial') = IF n \in 1 .. Objects - 1 THEN {s} \cup ToSet(partial)
                           ELSE ToSet(partial) \ {s}
      /\ ToSet(full') = IF n = Objects THEN {s} \cup ToSet(full) ELSE ToSet(full) \ {s}
      /\ reclaimable' = SlabSize * Len(free')
  <2>1. CASE n = 0
    <3>1. /\ partial' = RemoveFirst(partial, s) /\ free' = Cons(s, free)
          /\ reclaimable' = reclaimable + SlabSize /\ full' = full
      BY <1>1, <1>5, <2>1, IndexFacts DEF Refile
    <3>2. n + 1 # Objects
      BY <2>1, IndexFacts
    <3>3. /\ RemoveFirst(partial, s) \in Seq(Slabs)
          /\ ToSet(RemoveFirst(partial, s)) = ToSet(partial) \ {s}
          /\ IsInjective(RemoveFirst(partial, s))
      BY <1>7, <3>2, Filed, RemoveFirstList
    <3>4. /\ Cons(s, free) \in Seq(Slabs)
          /\ ToSet(Cons(s, free)) = {s} \cup ToSet(free)
          /\ IsInjective(Cons(s, free))
      BY <1>6, Filed, PushFront
    <3>5. Len(Cons(s, free)) = Len(free) + 1
      BY Filed DEF Cons
    <3>6. SlabSize * (Len(free) + 1) = SlabSize * Len(free) + SlabSize
      BY <1>8, CacheAssumption
    <3>. QED
      BY <1>5, <1>7, <1>8, <2>1, <3>1, <3>2, <3>3, <3>4, <3>5, <3>6, Filed
  <2>2. CASE n # 0 /\ n + 1 = Objects
    <3>1. /\ full' = RemoveFirst(full, s) /\ partial' = Cons(s, partial)
          /\ reclaimable' = reclaimable /\ free' = free
      BY <1>1, <2>2 DEF Refile
    <3>2. /\ RemoveFirst(full, s) \in Seq(Slabs)
          /\ ToSet(RemoveFirst(full, s)) = ToSet(full) \ {s}
          /\ IsInjective(RemoveFirst(full, s))
      BY <1>7, <2>2, Filed, RemoveFirstList
    <3>3. /\ Cons(s, partial) \in Seq(Slabs)
          /\ ToSet(Cons(s, partial)) = {s} \cup ToSet(partial)
          /\ IsInjective(Cons(s, partial))
      BY <1>7, <2>2, Filed, PushFront
    <3>. QED
      BY <1>5, <1>6, <1>8, <2>2, <3>1, <3>2, <3>3, Filed
  <2>3. CASE n # 0 /\ n + 1 # Objects
    <3>1. UNCHANGED <<free, partial, full, reclaimable>>
      BY <1>1, <2>3 DEF Refile
    <3>. QED
      BY <1>5, <1>6, <1>7, <1>8, <2>3, <3>1, Filed
  <2>. QED
    BY <2>1, <2>2, <2>3
<1>10. /\ memory' = memory \ {s}
       /\ occupied' = occupied + IF s \in Owned THEN 0 ELSE SlabSize
  <2>1. s \notin memory /\ occupied \in Int
    BY <1>2 DEF CacheInv, SlabsFiled, TypeOK
  <2>. QED
    BY <1>1, <1>2, <2>1
<1>11. count' = [count EXCEPT ![s] = n] /\ \A x \in live' : x \in live \/ x[1] = s
  BY <1>1, <1>4
<1>12. CacheInv' /\ Owned' = Owned \cup {s}
  BY <1>1, <1>4, <1>5, <1>9, <1>10, <1>11, OneSlab
<1>. QED
  BY <1>1, <1>2, <1>12

(* Reclaim gives back the slabs of free_: those with no object in use.     *)
LEMMA ReclaimInv ==
  ASSUME CacheInv, Reclaim
  PROVE  /\ CacheInv' /\ live' = live
         /\ Owned' = {s \in Owned : \E i \in Index : <<s, i>> \in live}
<1>1. /\ free' = <<>> /\ partial' = partial /\ full' = full /\ count' = count
      /\ allocated' = allocated /\ live' = live /\ reclaimable' = 0
      /\ occupied' = occupied - SlabSize * Len(free)
      /\ memory' = memory \cup ToSet(free)
      /\ freelist' = [s \in Slabs |-> IF s \in ToSet(free) THEN <<>> ELSE freelist[s]]
      /\ panicked' = \E s \in ToSet(free) : count[s] # 0
  BY DEF Reclaim, GiveBack
<1>2. ~ (0 \in 1 .. Objects - 1) /\ Objects # 0
  BY IndexFacts
<1>3. Owned' = Owned \ ToSet(free) /\ ToSet(free) \in SUBSET Owned /\ ToSet(free') = {}
  <2>1. ToSet(free') = {}
    BY <1>1 DEF ToSet
  <2>2. ToSet(free) \cap ToSet(partial) = {} /\ ToSet(free) \cap ToSet(full) = {}
    BY <1>2, Filed
  <2>. QED
    BY <1>1, <2>1, <2>2 DEF Owned
<1>4. \A s \in Owned : s \in ToSet(free) <=> \A i \in Index : ~ (<<s, i>> \in live)
  <2>1. SUFFICES ASSUME NEW s \in Owned
                 PROVE  s \in ToSet(free) <=> LiveIn(s) = {}
    BY DEF LiveIn
  <2>2. live \subseteq Slabs \X Index
    BY Filed DEF TypeOK
  <2>3. count[s] = 0 <=> LiveIn(s) = {}
    BY <2>2, LiveFinite, Filed, FS_EmptySet DEF ObjectsOf
  <2>4. s \in ToSet(free) <=> count[s] = 0
    BY <1>2, Filed DEF Owned
  <2>. QED
    BY <2>3, <2>4
<1>5. Owned' = {s \in Owned : \E i \in Index : <<s, i>> \in live}
  BY <1>3, <1>4
<1>6. occupied' = SlabSize * Cardinality(Owned') /\ occupied' \in Int
  <2>1. IsFiniteSet(Owned) /\ Cardinality(Owned) \in Nat /\ Len(free) \in Nat
    BY Filed, OwnedFinite
  <2>2. Cardinality(ToSet(free)) = Len(free)
    BY Filed, LengthIsCardinality
  <2>3. Cardinality(Owned \ ToSet(free)) = Cardinality(Owned) - Cardinality(Owned \cap ToSet(free))
    BY <2>1, FS_Difference
  <2>4. Owned \cap ToSet(free) = ToSet(free)
    BY <1>3
  <2>5. occupied = SlabSize * Cardinality(Owned)
    BY DEF CacheInv, ObjectsOnce
  <2>6. \A a, b \in Nat : SlabSize * (a - b) = SlabSize * a - SlabSize * b
                         /\ SlabSize * a - SlabSize * b \in Int
    BY CacheAssumption
  <2>7. Cardinality(Owned') = Cardinality(Owned) - Len(free)
    BY <1>3, <2>2, <2>3, <2>4
  <2>8. /\ SlabSize * (Cardinality(Owned) - Len(free))
             = SlabSize * Cardinality(Owned) - SlabSize * Len(free)
        /\ SlabSize * Cardinality(Owned) - SlabSize * Len(free) \in Int
    BY <2>1, <2>6
  <2>. QED
    BY <1>1, <2>5, <2>7, <2>8
<1>7. TypeOK'
  <2>1. /\ <<>> \in Seq(Slabs) /\ <<>> \in Seq(Index) /\ 0 \in Int
    OBVIOUS
  <2>2. ToSet(free) \subseteq Slabs
    BY Filed
  <2>3. freelist' \in [Slabs -> Seq(Index)]
    BY <1>1, <2>1, Filed DEF TypeOK
  <2>4. memory' \subseteq Slabs
    BY <1>1, <2>2, Filed DEF TypeOK
  <2>5. panicked' \in BOOLEAN
    BY <1>1
  <2>. QED
    BY <1>1, <1>6, <2>1, <2>3, <2>4, <2>5, Filed, Zenon DEF TypeOK
<1>8. SlabsFiled'
  <2>1. ~ panicked'
    BY <1>1, Filed
  <2>2. Owned' \cap memory' = {}
    BY <1>1, <1>3 DEF CacheInv, SlabsFiled
  <2>3. IsInjective(free')
    BY <1>1 DEF IsInjective
  <2>. QED
    BY <1>1, <1>3, <1>7, <2>1, <2>2, <2>3, Filed DEF SlabsFiled
<1>9. ObjectsOnce'
  <2>1. \A x \in live' : x[1] \in Owned'
    <3>1. SUFFICES ASSUME NEW x \in live PROVE x[1] \in Owned'
      BY <1>1
    <3>2. x \in Slabs \X Index /\ x[1] \in Owned
      BY Filed DEF TypeOK
    <3>3. x = <<x[1], x[2]>> /\ x[2] \in Index
      BY <3>2
    <3>. QED
      BY <1>5, <3>2, <3>3
  <2>2. \A s \in Owned' : ObjectsOf(s)'
    <3>1. SUFFICES ASSUME NEW s \in Owned, s \notin ToSet(free) PROVE ObjectsOf(s)'
      BY <1>3
    <3>2. ObjectsOf(s) /\ s \in Slabs
      BY Filed
    <3>. QED
      BY <1>1, <3>1, <3>2 DEF ObjectsOf, LiveIn
  <2>3. reclaimable' = SlabSize * Len(free')
    BY <1>1, CacheAssumption
  <2>4. allocated' = ObjectSize * Cardinality(live')
    BY <1>1 DEF CacheInv, ObjectsOnce
  <2>. QED
    BY <1>6, <2>1, <2>2, <2>3, <2>4 DEF ObjectsOnce, ObjectsOf
<1>10. Unowned'
  BY <1>1, <1>3, Filed DEF Unowned
<1>. QED
  BY <1>1, <1>5, <1>8, <1>9, <1>10 DEF CacheInv

(* With no object in use no slab is in partial_ or full_: ~Cache never     *)
(* panics, and it returns every slab.                                      *)
LEMMA DestroyInv ==
  ASSUME CacheInv, Destroy
  PROVE  CacheInv' /\ live' = {} /\ live = {} /\ Owned' = {}
<1>1. live = {} /\ live' = live /\ count' = count
  BY DEF Destroy
<1>2. \A s \in Owned : count[s] = 0
  <2>1. SUFFICES ASSUME NEW s \in Owned PROVE count[s] = 0
    OBVIOUS
  <2>2. LiveIn(s) = {}
    BY <1>1 DEF LiveIn
  <2>. QED
    BY <2>2, Filed, FS_EmptySet DEF ObjectsOf
<1>3. ~ (0 \in 1 .. Objects - 1) /\ Objects # 0
  BY IndexFacts
<1>4. partial = <<>> /\ full = <<>>
  <2>1. \A q \in Seq(Slabs) : q # <<>> => q[1] \in ToSet(q)
    BY DEF ToSet
  <2>. QED
    BY <1>2, <1>3, <2>1, Filed
<1>5. /\ free' = <<>> /\ partial' = <<>> /\ full' = <<>>
      /\ allocated' = 0 /\ reclaimable' = 0 /\ occupied' = 0
      /\ memory' = memory \cup ToSet(free)
      /\ freelist' = [s \in Slabs |-> IF s \in ToSet(free) THEN <<>> ELSE freelist[s]]
      /\ panicked' = \E s \in ToSet(free) : count[s] # 0
  BY <1>4 DEF Destroy, GiveBack
<1>6. /\ ToSet(free') = {} /\ ToSet(partial') = {} /\ ToSet(full') = {}
      /\ Owned' = {} /\ Owned = ToSet(free)
  BY <1>4, <1>5 DEF Owned, ToSet
<1>7. TypeOK'
  <2>1. <<>> \in Seq(Slabs) /\ <<>> \in Seq(Index) /\ 0 \in Int
    OBVIOUS
  <2>2. freelist' \in [Slabs -> Seq(Index)]
    BY <1>5, <2>1, Filed DEF TypeOK
  <2>3. memory' \subseteq Slabs
    BY <1>5, Filed DEF TypeOK
  <2>4. panicked' \in BOOLEAN
    BY <1>5
  <2>. QED
    BY <1>1, <1>5, <2>1, <2>2, <2>3, <2>4, Filed, Zenon DEF TypeOK
<1>8. SlabsFiled'
  <2>1. ~ panicked'
    BY <1>5, Filed
  <2>2. IsInjective(free') /\ IsInjective(partial') /\ IsInjective(full')
    BY <1>5 DEF IsInjective
  <2>. QED
    BY <1>6, <1>7, <2>1, <2>2 DEF SlabsFiled
<1>9. ObjectsOnce'
  <2>1. Cardinality(live') = 0 /\ Cardinality(Owned') = 0 /\ Len(free') = 0
    BY <1>1, <1>5, <1>6, FS_EmptySet
  <2>. QED
    BY <1>1, <1>5, <1>6, <2>1, CacheAssumption DEF ObjectsOnce
<1>10. Unowned'
  BY <1>1, <1>2, <1>6, Filed DEF Unowned
<1>. QED
  BY <1>1, <1>6, <1>8, <1>9, <1>10 DEF CacheInv

(* Memory the rest of the kernel takes and returns is none of the cache's. *)
LEMMA OthersInv ==
  ASSUME CacheInv, NEW s \in Slabs, OthersAllocate(s) \/ OthersFree(s)
  PROVE  CacheInv' /\ Owned' = Owned /\ live' = live
<1>1. /\ UNCHANGED <<lists, freelist, count, allocated, reclaimable, occupied, live, panicked>>
      /\ memory' \subseteq Slabs /\ Owned \cap memory' = {}
  BY Filed DEF OthersAllocate, OthersFree, CacheInv, SlabsFiled, TypeOK
<1>2. Owned' = Owned
  BY <1>1 DEF Owned, lists
<1>3. TypeOK'
  BY <1>1, Filed, Zenon DEF TypeOK, lists
<1>4. SlabsFiled'
  BY <1>1, <1>2, <1>3 DEF CacheInv, SlabsFiled, lists
<1>5. ObjectsOnce'
  BY <1>1, <1>2, Zenon DEF CacheInv, ObjectsOnce, LiveIn, lists
<1>6. Unowned'
  BY <1>1, <1>2 DEF CacheInv, Unowned
<1>. QED
  BY <1>1, <1>2, <1>4, <1>5, <1>6 DEF CacheInv

(* A step that changes nothing keeps the invariant.                        *)
LEMMA StutterInv ==
  ASSUME CacheInv, UNCHANGED vars
  PROVE  CacheInv' /\ Owned' = Owned /\ live' = live
BY Zenon DEF vars, lists, CacheInv, SlabsFiled, ObjectsOnce, Unowned, TypeOK, Owned, LiveIn

(* One step of the cache: CacheInv is kept, and the slabs it owns and the  *)
(* objects in use change as ObjectPool says, or not at all.                *)
LEMMA NextStep ==
  ASSUME CacheInv, [Next]_vars
  PROVE  CacheInv' /\ [Pool!PoolNext]_Pool!poolVars
<1>. USE DEF Pool!poolVars, Pool!PoolNext
<1>0. Owned \subseteq Slabs
  BY Filed
<1>1. CASE AllocateFromPartial
  <2>1. PICK s \in Owned, i \in Index : <<s, i>> \notin live /\ live' = live \cup {<<s, i>>}
    BY <1>1, AllocateFromPartialInv DEF LiveIn
  <2>2. CacheInv' /\ Owned' = Owned
    BY <1>1, AllocateFromPartialInv
  <2>3. Pool!Get(<<s, i>>) /\ <<s, i>> \in Slabs \X Index
    BY <1>0, <2>1, <2>2 DEF Pool!Get
  <2>. QED
    BY <2>2, <2>3
<1>2. CASE AllocateFromFree
  <2>1. PICK s \in Owned, i \in Index : <<s, i>> \notin live /\ live' = live \cup {<<s, i>>}
    BY <1>2, AllocateFromFreeInv DEF LiveIn
  <2>2. CacheInv' /\ Owned' = Owned
    BY <1>2, AllocateFromFreeInv
  <2>3. Pool!Get(<<s, i>>) /\ <<s, i>> \in Slabs \X Index
    BY <1>0, <2>1, <2>2 DEF Pool!Get
  <2>. QED
    BY <2>2, <2>3
<1>3. ASSUME NEW s \in Slabs, AllocateFromNew(s)
      PROVE  CacheInv' /\ [Pool!PoolNext]_Pool!poolVars
  <2>1. /\ CacheInv' /\ Owned' = Owned \cup {s} /\ s \notin Owned
        /\ Owned \X Index \subseteq live
    BY <1>3, AllocateFromNewInv
  <2>2. PICK i \in Index : live' = live \cup {<<s, i>>}
    BY <1>3, AllocateFromNewInv
  <2>3. Pool!Grow(s, i)
    BY <2>1, <2>2 DEF Pool!Grow
  <2>. QED
    BY <2>1, <2>3
<1>4. ASSUME NEW s \in Slabs, NEW i \in Index, Free(s, i)
      PROVE  CacheInv' /\ [Pool!PoolNext]_Pool!poolVars
  <2>1. CacheInv' /\ Owned' = Owned /\ <<s, i>> \in live /\ live' = live \ {<<s, i>>}
    BY <1>4, FreeInv
  <2>2. Pool!Put(<<s, i>>) /\ <<s, i>> \in Slabs \X Index
    BY <2>1 DEF Pool!Put
  <2>. QED
    BY <2>1, <2>2
<1>5. CASE Reclaim
  <2>1. /\ CacheInv' /\ live' = live
        /\ Owned' = {s \in Owned : \E i \in Index : <<s, i>> \in live}
    BY <1>5, ReclaimInv
  <2>2. Pool!Shrink
    BY <2>1 DEF Pool!Shrink
  <2>. QED
    BY <2>1, <2>2
<1>6. CASE Destroy
  <2>1. CacheInv' /\ live' = {} /\ live = {} /\ Owned' = {}
    BY <1>6, DestroyInv
  <2>2. Pool!Shrink
    BY <2>1 DEF Pool!Shrink
  <2>. QED
    BY <2>1, <2>2
<1>7. ASSUME NEW s \in Slabs, OthersAllocate(s) \/ OthersFree(s)
      PROVE  CacheInv' /\ [Pool!PoolNext]_Pool!poolVars
  BY <1>7, OthersInv
<1>8. CASE UNCHANGED vars
  BY <1>8, StutterInv
<1>9. AllocateFails => UNCHANGED vars
  BY DEF AllocateFails
<1>10. \A s \in Slabs, i \in Index : FreeRefused(s, i) => UNCHANGED vars
  BY DEF FreeRefused
<1>. QED
  BY <1>1, <1>2, <1>3, <1>4, <1>5, <1>6, <1>7, <1>8, <1>9, <1>10, Zenon DEF Next

-----------------------------------------------------------------------------
(* The inductive invariant: slabs are filed by what they count, each       *)
(* object is free or in use, and memory that is not the cache's counts     *)
(* nothing.                                                                *)
THEOREM CacheInvariant == Spec => []CacheInv
<1>1. CacheInv /\ [Next]_vars => CacheInv'
  BY NextStep
<1>. QED
  BY InitInv, <1>1, PTL DEF Spec

(* Every slab is in the one list its number of allocated objects calls     *)
(* for, and no destructor panics.                                          *)
THEOREM SlabsAreFiled == Spec => []SlabsFiled
<1>1. CacheInv => SlabsFiled
  BY DEF CacheInv
<1>. QED
  BY CacheInvariant, <1>1, PTL

(* No object is handed out twice and none is lost, and the byte counters   *)
(* of the cache and of its allocator are exact.                            *)
THEOREM ObjectsHandedOutOnce == Spec => []ObjectsOnce
<1>1. CacheInv => ObjectsOnce
  BY DEF CacheInv
<1>. QED
  BY CacheInvariant, <1>1, PTL

(* The cache implements ObjectPool: it takes a slab only when every object *)
(* it has is in use, and Reclaim and ~Cache give back exactly the slabs    *)
(* with none in use.                                                       *)
THEOREM CacheImplementsPool == Spec => ImplementsPool
<1>1. Init => Pool!PoolInit
  BY DEF Init, Pool!PoolInit, Owned, ToSet
<1>2. CacheInv /\ [Next]_vars => [Pool!PoolNext]_Pool!poolVars
  BY NextStep
<1>. QED
  BY CacheInvariant, <1>1, <1>2, PTL DEF Spec, ImplementsPool, Pool!PoolSpec
=============================================================================
