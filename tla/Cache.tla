------------------------------- MODULE Cache --------------------------------
(***************************************************************************)
(* A cache of equal objects over the physical page allocator (class Cache  *)
(* and the Slab and Allocator under it, memory/cache.cc).  A slab is a     *)
(* block of physical memory with Objects objects; the cache files its      *)
(* slabs in three lists by how many of their objects are allocated.        *)
(*                                                                         *)
(* One call is one step.  Between calls the rest of the kernel takes and   *)
(* returns physical memory too, so a new slab may be had or not.           *)
(***************************************************************************)
EXTENDS Integers, FiniteSets, SequencesExt

CONSTANTS
  Slabs,      \* the blocks AllocatePhysical(slab_size) can ever return
  Objects,    \* layout_.objects
  ObjectSize, \* layout_.object_size
  SlabSize    \* layout_.slab_size

(* SlabSize() makes a slab large enough for 32 objects; two are enough for *)
(* Free, which tests for an emptied and for a no longer full slab.         *)
ASSUME CacheAssumption ==
  /\ IsFiniteSet(Slabs)
  /\ Objects \in Nat \ {0, 1}
  /\ ObjectSize \in Nat \ {0}
  /\ SlabSize \in Nat \ {0}

Index == 1 .. Objects

VARIABLES
  free,        \* free_: slabs with no allocated object
  partial,     \* partial_
  full,        \* full_: slabs with no free object
  freelist,    \* Slab::freelist_ of every slab
  count,       \* Slab::allocated_ of every slab
  allocated,   \* Cache::allocated_
  reclaimable, \* Cache::reclaimable_
  occupied,    \* Allocator::allocated_
  memory,      \* the blocks AllocatePhysical can return now
  live,        \* the objects <<slab, index>> the client holds
  panicked     \* a destructor panicked

lists == <<free, partial, full>>
vars == <<free, partial, full, freelist, count, allocated, reclaimable,
          occupied, memory, live, panicked>>

Owned == ToSet(free) \cup ToSet(partial) \cup ToSet(full)

-----------------------------------------------------------------------------
Init ==
  /\ free = <<>> /\ partial = <<>> /\ full = <<>>
  /\ freelist = [s \in Slabs |-> <<>>]
  /\ count = [s \in Slabs |-> 0]
  /\ allocated = 0 /\ reclaimable = 0 /\ occupied = 0
  /\ memory = Slabs
  /\ live = {}
  /\ panicked = FALSE

(* Mistake: leave the object in the freelist.                              *)
PopObjectKept(s, list) ==
  /\ freelist' = [freelist EXCEPT ![s] = list]
  /\ count' = [count EXCEPT ![s] = @ + 1]
  /\ live' = live \cup {<<s, Head(list)>>}
  /\ allocated' = allocated + ObjectSize

(* Slab::Allocate: the first object of the freelist, nullptr if none.      *)
PopObject(s, list) ==
  /\ freelist' = [freelist EXCEPT ![s] = IF list = <<>> THEN list ELSE Tail(list)]
  /\ count' = [count EXCEPT ![s] = IF list = <<>> THEN @ ELSE @ + 1]
  /\ live' = live \cup IF list = <<>> THEN {} ELSE {<<s, Head(list)>>}
  /\ allocated' = allocated + ObjectSize

(* Mistake: a slab whose last object is taken stays in partial_.           *)
AllocateNeverFull ==
  LET s == Head(partial)
  IN  /\ ~ panicked
      /\ partial # <<>>
      /\ PopObject(s, freelist[s])
      /\ UNCHANGED <<lists, reclaimable, occupied, memory, panicked>>

(* Allocate takes from the first slab in use, which may become full.       *)
AllocateFromPartial ==
  LET s == Head(partial)
  IN  /\ ~ panicked
      /\ partial # <<>>
      /\ IF count[s] + 1 = Objects
         THEN partial' = Tail(partial) /\ full' = Cons(s, full)
         ELSE UNCHANGED <<partial, full>>
      /\ PopObject(s, freelist[s])
      /\ UNCHANGED <<free, reclaimable, occupied, memory, panicked>>

(* Or else from a slab kept for reuse.                                     *)
AllocateFromFree ==
  LET s == Head(free)
  IN  /\ ~ panicked
      /\ partial = <<>> /\ free # <<>>
      /\ free' = Tail(free)
      /\ partial' = Cons(s, partial)
      /\ reclaimable' = reclaimable - SlabSize
      /\ PopObject(s, freelist[s])
      /\ UNCHANGED <<full, occupied, memory, panicked>>

(* Mistake: ask for memory although a slab is kept for reuse.              *)
AllocateFromNewEagerly(s) ==
  /\ ~ panicked
  /\ partial = <<>>
  /\ s \in memory
  /\ memory' = memory \ {s}
  /\ occupied' = occupied + SlabSize
  /\ partial' = Cons(s, partial)
  /\ PopObject(s, [i \in Index |-> i])
  /\ UNCHANGED <<free, full, reclaimable, panicked>>

(* Or else from a new one, whose objects are linked in address order.      *)
AllocateFromNew(s) ==
  /\ ~ panicked
  /\ partial = <<>> /\ free = <<>>
  /\ s \in memory
  /\ memory' = memory \ {s}
  /\ occupied' = occupied + SlabSize
  /\ partial' = Cons(s, partial)
  /\ PopObject(s, [i \in Index |-> i])
  /\ UNCHANGED <<free, full, reclaimable, panicked>>

AllocateFails ==
  /\ ~ panicked
  /\ partial = <<>> /\ free = <<>> /\ memory = {}
  /\ UNCHANGED vars

-----------------------------------------------------------------------------
(* Where the slab of a freed object is filed, with left objects allocated. *)
Refile(s, left) ==
  CASE left = 0 ->
         /\ partial' = RemoveFirst(partial, s)
         /\ free' = Cons(s, free)
         /\ reclaimable' = reclaimable + SlabSize
         /\ UNCHANGED full
    [] left + 1 = Objects ->
         /\ full' = RemoveFirst(full, s)
         /\ partial' = Cons(s, partial)
         /\ UNCHANGED <<free, reclaimable>>
    [] OTHER -> UNCHANGED <<free, partial, full, reclaimable>>

Free(s, i) ==
  /\ ~ panicked
  /\ <<s, i>> \in live
  /\ count[s] # 0
  /\ freelist' = [freelist EXCEPT ![s] = Cons(i, @)]
  /\ count' = [count EXCEPT ![s] = @ - 1]
  /\ live' = live \ {<<s, i>>}
  /\ allocated' = allocated - ObjectSize
  /\ Refile(s, count[s] - 1)
  /\ UNCHANGED <<occupied, memory, panicked>>

(* A second free of an object is noticed if its slab has no other left.    *)
FreeRefused(s, i) ==
  /\ ~ panicked
  /\ s \in Owned /\ <<s, i>> \notin live
  /\ count[s] = 0
  /\ UNCHANGED vars

-----------------------------------------------------------------------------
(* Allocator::Free of every slab in free_; ~Slab panics if one is in use.  *)
GiveBack(given) ==
  /\ memory' = memory \cup given
  /\ freelist' = [s \in Slabs |-> IF s \in given THEN <<>> ELSE freelist[s]]
  /\ panicked' = \E s \in given : count[s] # 0

Reclaim ==
  /\ ~ panicked
  /\ free' = <<>>
  /\ GiveBack(ToSet(free))
  /\ occupied' = occupied - SlabSize * Len(free)
  /\ reclaimable' = 0
  /\ UNCHANGED <<partial, full, count, allocated, live>>

(* ~Cache once the client holds nothing, and the next Cache in its place.  *)
Destroy ==
  /\ ~ panicked
  /\ live = {}
  /\ IF partial # <<>> \/ full # <<>>
     THEN panicked' = TRUE /\ UNCHANGED <<lists, freelist, allocated, reclaimable,
                                          occupied, memory>>
     ELSE /\ free' = <<>>
          /\ GiveBack(ToSet(free))
          /\ allocated' = 0 /\ reclaimable' = 0 /\ occupied' = 0
          /\ UNCHANGED <<partial, full>>
  /\ UNCHANGED <<count, live>>

-----------------------------------------------------------------------------
(* Physical memory that others allocate and free.                          *)
OthersAllocate(s) ==
  /\ s \in memory
  /\ memory' = memory \ {s}
  /\ UNCHANGED <<lists, freelist, count, allocated, reclaimable, occupied, live, panicked>>

OthersFree(s) ==
  /\ s \in Slabs \ (memory \cup Owned)
  /\ memory' = memory \cup {s}
  /\ UNCHANGED <<lists, freelist, count, allocated, reclaimable, occupied, live, panicked>>

Next ==
  \/ AllocateFromPartial
  \/ AllocateFromFree
  \/ \E s \in Slabs : AllocateFromNew(s)
  \/ AllocateFails
  \/ \E s \in Slabs, i \in Index : Free(s, i) \/ FreeRefused(s, i)
  \/ Reclaim
  \/ Destroy
  \/ \E s \in Slabs : OthersAllocate(s) \/ OthersFree(s)

Spec == Init /\ [][Next]_vars
-----------------------------------------------------------------------------
TypeOK ==
  /\ free \in Seq(Slabs) /\ partial \in Seq(Slabs) /\ full \in Seq(Slabs)
  /\ freelist \in [Slabs -> Seq(Index)]
  /\ count \in [Slabs -> 0 .. Objects]
  /\ allocated \in Int /\ reclaimable \in Int /\ occupied \in Int
  /\ memory \subseteq Slabs
  /\ live \subseteq Slabs \X Index
  /\ panicked \in BOOLEAN

(* Every slab the cache holds is in one list, once, and in the list its    *)
(* number of allocated objects says.  Free and Allocate move a slab on     *)
(* that number alone, so a wrong list is never put right later.  Hence     *)
(* destroying a cache with no object in use does not panic, and Reclaim    *)
(* never meets a slab in use.                                              *)
SlabsFiled ==
  /\ TypeOK
  /\ ~ panicked
  /\ IsInjective(free) /\ IsInjective(partial) /\ IsInjective(full)
  /\ \A s \in ToSet(free) : count[s] = 0
  /\ \A s \in ToSet(partial) : count[s] \in 1 .. Objects - 1
  /\ \A s \in ToSet(full) : count[s] = Objects
  /\ Owned \cap memory = {}

(* Every object of a slab is either in its freelist, once, or with the     *)
(* client; so no object is handed out twice and none is lost.  The byte    *)
(* counters agree with the objects in use and the lists.                   *)
LiveIn(s) == {i \in Index : <<s, i>> \in live}

ObjectsOnce ==
  /\ \A x \in live : x[1] \in Owned
  /\ \A s \in Owned :
       /\ IsInjective(freelist[s])
       /\ ToSet(freelist[s]) = Index \ LiveIn(s)
       /\ count[s] = Cardinality(LiveIn(s))
  /\ allocated = ObjectSize * Cardinality(live)
  /\ reclaimable = SlabSize * Len(free)
  /\ occupied = SlabSize * Cardinality(Owned)

(* What makes these two inductive: a slab the cache does not have counts   *)
(* no object, so that one that comes back starts from nothing.             *)
Unowned == \A s \in Slabs \ Owned : count[s] = 0

CacheInv == SlabsFiled /\ ObjectsOnce /\ Unowned

(* The cache does what ObjectPool promises: it asks for memory only when   *)
(* all its objects are in use, and Reclaim returns every unused slab.      *)
Pool == INSTANCE ObjectPool
          WITH Slots <- Slabs, Indices <- Index, backed <- Owned, inUse <- live

ImplementsPool == Pool!PoolSpec
=============================================================================
