----------------------------- MODULE ObjectPool -----------------------------
(***************************************************************************)
(* What an object cache promises, with no slabs in lists: it holds some    *)
(* slots of memory, each cut into objects; it takes a slot only when every *)
(* object it has is in use, and can always give back the unused ones.      *)
(***************************************************************************)
CONSTANTS
  Slots,      \* the pieces of memory a pool can be given
  Indices     \* the objects of a slot

VARIABLES
  backed,     \* the slots the pool holds
  inUse       \* the objects <<slot, index>> its client holds

poolVars == <<backed, inUse>>

PoolInit == backed = {} /\ inUse = {}

(* The client is given an object of a slot the pool has.                   *)
Get(x) ==
  /\ x \in (backed \X Indices) \ inUse
  /\ inUse' = inUse \cup {x}
  /\ UNCHANGED backed

(* None is left: the pool takes a slot and gives an object of it.          *)
Grow(s, i) ==
  /\ backed \X Indices \subseteq inUse
  /\ s \in Slots \ backed
  /\ backed' = backed \cup {s}
  /\ inUse' = inUse \cup {<<s, i>>}

Put(x) ==
  /\ x \in inUse
  /\ inUse' = inUse \ {x}
  /\ UNCHANGED backed

(* Exactly the slots with no object in use go back.                        *)
Shrink ==
  /\ backed' = {s \in backed : \E i \in Indices : <<s, i>> \in inUse}
  /\ UNCHANGED inUse

PoolNext ==
  \/ \E x \in Slots \X Indices : Get(x) \/ Put(x)
  \/ \E s \in Slots, i \in Indices : Grow(s, i)
  \/ Shrink

PoolSpec == PoolInit /\ [][PoolNext]_poolVars
=============================================================================
