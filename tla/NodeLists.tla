----------------------------- MODULE NodeLists ------------------------------
(***************************************************************************)
(* What intrusive lists promise: each list is a sequence of nodes, a node  *)
(* is in one list at most, push and pop work on the front, and remove      *)
(* takes a node out of the list it is in and leaves the rest in order.     *)
(***************************************************************************)
EXTENDS Integers, SequencesExt

CONSTANTS Nodes, Lists

VARIABLE items        \* items[l]: the nodes of list l, first to last

In(n, l) == \E i \in DOMAIN items[l] : items[l][i] = n

ListsInit == items = [l \in Lists |-> <<>>]

PushItem(l, n) ==
  /\ \A k \in Lists : ~ In(n, k)
  /\ items' = [items EXCEPT ![l] = Cons(n, @)]

PopItem(l) ==
  /\ items[l] # <<>>
  /\ items' = [items EXCEPT ![l] = Tail(@)]

RemoveItem(l, n) ==
  /\ In(n, l)
  /\ items' = [items EXCEPT ![l] = RemoveFirst(@, n)]

ListsNext ==
  \E l \in Lists : PopItem(l) \/ \E n \in Nodes : PushItem(l, n) \/ RemoveItem(l, n)

ListsSpec == ListsInit /\ [][ListsNext]_items
=============================================================================
