--------------------------- MODULE IntrusiveList ----------------------------
(***************************************************************************)
(* Doubly linked lists whose links lie in the elements (IntrusiveList of   *)
(* kernel/intrusive/src/list.rs).  Nothing in a link says which list it is *)
(* in: remove trusts the caller and repairs head and tail only if they     *)
(* point at the node it takes out.                                         *)
(***************************************************************************)
EXTENDS Integers, FiniteSets, SequencesExt

CONSTANTS
  Nodes,      \* the elements; a node is its link (StructFieldOffset)
  Lists,
  null        \* is no element

VARIABLES
  next,       \* IntrusiveListNode::next of each node
  prev,       \* IntrusiveListNode::prev of each node
  head,       \* IntrusiveList::head of each list
  tail        \* IntrusiveList::tail of each list

links == <<next, prev, head, tail>>

-----------------------------------------------------------------------------
Init ==
  /\ next = [n \in Nodes |-> null]
  /\ prev = [n \in Nodes |-> null]
  /\ head = [l \in Lists |-> null]
  /\ tail = [l \in Lists |-> null]

IsEmptyList(l) == head[l] = null

(* Mistake: the old first node is not told what is before it now.          *)
PushLinkOneWay(l, n) ==
  /\ next' = [next EXCEPT ![n] = head[l]]
  /\ prev' = [prev EXCEPT ![n] = null]
  /\ head' = [head EXCEPT ![l] = n]
  /\ tail' = IF IsEmptyList(l) THEN [tail EXCEPT ![l] = n] ELSE tail

(* push_link: n becomes the first node of l.                               *)
PushLink(l, n) ==
  /\ next' = [next EXCEPT ![n] = head[l]]
  /\ prev' = IF IsEmptyList(l) THEN [prev EXCEPT ![n] = null]
             ELSE [prev EXCEPT ![n] = null, ![head[l]] = n]
  /\ head' = [head EXCEPT ![l] = n]
  /\ tail' = IF IsEmptyList(l) THEN [tail EXCEPT ![l] = n] ELSE tail

(* pop_link: the first node leaves l; it is the only one if it is also the *)
(* last.                                                                   *)
PopLink(l) ==
  LET n == head[l]
  IN  /\ ~ IsEmptyList(l)
      /\ next' = [next EXCEPT ![n] = null]
      /\ \/ /\ n = tail[l]
            /\ head' = [head EXCEPT ![l] = null]
            /\ tail' = [tail EXCEPT ![l] = null]
            /\ prev' = [prev EXCEPT ![n] = null]
         \/ /\ n # tail[l]
            /\ head' = [head EXCEPT ![l] = next[n]]
            /\ prev' = [prev EXCEPT ![next[n]] = null, ![n] = null]
            /\ UNCHANGED tail

(* f with its value at n replaced, unless n is the null pointer.           *)
Store(f, n, v) == IF n = null THEN f ELSE [f EXCEPT ![n] = v]

(* remove_link: n leaves l.                                                *)
RemoveLink(l, n) ==
  /\ next' = Store([next EXCEPT ![n] = null], prev[n], next[n])
  /\ prev' = Store([prev EXCEPT ![n] = null], next[n], prev[n])
  /\ head' = IF head[l] = n THEN [head EXCEPT ![l] = next[n]] ELSE head
  /\ tail' = IF tail[l] = n THEN [tail EXCEPT ![l] = prev[n]] ELSE tail

-----------------------------------------------------------------------------
(* The nodes met from a first one by following links, at most all of them. *)
Walk(first, link) ==
  LET at[k \in 0 .. Cardinality(Nodes)] ==
        IF k = 0 THEN first ELSE IF at[k - 1] = null THEN null ELSE link[at[k - 1]]
      met == {k \in 0 .. Cardinality(Nodes) : at[k] # null}
  IN  [k \in 1 .. Cardinality(met) |-> at[k - 1]]

Forward(l) == Walk(head[l], next)
Members(l) == ToSet(Forward(l))
Linked == UNION {Members(l) : l \in Lists}

-----------------------------------------------------------------------------
Pointer == Nodes \cup {null}

TypeOK ==
  /\ next \in [Nodes -> Pointer]
  /\ prev \in [Nodes -> Pointer]
  /\ head \in [Lists -> Pointer]
  /\ tail \in [Lists -> Pointer]

(* The nodes between head and tail are the same both ways, the links end   *)
(* where the list does, and no node is in two lists or twice in one.       *)
WellLinked ==
  /\ \A l \in Lists : Walk(tail[l], prev) = Reverse(Forward(l))
  /\ \A l \in Lists : IsInjective(Forward(l))
  /\ \A k, l \in Lists : k # l => Members(k) \cap Members(l) = {}

(* The links implement sequences.                                          *)
Abstract == INSTANCE NodeLists WITH items <- [l \in Lists |-> Forward(l)]

ImplementsLists == Abstract!ListsSpec
=============================================================================
