------------------------------ MODULE FdtNodes ------------------------------
(***************************************************************************)
(* The parser of the structure block of a flattened device tree            *)
(* (parse_nodes and State of kernel/devicetree/src/fdt.rs) and the tree it *)
(* builds (DeviceTreeNode of kernel/devicetree/src/lib.rs).                *)
(*                                                                         *)
(* The block is any sequence of tokens.  A node is the function from the   *)
(* paths below it to what it has there; its own path is <<>>.              *)
(***************************************************************************)
EXTENDS Integers, Sequences, FiniteSets, SequencesExt

CONSTANTS
  Names,        \* of nodes; the root's is ""
  Properties,   \* <<name, value>> pairs a block may hold, with no value
                \* of a cells property too short for a number
  MaxTokens,    \* bound: tokens of a block
  MaxNodes,     \* bound: nodes of a block
  MaxProps      \* bound: properties of a block

CellNames == {"#size-cells", "#address-cells"}

ASSUME FdtAssumption ==
  /\ "" \in Names
  /\ \A p \in Properties : p = <<p[1], p[2]>> /\ (p[1] \in CellNames => p[2] \in Nat)
  /\ MaxTokens \in Nat /\ MaxNodes \in Nat /\ MaxProps \in Nat

VARIABLES
  text,       \* history: the tokens parsed
  parents,    \* State::parents, pairs <<name, node>>
  current,    \* State::current
  outcome,    \* "parse" until there is one; "ok", "error", or "panicked"
  root        \* the root, once the parser has returned it

treeVars == <<text, parents, current, outcome, root>>

-----------------------------------------------------------------------------
Cells(size, address) == [c \in CellNames |-> IF c = "#size-cells" THEN size ELSE address]

Leaf(cells) == [p \in {<<>>} |-> [cells |-> cells, props |-> {}]]

NewNode == Leaf(Cells(1, 1))

(* The cells are the parent's at the time.                                 *)
NewChild(parent) == Leaf(parent[<<>>].cells)

Below(n, name) == {p \in DOMAIN n : p # <<>> /\ Head(p) = name}

(* Mistake: the nodes below an earlier child of that name stay.            *)
AddChildMerged(n, name, child) ==
  LET new == {<<name>> \o p : p \in DOMAIN child}
  IN  [p \in DOMAIN n \cup new |-> IF p \in new THEN child[Tail(p)] ELSE n[p]]

(* insert: a child of that name is replaced, with all below it.            *)
AddChild(n, name, child) ==
  LET new == {<<name>> \o p : p \in DOMAIN child}
  IN  [p \in (DOMAIN n \ Below(n, name)) \cup new |->
         IF p \in new THEN child[Tail(p)] ELSE n[p]]

Child(n, name) == [p \in {Tail(q) : q \in Below(n, name)} |-> n[<<name>> \o p]]
HasChild(n, name) == Below(n, name) # {}

(* A cells property sets the number of cells, and is stored like others.   *)
AddProperty(n, name, value) ==
  [n EXCEPT
     ![<<>>].cells = IF name \in CellNames THEN [@ EXCEPT ![name] = value] ELSE @,
     ![<<>>].props = {q \in @ : q[1] # name} \cup {<<name, value>>}]

(* DeviceTree::follow: the node at a path, as a set of one; or none.       *)
Follow(from, path) ==
  LET found[i \in 0 .. Len(path)] ==
        IF i = 0 THEN {from}
        ELSE {Child(n, path[i]) : n \in {m \in found[i - 1] : HasChild(m, path[i])}}
  IN  found[Len(path)]

-----------------------------------------------------------------------------
TreeInit ==
  /\ text = <<>>
  /\ parents = <<>>
  /\ current = NewNode
  /\ outcome = "parse"
  /\ root = Leaf(Cells(1, 1))

Count(kind) == Cardinality({i \in DOMAIN text : text[i].kind = kind})

Token(tok) ==
  /\ outcome = "parse"
  /\ Len(text) < MaxTokens
  /\ text' = Append(text, tok)

BeginNode(name) ==
  /\ Count("begin") < MaxNodes
  /\ Token([kind |-> "begin", name |-> name])
  /\ parents' = Append(parents, <<name, current>>)
  /\ current' = NewChild(current)
  /\ UNCHANGED <<outcome, root>>

EndNode ==
  /\ parents # <<>>
  /\ Token([kind |-> "end"])
  /\ parents' = Front(parents)
  /\ current' = AddChild(Last(parents)[2], Last(parents)[1], current)
  /\ UNCHANGED <<outcome, root>>

UnmatchedEnd ==
  /\ parents = <<>>
  /\ Token([kind |-> "end"])
  /\ outcome' = "error"
  /\ UNCHANGED <<parents, current, root>>

NewProperty(name, value) ==
  /\ Count("prop") < MaxProps
  /\ Token([kind |-> "prop", name |-> name, value |-> value])
  /\ current' = AddProperty(current, name, value)
  /\ UNCHANGED <<parents, outcome, root>>

(* The number of cells is unwrapped from a value of less than four bytes,  *)
(* or the name lies beyond the strings block.                              *)
PropertyPanics ==
  /\ Token([kind |-> "panic"])
  /\ outcome' = "panicked"
  /\ UNCHANGED <<parents, current, root>>

Nop ==
  /\ Count("nop") < 1
  /\ Token([kind |-> "nop"])
  /\ UNCHANGED <<parents, current, outcome, root>>

(* The block ends inside a token, a string has no end, padding is missing, *)
(* or the token is unknown.                                                *)
BadToken ==
  /\ outcome = "parse"
  /\ text' = Append(text, [kind |-> "bad"])
  /\ outcome' = "error"
  /\ UNCHANGED <<parents, current, root>>

(* Mistake: nodes may be unfinished.                                       *)
FinishEarly ==
  /\ Token([kind |-> "finish"])
  /\ outcome' = IF HasChild(current, "") THEN "ok" ELSE "error"
  /\ root' = IF HasChild(current, "") THEN Child(current, "") ELSE root
  /\ UNCHANGED <<parents, current>>

(* The root is the child "" of a node without a name; whatever else lies   *)
(* beside it is dropped.                                                   *)
Finish ==
  /\ Token([kind |-> "finish"])
  /\ LET ok == parents = <<>> /\ HasChild(current, "")
     IN  /\ outcome' = IF ok THEN "ok" ELSE "error"
         /\ root' = IF ok THEN Child(current, "") ELSE root
  /\ UNCHANGED <<parents, current>>

TreeEnded == outcome # "parse" /\ UNCHANGED treeVars

TreeNext ==
  \/ \E name \in Names : BeginNode(name)
  \/ EndNode \/ UnmatchedEnd
  \/ \E p \in Properties : NewProperty(p[1], p[2])
  \/ PropertyPanics \/ Nop \/ BadToken \/ Finish \/ TreeEnded

TreeSpec == TreeInit /\ [][TreeNext]_treeVars
-----------------------------------------------------------------------------
(* What the text says, told from the text alone.  Node 0 is the one around *)
(* the whole block; every other node is known by the place of its begin.   *)
Kind(i) == text[i].kind
NumberOf(kind, i, k) == Cardinality({j \in i .. k : Kind(j) = kind})

(* Token i begins a node whose end is not among the tokens up to k.        *)
OpenAt(i, k) ==
  /\ Kind(i) = "begin"
  /\ \A j \in i .. k : NumberOf("begin", i, j) > NumberOf("end", i, j)

Chain(k) == {0} \cup {i \in 1 .. k : OpenAt(i, k)}
Greatest(S) == CHOOSE i \in S : \A j \in S : j <= i
Inside(k) == Greatest(Chain(k))
ParentOf(i) == Inside(i - 1)

Begins == {i \in DOMAIN text : Kind(i) = "begin"}
Overwritten(i) ==
  \E j \in Begins : j > i /\ ParentOf(j) = ParentOf(i) /\ text[j].name = text[i].name

(* The nodes that are in the tree: under the last root, and neither they   *)
(* nor a node they lie in has a later twin.                                *)
Present(i) ==
  /\ \A j \in Chain(i) \ {0} : ~ Overwritten(j)
  /\ \E j \in Chain(i) : j # 0 /\ ParentOf(j) = 0 /\ text[j].name = ""
PathOf(i) ==
  Tail([n \in 1 .. Cardinality(Chain(i)) - 1 |->
          text[CHOOSE j \in Chain(i) \ {0} : Cardinality(Chain(j)) = n + 1].name])

PropTokens(i) == {k \in DOMAIN text : Kind(k) = "prop" /\ Inside(k) = i}
LastProps(i) ==
  {<<text[k].name, text[k].value>> :
     k \in {k \in PropTokens(i) : \A m \in PropTokens(i) : text[m].name = text[k].name => m <= k}}

(* The number of cells is what was said last in the node, or before it in  *)
(* a node it lies in.                                                      *)
SaidCells(i, c) ==
  LET said == {k \in DOMAIN text : Kind(k) = "prop" /\ text[k].name = c
                 /\ (Inside(k) = i \/ (k < i /\ Inside(k) \in Chain(i)))}
  IN  IF said = {} THEN 1 ELSE text[Greatest(said)].value

Balanced ==
  LET n == Len(text) - 1
  IN  /\ \A k \in 1 .. n : NumberOf("begin", 1, k) >= NumberOf("end", 1, k)
      /\ NumberOf("begin", 1, n) = NumberOf("end", 1, n)

-----------------------------------------------------------------------------
IsNode(n) ==
  /\ <<>> \in DOMAIN n
  /\ \A p \in DOMAIN n : p # <<>> => Front(p) \in DOMAIN n
  /\ \A p \in DOMAIN n : n[p].cells \in [CellNames -> Nat] /\ n[p].props \subseteq Properties

(* The parents are nodes, one for each node of the text that is open.      *)
TreeTypeOK ==
  /\ outcome \in {"parse", "ok", "error", "panicked"}
  /\ outcome = "parse" => Len(parents) = Count("begin") - Count("end")
  /\ \A i \in DOMAIN parents : parents[i][1] \in Names /\ IsNode(parents[i][2])
  /\ IsNode(current) /\ IsNode(root)

(* Every node has the number of cells that it, or else the nearest node    *)
(* around it, said before it began: the bytes of reg are cut by them.      *)
CellsNearest(present) ==
  \A i \in present : \A n \in Follow(root, PathOf(i)) :
    n[<<>>].cells = [c \in CellNames |-> SaidCells(i, c)]

(* The tree is the text's: following a path leads to the node that the     *)
(* text has there last, with its last properties and its cells; a node     *)
(* replaced by a twin leaves nothing behind, and no other path leads       *)
(* anywhere.                                                               *)
TreeIsText ==
  TreeTypeOK /\ (outcome = "ok" =>
    LET present == {i \in Begins : Present(i)}
    IN  /\ {PathOf(i) : i \in present} = DOMAIN root
        /\ \A i \in present :
             {n[<<>>].props : n \in Follow(root, PathOf(i))} = {LastProps(i)}
        /\ CellsNearest(present))

(* A tree is returned for a text whose nodes all end and that has a root,  *)
(* and an error for every other text that causes no panic.                 *)
AcceptsExactly ==
  LET whole == Kind(Len(text)) = "finish" /\ Balanced /\ \E i \in Begins : Present(i)
  IN  (outcome = "ok" => whole) /\ (outcome = "error" => ~ whole)
=============================================================================
