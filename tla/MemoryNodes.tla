----------------------------- MODULE MemoryNodes -----------------------------
(***************************************************************************)
(* From the blob of the device tree to a description of the memory         *)
(* (mmap_from_devicetree and from_devicetree of kernel/kernel/src/setup.rs *)
(* on top of parse): the calls of add_memory and reserve_memory with which *)
(* module Memory begins.  Fdt goes up to the structure block; what the     *)
(* parser of FdtNodes may return of that is chosen from Trees.             *)
(*                                                                         *)
(* A range is known by the bytes its address and size were read from.      *)
(***************************************************************************)
EXTENDS Fdt

CONSTANTS
  CellBytes,  \* bytes of a cell: 4
  Trees,      \* the children of the root, and the root's cells
  NotParsed,  \* there is no tree yet
  Refused     \* parse_nodes has returned an error

NoReg == -1

ASSUME TreeAssumption ==
  /\ CellBytes \in Nat \ {0}
  /\ Trees \subseteq [children : Seq([memory : BOOLEAN, reg : {NoReg} \cup Nat]),
                     cells : Nat \X Nat]
  /\ {NotParsed, Refused} \cap Trees = {}
  /\ NotParsed # Refused

VARIABLES
  tree,       \* children: memory node or not, bytes of reg or NoReg; cells
  node,       \* the child that is looked at
  reading,    \* TRUE in the loop over the reg property of the child
  regOffset,  \* the scanner of the reg property
  added       \* add_memory calls: <<child, first byte, end of bytes>>

walk == <<tree, node, reading, regOffset, added>>
setupVars == <<blob, phase, walk>>

RegScan == INSTANCE Scanner WITH
  Cell <- CellBytes, Datas <- {<<>>}, Sizes <- {}, Alignments <- {}, MaxReads <- 0,
  data <- <<>>, offset <- 0, reads <- <<>>

Reg(n) == [i \in 1 .. tree.children[n].reg |-> "char"]
MemoryNode(n) == tree.children[n].memory
AddressCells == tree.cells[1]
SizeCells == tree.cells[2]

-----------------------------------------------------------------------------
SetupInit ==
  /\ ParseInit
  /\ tree = NotParsed
  /\ node = 1
  /\ reading = FALSE
  /\ regOffset = 0
  /\ added = {}

(* The parser, as far as Fdt follows it.                                   *)
Parse == ParseStep /\ UNCHANGED walk

(* parse_nodes returns a tree.                                             *)
NodesParsed ==
  /\ phase = "nodes"
  /\ tree' \in Trees
  /\ phase' = "walk"
  /\ UNCHANGED <<blob, node, reading, regOffset, added>>

(* Or it does not, with an error or a panic of its own.                    *)
NodesRefused ==
  /\ phase = "nodes"
  /\ tree' = Refused
  /\ phase' \in {"error", "panicked"}
  /\ UNCHANGED <<blob, node, reading, regOffset, added>>

Panic == phase' = "panicked" /\ UNCHANGED <<blob, walk>>

(* from_devicetree unwraps the error of parse.                             *)
UnwrapError == phase = "error" /\ Panic

AtNode == phase = "walk" /\ ~ reading /\ node \in DOMAIN tree.children

OtherNode ==
  /\ AtNode
  /\ ~ MemoryNode(node)
  /\ node' = node + 1
  /\ UNCHANGED <<blob, phase, tree, reading, regOffset, added>>

(* Mistake: a memory node without a reg property is passed over.           *)
MissingRegSkipped ==
  /\ AtNode
  /\ MemoryNode(node)
  /\ tree.children[node].reg = NoReg
  /\ node' = node + 1
  /\ UNCHANGED <<blob, phase, tree, reading, regOffset, added>>

MissingReg ==
  /\ AtNode
  /\ MemoryNode(node)
  /\ tree.children[node].reg = NoReg
  /\ Panic

OpenReg ==
  /\ AtNode
  /\ MemoryNode(node)
  /\ tree.children[node].reg # NoReg
  /\ reading' = TRUE
  /\ regOffset' = 0
  /\ UNCHANGED <<blob, phase, tree, node, added>>

Address == RegScan!ConsumeCells(Reg(node), regOffset, AddressCells)
Size == RegScan!ConsumeCells(Reg(node), Address.to, SizeCells)

AtEntry == phase = "walk" /\ reading /\ RegScan!Remains(Reg(node), regOffset) > 0

(* Mistake: the property is opened anew for every entry.                   *)
AddEntryAnew ==
  /\ AtEntry
  /\ Address.ok /\ Size.ok
  /\ added' = added \cup {<<node, regOffset, Size.to>>}
  /\ UNCHANGED <<blob, phase, tree, node, reading, regOffset>>

AddEntry ==
  /\ AtEntry
  /\ Address.ok /\ Size.ok
  /\ added' = added \cup {<<node, regOffset, Size.to>>}
  /\ regOffset' = Size.to
  /\ UNCHANGED <<blob, phase, tree, node, reading>>

BadEntry ==
  /\ AtEntry
  /\ ~ Address.ok \/ ~ Size.ok
  /\ Panic

EndOfReg ==
  /\ phase = "walk"
  /\ reading
  /\ RegScan!Remains(Reg(node), regOffset) = 0
  /\ reading' = FALSE
  /\ node' = node + 1
  /\ UNCHANGED <<blob, phase, tree, regOffset, added>>

Done ==
  /\ phase = "walk"
  /\ ~ reading
  /\ node \notin DOMAIN tree.children
  /\ phase' = "done"
  /\ UNCHANGED <<blob, walk>>

SetupEnded == phase \in {"done", "panicked"} /\ UNCHANGED setupVars

SetupStep ==
  \/ Parse \/ NodesParsed \/ NodesRefused \/ UnwrapError
  \/ OtherNode \/ MissingReg \/ OpenReg \/ AddEntry \/ BadEntry \/ EndOfReg \/ Done
SetupNext == SetupStep \/ SetupEnded

(* One CPU runs the parser and the loops, and nothing else.                *)
SetupSpec == SetupInit /\ [][SetupNext]_setupVars /\ WF_setupVars(SetupStep)
-----------------------------------------------------------------------------
Parsed == tree \notin {NotParsed, Refused}
Width == (AddressCells + SizeCells) * CellBytes
Regs == {n \in DOMAIN tree.children : MemoryNode(n)}
CellsSupported == AddressCells <= 2 /\ SizeCells <= 2

(* The reg of a memory node that the loop can cut into entries.            *)
Divides(n) ==
  LET bytes == tree.children[n].reg
  IN  \/ bytes = 0
      \/ bytes > 0 /\ CellsSupported /\ Width > 0 /\ bytes % Width = 0

(* The cells are both zero and there are bytes: no call consumes them.     *)
Endless == Parsed /\ Width = 0 /\ \E n \in Regs : tree.children[n].reg > 0

SetupTypeOK ==
  /\ FdtTypeOK
  /\ phase \in {"walk", "done"} => Parsed
  /\ reading => Parsed /\ regOffset <= tree.children[node].reg

(* When the kernel goes on, nothing of the description is left out or made *)
(* up.  Its reserved ranges are all entries of the blob before the first   *)
(* pair of zeros: the memory of none is given away.  The ranges it has     *)
(* added are those of all memory nodes: each reg is cut into entries       *)
(* without a gap, and none is added from the bytes of two.                 *)
DescribedWhole ==
  SetupTypeOK /\ (phase = "done" =>
    /\ Terminated(Len(reserved))
    /\ \A k \in 0 .. Len(reserved) - 1 : Entry(k) = reserved[k + 1][1] \o reserved[k + 1][2]
    /\ added = UNION {{<<n, b, b + Width>> :
                         b \in {c \in 0 .. tree.children[n].reg - 1 : c % Width = 0}} : n \in Regs})

(* The kernel panics only on a blob with a header that is not supported or *)
(* contradicts the total size it states, or a reserved block without end;  *)
(* on a structure block that is refused; or on a memory node whose reg is  *)
(* missing or does not divide into entries.  And with such a node it never *)
(* goes on.                                                                *)
GoodBlob ==
  /\ Len(fdt) >= Len(Fields)
  /\ Supported
  /\ Contained
  /\ \E k \in 0 .. Len(ReservedBlock) : Terminated(k)

PanicsOnBadInput ==
  /\ phase = "panicked" =>
       \/ tree = NotParsed /\ ~ GoodBlob
       \/ tree = Refused
       \/ Parsed /\ \E n \in Regs : ~ Divides(n)
  /\ phase = "done" => \A n \in Regs : Divides(n)

(* The loops end, if not both cells of the root are zero.  With both zero  *)
(* a byte of reg is enough to keep the kernel in the loop for good.        *)
EndsUnlessEndless == <>(phase \in {"done", "panicked"} \/ Endless)
=============================================================================
