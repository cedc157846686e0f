------------------------------- MODULE Scanner -------------------------------
(***************************************************************************)
(* The scanner of the device tree crate (kernel/devicetree/src/scanner.rs):*)
(* a cursor over bytes, moved by the calls that read numbers, strings and  *)
(* data and that skip padding.  Of a byte the model keeps whether it is    *)
(* zero, a character, or a byte that no UTF-8 string has.                  *)
(***************************************************************************)
EXTENDS Integers, Sequences

CONSTANTS
  Cell,         \* bytes of a 32-bit number: 4
  Datas,        \* the byte strings to scan
  Sizes,        \* bound: what consume_data is called with
  Alignments,   \* bound: what align_forward is called with
  MaxReads      \* bound: successful calls that move the cursor

Bytes == {"zero", "char", "invalid"}

ASSUME ScannerAssumption ==
  /\ Cell \in Nat \ {0}
  /\ Datas \subseteq Seq(Bytes)
  /\ Sizes \subseteq Nat
  /\ Alignments \subseteq Nat
  /\ MaxReads \in Nat

VARIABLES
  data,       \* Scanner::data
  offset,     \* Scanner::offset
  reads       \* history: what the successful calls read or skipped, in order

scanVars == <<data, offset, reads>>

-----------------------------------------------------------------------------
(* What a call on data d at offset o does: on Ok it reads from o and       *)
(* leaves the cursor at the end, on Err the cursor stays.                  *)
Ok(kind, from, to) == [ok |-> TRUE, kind |-> kind, from |-> from, to |-> to]
Err(o) == [ok |-> FALSE, kind |-> "none", from |-> o, to |-> o]

Remains(d, o) == Len(d) - o

ConsumeBytes(kind, d, o, n) ==
  IF o + n > Len(d) THEN Err(o) ELSE Ok(kind, o, o + n)

ConsumeBe32(d, o) == ConsumeBytes("number", d, o, Cell)
ConsumeBe64(d, o) == ConsumeBytes("number", d, o, 2 * Cell)
ConsumeData(d, o, size) == ConsumeBytes("data", d, o, size)

(* consume_address and consume_size: a number of so many cells.            *)
ConsumeCells(d, o, cells) ==
  CASE cells = 0 -> Ok("number", o, o)
    [] cells = 1 -> ConsumeBe32(d, o)
    [] cells = 2 -> ConsumeBe64(d, o)
    [] OTHER     -> Err(o)

Zeros(d, o) == {i \in o + 1 .. Len(d) : d[i] = "zero"}

(* The bytes up to the first zero, which is skipped.                       *)
ConsumeCstr(d, o) ==
  IF Zeros(d, o) = {} THEN Err(o)
  ELSE LET z == CHOOSE i \in Zeros(d, o) : \A j \in Zeros(d, o) : i <= j
       IN  IF \E i \in o + 1 .. z : d[i] = "invalid" THEN Err(o)
           ELSE Ok("string", o, z)

Shift(o, alignment) == IF alignment = 0 THEN 0 ELSE (-o) % alignment

(* Mistake: the cursor moves although there is no padding left.            *)
AlignForwardFirst(d, o, alignment) ==
  LET s == Shift(o, alignment)
  IN  IF s # 0 /\ o + s >= Len(d) THEN [Err(o) EXCEPT !.to = Len(d)]
      ELSE Ok("pad", o, o + s)

(* Padding up to the very end of the data is refused as well.              *)
AlignForward(d, o, alignment) ==
  LET s == Shift(o, alignment)
  IN  IF s # 0 /\ o + s >= Len(d) THEN Err(o) ELSE Ok("pad", o, o + s)

-----------------------------------------------------------------------------
ScanInit ==
  /\ data \in Datas
  /\ offset = 0
  /\ reads = <<>>

Call(result) ==
  /\ result.ok => Len(reads) < MaxReads
  /\ offset' = result.to
  /\ reads' = IF result.ok THEN Append(reads, result) ELSE reads
  /\ UNCHANGED data

ScanNext ==
  \/ Call(ConsumeBe32(data, offset))
  \/ Call(ConsumeBe64(data, offset))
  \/ \E cells \in 0 .. 3 : Call(ConsumeCells(data, offset, cells))
  \/ Call(ConsumeCstr(data, offset))
  \/ \E size \in Sizes : Call(ConsumeData(data, offset, size))
  \/ \E alignment \in Alignments : Call(AlignForward(data, offset, alignment))

ScanSpec == ScanInit /\ [][ScanNext]_scanVars
-----------------------------------------------------------------------------
(* The cursor never passes the end: remains subtracts it from the length.  *)
ScanTypeOK ==
  /\ data \in Seq(Bytes)
  /\ offset \in Nat /\ Remains(data, offset) >= 0
  /\ reads \in Seq([ok : {TRUE}, kind : {"number", "string", "data", "pad"},
                    from : Nat, to : Nat])

(* What was read and skipped, in order, is exactly the data before the     *)
(* cursor: no call skips or repeats bytes, and one that fails moves        *)
(* nothing, so that the caller can go on from where it was.                *)
Tiling ==
  /\ \A i \in DOMAIN reads :
       reads[i].from = IF i = 1 THEN 0 ELSE reads[i - 1].to
  /\ offset = IF reads = <<>> THEN 0 ELSE reads[Len(reads)].to

(* A string is read whole, with its one terminating zero and without bytes *)
(* that are not UTF-8, whatever was read before it.                        *)
StringsWhole ==
  \A r \in {reads[i] : i \in DOMAIN reads} :
    r.kind = "string" =>
      /\ r.from < r.to
      /\ data[r.to] = "zero"
      /\ \A i \in r.from + 1 .. r.to - 1 : data[i] = "char"

(* Padding that was skipped is followed by something: padding at the very  *)
(* end of the data is never skipped, it is an error.                       *)
PaddingInside ==
  \A r \in {reads[i] : i \in DOMAIN reads} :
    r.kind = "pad" /\ r.from # r.to => r.to < Len(data)

(* What the scanner has read is what is there, whatever calls have failed  *)
(* or succeeded before.                                                    *)
ReadsWhole == ScanTypeOK /\ Tiling /\ StringsWhole /\ PaddingInside
=============================================================================
