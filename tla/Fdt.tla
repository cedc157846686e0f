-------------------------------- MODULE Fdt --------------------------------
(***************************************************************************)
(* The way of the parser of flattened device trees up to the structure     *)
(* block, which module FdtNodes is about (parse, parse_header and          *)
(* parse_reserved of kernel/devicetree/src/fdt.rs).  Module MemoryNodes    *)
(* goes on from here.                                                      *)
(*                                                                         *)
(* The unit is the cell of four bytes: a 32-bit number is one cell, a      *)
(* 64-bit one is two, and every offset is a number of cells.               *)
(***************************************************************************)
EXTENDS Integers, Sequences

CONSTANTS
  Blobs,        \* what is parsed: sequences of numbers
  Magic,        \* 0xd00dfeed
  SpecVersion   \* DEVICE_TREE_SPEC_VERSION

ASSUME BlobAssumption == Blobs \subseteq Seq(Nat) /\ SpecVersion \in Nat

VARIABLES
  fdt,        \* the blob
  phase,      \* what parse does next, or how it ended
  rsvOffset,  \* the scanner of the reserved memory block
  reserved    \* the ranges read so far: pairs <<address, size>>

blob == <<fdt, rsvOffset, reserved>>

Scan == INSTANCE Scanner WITH
  Cell <- 1, Datas <- {<<>>}, Sizes <- {}, Alignments <- {}, MaxReads <- 0,
  data <- <<>>, offset <- 0, reads <- <<>>

Fields == <<"magic", "totalsize", "off_dt_struct", "off_dt_strings", "off_mem_rsvmap",
            "version", "last_comp_version", "boot_cpuid_phys", "size_dt_strings",
            "size_dt_struct">>

header == [f \in {Fields[i] : i \in DOMAIN Fields} |->
             fdt[CHOOSE i \in DOMAIN Fields : Fields[i] = f]]

-----------------------------------------------------------------------------
ParseInit ==
  /\ fdt \in Blobs
  /\ phase = "header"
  /\ rsvOffset = 0
  /\ reserved = <<>>

Goto(next) == phase' = next /\ UNCHANGED blob

HeaderShort ==
  /\ phase = "header"
  /\ Len(fdt) < Len(Fields)
  /\ Goto("error")

HeaderRead ==
  /\ phase = "header"
  /\ Len(fdt) >= Len(Fields)
  /\ Goto("check")

Supported ==
  /\ header.magic = Magic
  /\ header.last_comp_version <= SpecVersion
  /\ header.totalsize <= Len(fdt)

CheckHeader ==
  /\ phase = "check"
  /\ Goto(IF Supported THEN "slice_reserved" ELSE "error")

(* A slice that begins beyond the end of the blob is a panic.              *)
SliceReserved ==
  /\ phase = "slice_reserved"
  /\ Goto(IF header.off_mem_rsvmap <= Len(fdt) THEN "reserved" ELSE "panicked")

ReservedBlock == SubSeq(fdt, header.off_mem_rsvmap + 1, Len(fdt))
RangeAddress == Scan!ConsumeBe64(ReservedBlock, rsvOffset)
RangeSize == Scan!ConsumeBe64(ReservedBlock, RangeAddress.to)
Number(read) == SubSeq(ReservedBlock, read.from + 1, read.to)
Zero == <<0, 0>>

(* Mistake: a range without an address, or of no size, ends the block.     *)
TerminatorEither == Number(RangeAddress) = Zero \/ Number(RangeSize) = Zero
Terminator == Number(RangeAddress) = Zero /\ Number(RangeSize) = Zero

ReservedShort ==
  /\ phase = "reserved"
  /\ ~ RangeAddress.ok \/ ~ RangeSize.ok
  /\ Goto("error")

ReservedRange ==
  /\ phase = "reserved"
  /\ RangeAddress.ok /\ RangeSize.ok
  /\ ~ Terminator
  /\ reserved' = Append(reserved, <<Number(RangeAddress), Number(RangeSize)>>)
  /\ rsvOffset' = RangeSize.to
  /\ UNCHANGED <<fdt, phase>>

ReservedEnd ==
  /\ phase = "reserved"
  /\ RangeAddress.ok /\ RangeSize.ok
  /\ Terminator
  /\ Goto("slice_structs")

(* So is one that ends there.                                              *)
SliceStructs ==
  /\ phase = "slice_structs"
  /\ Goto(IF header.off_dt_struct + header.size_dt_struct <= Len(fdt)
          THEN "slice_strings" ELSE "panicked")

SliceStrings ==
  /\ phase = "slice_strings"
  /\ Goto(IF header.off_dt_strings + header.size_dt_strings <= Len(fdt)
          THEN "nodes" ELSE "panicked")

ParseStep ==
  \/ HeaderShort \/ HeaderRead \/ CheckHeader
  \/ SliceReserved \/ ReservedShort \/ ReservedRange \/ ReservedEnd
  \/ SliceStructs \/ SliceStrings

-----------------------------------------------------------------------------
(* The scanner stands behind the ranges that were read, within the block.  *)
FdtTypeOK ==
  /\ rsvOffset = 4 * Len(reserved)
  /\ phase = "reserved" => Scan!Remains(ReservedBlock, rsvOffset) >= 0
  /\ \A i \in DOMAIN reserved : reserved[i] \in Seq(Nat) \X Seq(Nat)

(* The entries of the block up to the first pair of zeros, were they read  *)
(* straight from the blob.                                                 *)
Entry(k) == SubSeq(ReservedBlock, 4 * k + 1, 4 * k + 4)
Terminated(k) ==
  /\ 4 * k + 4 <= Len(ReservedBlock)
  /\ Entry(k) = Zero \o Zero
  /\ \A j \in 0 .. k - 1 : Entry(j) # Zero \o Zero

(* The bounds of the blocks are not checked, but the total size is.        *)
Contained ==
  /\ header.off_mem_rsvmap <= header.totalsize
  /\ header.off_dt_struct + header.size_dt_struct <= header.totalsize
  /\ header.off_dt_strings + header.size_dt_strings <= header.totalsize
=============================================================================
