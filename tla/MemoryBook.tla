----------------------------- MODULE MemoryBook -----------------------------
(***************************************************************************)
(* What a map of physical memory promises, address by address: every unit  *)
(* is unknown, or free or reserved memory of one type.  Memory never       *)
(* changes its type, reserved memory is never free again, and allocated    *)
(* memory was free and regular and is reserved from then on.               *)
(***************************************************************************)
EXTENDS Integers

CONSTANTS
  Limit,      \* addresses are 0 .. Limit - 1
  NoMemory    \* what the book says of a unit nobody told it about

VARIABLES
  book,       \* book[u]: NoMemory, or the type and status of unit u
  held        \* blocks <<address, size>> that were allocated

bookVars == <<book, held>>

BookUnits == 0 .. Limit - 1
BookTypes == {"Regular", "NonRegular"}
Entry == BookTypes \X {"Free", "Reserved"}

BookInit ==
  /\ book = [u \in BookUnits |-> NoMemory]
  /\ held = {}

Write(b, e, t, st) ==
  book' = [u \in BookUnits |-> IF u \in b .. e - 1 THEN <<t, st>> ELSE book[u]]

(* The caller describes [b, e) as free memory, or reserves it.             *)
Describe(b, e, t, st) ==
  /\ \A u \in b .. e - 1 :
       book[u] \in {NoMemory, <<t, "Free">>} \cup
                   (IF st = "Reserved" THEN {<<t, "Reserved">>} ELSE {})
  /\ Write(b, e, t, st)
  /\ UNCHANGED held

(* The caller is given the block of the given size at address a.           *)
Allocate(a, size) ==
  /\ \A u \in a .. a + size - 1 : u \in BookUnits /\ book[u] = <<"Regular", "Free">>
  /\ Write(a, a + size, "Regular", "Reserved")
  /\ held' = held \cup {<<a, size>>}

BookNext ==
  \/ \E b, e \in 0 .. Limit, t \in BookTypes, st \in {"Free", "Reserved"} :
       Describe(b, e, t, st)
  \/ \E a, size \in 0 .. Limit : Allocate(a, size)

BookSpec == BookInit /\ [][BookNext]_bookVars
=============================================================================
