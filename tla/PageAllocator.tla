--------------------------- MODULE PageAllocator ----------------------------
(***************************************************************************)
(* What a zone of pages promises its callers, with no lists, flags or      *)
(* orders: every page of the zone is waiting to be released by the boot    *)
(* code, available, or part of exactly one block that a caller holds; an   *)
(* allocation takes an aligned block of available pages, and a free gives  *)
(* back exactly the block that was taken.                                  *)
(***************************************************************************)
EXTENDS Buddy

VARIABLES
  waiting,    \* usable pages the boot code has not handed over yet
  avail,      \* pages that may be allocated
  held        \* blocks <<first page, order>> that callers hold

pagesVars == <<waiting, avail, held>>

PagesInit ==
  /\ waiting \in SUBSET Frames
  /\ avail = {}
  /\ held = {}

(* Boot hands over a block of usable pages.                                *)
Release(p, o) ==
  /\ Aligned(p, o)
  /\ Block(p, o) \subseteq waiting
  /\ waiting' = waiting \ Block(p, o)
  /\ avail' = avail \cup Block(p, o)
  /\ UNCHANGED held

(* A caller is given an aligned block; nothing is, before boot is done.    *)
Take(p, o) ==
  /\ waiting = {}
  /\ Aligned(p, o)
  /\ Block(p, o) \subseteq avail
  /\ avail' = avail \ Block(p, o)
  /\ held' = held \cup {<<p, o>>}
  /\ UNCHANGED waiting

(* A caller gives a block back.                                            *)
Give(p, o) ==
  /\ <<p, o>> \in held
  /\ avail' = avail \cup Block(p, o)
  /\ held' = held \ {<<p, o>>}
  /\ UNCHANGED waiting

PagesNext ==
  \E p \in Frames, o \in Orders : Release(p, o) \/ Take(p, o) \/ Give(p, o)

PagesSpec == PagesInit /\ [][PagesNext]_pagesVars
=============================================================================
