----------------------------- MODULE ListLemmas -----------------------------
(***************************************************************************)
(* Lemmas about the lists the kernel keeps, whatever they hold: what is in *)
(* a list, and in which order, after an element was pushed, popped or      *)
(* taken out of the middle.  At the end, lemmas about multiples, on which  *)
(* alignment rests.                                                        *)
(***************************************************************************)
EXTENDS Integers, SequencesExt, SequenceTheorems, FiniteSetTheorems,
        WellFoundedInduction, TLAPS

(* The least-number principle, for a set rather than a predicate.          *)
LEMMA LeastElement ==
  ASSUME NEW T \in SUBSET Nat, T # {}
  PROVE  \E n \in T : \A m \in T : n <= m
<1>. DEFINE Less == {ss \in Nat \X Nat : ss[1] < ss[2]}
<1>1. OpToRel(<, Nat) = Less
  BY DEF OpToRel
<1>2. IsWellFoundedOn(Less, Nat)
  BY <1>1, NatLessThanWellFounded
<1>. HIDE DEF Less
<1>3. PICK n \in T : \A m \in T : ~ (<<m, n>> \in Less)
  BY <1>2, WFMin
<1>4. ASSUME NEW m \in T PROVE n <= m
  <2>1. ~ (<<m, n>> \in Less)
    BY <1>3
  <2>. QED
    BY <2>1 DEF Less
<1>. QED
  BY <1>4

-----------------------------------------------------------------------------
(* The list operations, on lists without repetitions.                      *)

(* An element put in front of a list is the one element that it gains.     *)
LEMMA PushFront ==
  ASSUME NEW S, NEW list \in Seq(S), NEW p \in S
  PROVE  /\ Cons(p, list) \in Seq(S)
         /\ ToSet(Cons(p, list)) = {p} \cup ToSet(list)
         /\ IsInjective(list) /\ p \notin ToSet(list) => IsInjective(Cons(p, list))
<1>. DEFINE new == Cons(p, list)
<1>1. /\ new \in Seq(S)
      /\ Len(new) = Len(list) + 1
      /\ Len(list) \in Nat
      /\ new[1] = p
      /\ \A i \in 1 .. Len(list) : new[i + 1] = list[i]
  BY DEF Cons
<1>2. DOMAIN new = 1 .. Len(list) + 1 /\ DOMAIN list = 1 .. Len(list)
  BY <1>1
<1>. HIDE DEF new
<1>3. ASSUME NEW i \in DOMAIN new, i # 1
      PROVE  i - 1 \in DOMAIN list /\ new[i] = list[i - 1]
  <2>1. i - 1 \in 1 .. Len(list) /\ (i - 1) + 1 = i
    BY <1>1, <1>2, <1>3
  <2>2. new[(i - 1) + 1] = list[i - 1]
    BY <1>1, <2>1
  <2>. QED
    BY <1>2, <2>1, <2>2
<1>4. ToSet(new) = {p} \cup ToSet(list)
  <2>1. ToSet(new) \subseteq {p} \cup ToSet(list)
    BY <1>1, <1>3 DEF ToSet
  <2>2. p \in ToSet(new)
    BY <1>1, <1>2 DEF ToSet
  <2>3. \A i \in DOMAIN list : list[i] \in ToSet(new)
    BY <1>1, <1>2 DEF ToSet
  <2>. QED
    BY <2>1, <2>2, <2>3 DEF ToSet
<1>5. ASSUME IsInjective(list), p \notin ToSet(list) PROVE IsInjective(new)
  <2>1. \A i \in DOMAIN list : list[i] # p
    BY <1>5 DEF ToSet
  <2>2. SUFFICES ASSUME NEW i \in DOMAIN new, NEW j \in DOMAIN new, new[i] = new[j]
                 PROVE  i = j
    BY DEF IsInjective
  <2>3. CASE i = 1 \/ j = 1
    BY <1>1, <1>3, <2>1, <2>2, <2>3
  <2>4. CASE i # 1 /\ j # 1
    <3>1. i - 1 = j - 1
      BY <1>3, <1>5, <2>2, <2>4 DEF IsInjective
    <3>. QED
      BY <1>2, <1>1, <3>1
  <2>. QED
    BY <2>3, <2>4
<1>. QED
  BY <1>1, <1>4, <1>5 DEF new

(* What a pop from the front leaves of a list without repetitions.         *)
LEMMA PopFront ==
  ASSUME NEW S, NEW list \in Seq(S), list # <<>>, IsInjective(list)
  PROVE  /\ Head(list) \in ToSet(list)
         /\ Tail(list) \in Seq(S)
         /\ ToSet(Tail(list)) = ToSet(list) \ {Head(list)}
         /\ IsInjective(Tail(list))
<1>. DEFINE new == Tail(list)
<1>1. /\ new \in Seq(S)
      /\ Len(new) = Len(list) - 1
      /\ Len(list) \in Nat \ {0}
      /\ Head(list) = list[1]
      /\ \A i \in 1 .. Len(new) : new[i] = list[i + 1]
  BY HeadTailProperties, EmptySeq
<1>2. DOMAIN new = 1 .. Len(list) - 1 /\ DOMAIN list = 1 .. Len(list)
  BY <1>1
<1>. HIDE DEF new
<1>3. \A i \in DOMAIN new : i + 1 \in DOMAIN list /\ new[i] = list[i + 1] /\ i + 1 # 1
  BY <1>1, <1>2
<1>4. \A i \in DOMAIN list : i # 1 => i - 1 \in DOMAIN new /\ new[i - 1] = list[i]
  BY <1>1, <1>2
<1>5. 1 \in DOMAIN list
  BY <1>1, <1>2
<1>6. ToSet(new) = ToSet(list) \ {Head(list)}
  <2>1. \A i \in DOMAIN new : new[i] \in ToSet(list) \ {Head(list)}
    BY <1>1, <1>3, <1>5 DEF ToSet, IsInjective
  <2>2. \A i \in DOMAIN list : list[i] # Head(list) => list[i] \in ToSet(new)
    BY <1>1, <1>4 DEF ToSet
  <2>. QED
    BY <2>1, <2>2 DEF ToSet
<1>7. IsInjective(new)
  <2>1. SUFFICES ASSUME NEW i \in DOMAIN new, NEW j \in DOMAIN new, new[i] = new[j]
                 PROVE  i = j
    BY DEF IsInjective
  <2>2. i + 1 = j + 1
    BY <1>3, <2>1 DEF IsInjective
  <2>. QED
    BY <1>1, <1>2, <2>2
<1>. QED
  BY <1>1, <1>5, <1>6, <1>7 DEF new, ToSet

(* The element at one place is taken out.                                  *)
LEMMA RemoveAtOne ==
  ASSUME NEW S, NEW list \in Seq(S), NEW at \in DOMAIN list, IsInjective(list)
  PROVE  /\ RemoveAt(list, at) \in Seq(S)
         /\ ToSet(RemoveAt(list, at)) = ToSet(list) \ {list[at]}
         /\ IsInjective(RemoveAt(list, at))
         /\ Len(RemoveAt(list, at)) = Len(list) - 1
         /\ \A i \in 1 .. Len(list) - 1 :
              RemoveAt(list, at)[i] = IF i < at THEN list[i] ELSE list[i + 1]
<1>. DEFINE new == RemoveAt(list, at)
            p == list[at]
<1>1. /\ Len(list) \in Nat
      /\ DOMAIN list = 1 .. Len(list)
      /\ \A i \in 1 .. Len(list) : list[i] \in S
  OBVIOUS
<1>2. at \in DOMAIN list /\ list[at] = p
  OBVIOUS
<1>3. new = RemoveAt(list, at)
  OBVIOUS
<1>. HIDE DEF new, p
<1>. DEFINE before == SubSeq(list, 1, at - 1)
            after == SubSeq(list, at + 1, Len(list))
<1>4. /\ before \in Seq(S)
      /\ Len(before) = at - 1
      /\ \A i \in 1 .. at - 1 : before[i] = list[i]
  BY <1>1, <1>2, SubSeqProperties
<1>5. /\ after \in Seq(S)
      /\ Len(after) = Len(list) - at
      /\ \A i \in 1 .. Len(list) - at : after[i] = list[at + i]
  BY <1>1, <1>2, SubSeqProperties
<1>. HIDE DEF before, after
<1>6. /\ new \in Seq(S)
      /\ Len(new) = Len(list) - 1
      /\ \A i \in 1 .. Len(list) - 1 :
           new[i] = IF i <= at - 1 THEN before[i] ELSE after[i - (at - 1)]
  <2>1. new = before \o after
    BY <1>3 DEF RemoveAt, before, after
  <2>2. /\ new \in Seq(S)
        /\ Len(new) = Len(before) + Len(after)
        /\ \A i \in 1 .. Len(before) + Len(after) :
             new[i] = IF i <= Len(before) THEN before[i] ELSE after[i - Len(before)]
    BY <1>4, <1>5, <2>1, ConcatProperties
  <2>3. Len(before) + Len(after) = Len(list) - 1
    BY <1>1, <1>2, <1>4, <1>5
  <2>. QED
    BY <1>4, <2>2, <2>3
<1>. DEFINE old(i) == IF i < at THEN i ELSE i + 1
<1>7. \A i \in 1 .. Len(list) - 1 :
        old(i) \in DOMAIN list /\ old(i) # at /\ new[i] = list[old(i)]
  <2>1. ASSUME NEW i \in 1 .. Len(list) - 1
        PROVE  old(i) \in DOMAIN list /\ old(i) # at
    BY <1>1, <1>2
  <2>2. ASSUME NEW i \in 1 .. Len(list) - 1, i < at
        PROVE  new[i] = list[old(i)]
    BY <1>1, <1>2, <1>4, <1>6, <2>2
  <2>3. ASSUME NEW i \in 1 .. Len(list) - 1, ~ (i < at)
        PROVE  new[i] = list[old(i)]
    <3>1. i - (at - 1) \in 1 .. Len(list) - at /\ at + (i - (at - 1)) = i + 1
      BY <1>1, <1>2, <2>3
    <3>2. new[i] = after[i - (at - 1)] /\ ~ (i <= at - 1)
      BY <1>1, <1>2, <1>6, <2>3
    <3>. QED
      BY <1>5, <2>3, <3>1, <3>2
  <2>. QED
    BY <2>1, <2>2, <2>3
<1>8. \A i \in DOMAIN list : i # at => \E j \in 1 .. Len(list) - 1 : old(j) = i
  <2>1. ASSUME NEW i \in DOMAIN list, i < at
        PROVE  i \in 1 .. Len(list) - 1 /\ old(i) = i
    BY <1>1, <1>2, <2>1
  <2>2. ASSUME NEW i \in DOMAIN list, i > at
        PROVE  i - 1 \in 1 .. Len(list) - 1 /\ old(i - 1) = i
    BY <1>1, <1>2, <2>2
  <2>. QED
    BY <1>1, <1>2, <2>1, <2>2
<1>9. \A i, j \in 1 .. Len(list) - 1 : old(i) = old(j) => i = j
  BY <1>1, <1>2
<1>10. DOMAIN new = 1 .. Len(list) - 1
  BY <1>1, <1>2, <1>6
<1>. HIDE DEF old
<1>11. ToSet(new) = ToSet(list) \ {p}
  <2>1. \A i \in DOMAIN new : new[i] \in ToSet(list) \ {p}
    BY <1>2, <1>7, <1>10 DEF ToSet, IsInjective
  <2>2. \A i \in DOMAIN list : list[i] # p => list[i] \in ToSet(new)
    BY <1>2, <1>7, <1>8, <1>10 DEF ToSet
  <2>. QED
    BY <2>1, <2>2 DEF ToSet
<1>12. IsInjective(new)
  BY <1>7, <1>9, <1>10 DEF IsInjective
<1>. QED
  BY <1>6, <1>7, <1>11, <1>12 DEF new, old, p


(* RemoveFirst finds the one place of an element.                          *)
LEMMA RemoveFirstOne ==
  ASSUME NEW S, NEW list \in Seq(S), NEW p \in ToSet(list), IsInjective(list)
  PROVE  \E at \in DOMAIN list : list[at] = p /\ RemoveFirst(list, p) = RemoveAt(list, at)
<1>. DEFINE I == {i \in 1 .. Len(list) : list[i] = p}
            at == CHOOSE i \in I : \A j \in I : i <= j
<1>1. I # {} /\ I \in SUBSET Nat /\ DOMAIN list = 1 .. Len(list)
  BY DEF ToSet
<1>2. \E i \in I : \A j \in I : i <= j
  BY <1>1, LeastElement
<1>3. at \in I
  <2>1. \E i \in I : \A j \in I : i <= j
    BY <1>1, <1>2
  <2>. QED
    BY <2>1
<1>4. RemoveFirst(list, p) = RemoveAt(list, at)
  BY <1>1 DEF RemoveFirst, SelectInSeq, Min
<1>. QED
  BY <1>1, <1>3, <1>4

(* A removal takes out one element of a list and leaves it without         *)
(* repetitions.                                                            *)
LEMMA RemoveFirstList ==
  ASSUME NEW S, NEW list \in Seq(S), NEW p \in ToSet(list), IsInjective(list)
  PROVE  /\ RemoveFirst(list, p) \in Seq(S)
         /\ ToSet(RemoveFirst(list, p)) = ToSet(list) \ {p}
         /\ IsInjective(RemoveFirst(list, p))
BY RemoveFirstOne, RemoveAtOne

(* A list without repetitions is as long as the set of its elements.       *)
LEMMA LengthIsCardinality ==
  ASSUME NEW S, NEW list \in Seq(S), IsInjective(list)
  PROVE  IsFiniteSet(ToSet(list)) /\ Cardinality(ToSet(list)) = Len(list)
<1>1. Len(list) \in Nat /\ DOMAIN list = 1 .. Len(list)
  OBVIOUS
<1>2. list \in Bijection(1 .. Len(list), ToSet(list))
  BY <1>1 DEF Bijection, Injection, Surjection, ToSet, IsInjective
<1>3. ExistsBijection(1 .. Len(list), ToSet(list))
  BY <1>2 DEF ExistsBijection
<1>. QED
  BY <1>1, <1>3, FS_NatBijection, FS_CountingElements

-----------------------------------------------------------------------------
(* One element in the place of those from i to j - 1: with i = j it is     *)
(* inserted.                                                               *)
Splice(list, i, j, x) == SubSeq(list, 1, i - 1) \o <<x>> \o SubSeq(list, j, Len(list))

IsSplice(new, S, list, i, j, x) ==
  /\ new \in Seq(S)
  /\ Len(new) = Len(list) + i + 1 - j
  /\ \A n \in 1 .. i - 1 : new[n] = list[n]
  /\ new[i] = x
  /\ \A n \in j .. Len(list) : new[n + i + 1 - j] = list[n]

(* Splice replaces elements i to j - 1 of a list by x: what is where       *)
(* afterwards.                                                             *)
LEMMA SpliceList ==
  ASSUME NEW S, NEW list \in Seq(S), NEW i \in Nat, NEW j \in Nat, NEW x \in S,
         1 <= i, i <= j, j <= Len(list) + 1
  PROVE  IsSplice(Splice(list, i, j, x), S, list, i, j, x)
<1>0. PICK new : new = Splice(list, i, j, x)
  OBVIOUS
<1>. DEFINE before == SubSeq(list, 1, i - 1)
            after == SubSeq(list, j, Len(list))
<1>1. Len(list) \in Nat /\ \A n \in 1 .. Len(list) : list[n] \in S
  OBVIOUS
<1>2. /\ before \in Seq(S)
      /\ Len(before) = i - 1
      /\ \A n \in 1 .. i - 1 : before[n] = list[n]
  BY <1>1, SubSeqProperties
<1>3. /\ after \in Seq(S)
      /\ Len(after) = Len(list) - j + 1
      /\ \A n \in 1 .. Len(list) - j + 1 : after[n] = list[j + n - 1]
  BY <1>1, SubSeqProperties
<1>4. new = before \o <<x>> \o after
  BY <1>0 DEF Splice
<1>. HIDE DEF before, after
<1>5. /\ before \o <<x>> \in Seq(S)
      /\ Len(before \o <<x>>) = i
      /\ \A n \in 1 .. i - 1 : (before \o <<x>>)[n] = list[n]
      /\ (before \o <<x>>)[i] = x
  BY <1>2
<1>. DEFINE left == before \o <<x>>
<1>. HIDE DEF left
<1>6. /\ left \o after \in Seq(S)
      /\ Len(left \o after) = i + Len(after)
      /\ \A n \in 1 .. i + Len(after) :
           (left \o after)[n] = IF n <= i THEN left[n] ELSE after[n - i]
  <2>1. left \in Seq(S) /\ Len(left) = i
    BY <1>5 DEF left
  <2>2. /\ left \o after \in Seq(S)
        /\ Len(left \o after) = Len(left) + Len(after)
        /\ \A n \in 1 .. Len(left) + Len(after) :
             (left \o after)[n] = IF n <= Len(left) THEN left[n] ELSE after[n - Len(left)]
    BY <1>3, <2>1, ConcatProperties
  <2>. QED
    BY <2>1, <2>2
<1>7. new = left \o after
  BY <1>4 DEF left
<1>8. ASSUME NEW n \in j .. Len(list) PROVE new[n + i + 1 - j] = list[n]
  <2>1. /\ n + i + 1 - j \in 1 .. i + Len(after) /\ ~ (n + i + 1 - j <= i)
        /\ (n + i + 1 - j) - i = n - j + 1
        /\ n - j + 1 \in 1 .. Len(list) - j + 1 /\ j + (n - j + 1) - 1 = n
    BY <1>1, <1>3
  <2>2. new[n + i + 1 - j] = after[n - j + 1]
    BY <1>6, <1>7, <2>1
  <2>. QED
    BY <1>3, <2>1, <2>2
<1>9. /\ \A n \in 1 .. i - 1 : new[n] = list[n]
      /\ new[i] = x
  BY <1>1, <1>3, <1>5, <1>6, <1>7 DEF left
<1>10. new \in Seq(S) /\ Len(new) = Len(list) + i + 1 - j
  <2>1. new \in Seq(S) /\ Len(new) = i + Len(after)
    BY <1>6, <1>7, Zenon
  <2>2. i + Len(after) = Len(list) + i + 1 - j
    BY <1>1, <1>3
  <2>. QED
    BY <2>1, <2>2
<1>11. IsSplice(new, S, list, i, j, x)
  BY <1>8, <1>9, <1>10 DEF IsSplice
<1>. QED
  BY <1>0, <1>11, Zenon

(* A pass over n elements: what it has after i of them comes from what it  *)
(* had after i - 1.                                                        *)
IsPass(done, n, D, d, step) ==
  /\ done \in [0 .. n -> D]
  /\ done[0] = d
  /\ \A i \in 1 .. n : done[i] = step[i][done[i - 1]]

(* A pass over n steps exists: a recursive function has a value at every   *)
(* step.                                                                   *)
LEMMA PassExists ==
  ASSUME NEW n \in Nat, NEW D, NEW d \in D, NEW step \in [1 .. n -> [D -> D]]
  PROVE  \E done : IsPass(done, n, D, d, step)
<1>. DEFINE Done(m, f) == f[0] = d /\ \A i \in 1 .. m : f[i] = step[i][f[i - 1]]
            Bad == {m \in 0 .. n : ~ \E f \in [0 .. m -> D] : Done(m, f)}
<1>1. SUFFICES Bad = {}
  <2>1. n \in 0 .. n
    OBVIOUS
  <2>2. Bad = {} => \E f \in [0 .. n -> D] : Done(n, f)
    BY <2>1, Zenon
  <2>. QED
    BY <2>2, Zenon DEF IsPass
<1>2. SUFFICES ASSUME Bad # {} PROVE FALSE
  OBVIOUS
<1>3. PICK m \in Bad : \A k \in Bad : m <= k
  <2>1. Bad \in SUBSET Nat
    OBVIOUS
  <2>. HIDE DEF Bad
  <2>. QED
    BY <1>2, <2>1, LeastElement
<1>4. m # 0
  <2>1. SUFFICES ASSUME m = 0 PROVE FALSE
    OBVIOUS
  <2>2. [k \in 0 .. 0 |-> d] \in [0 .. m -> D] /\ Done(m, [k \in 0 .. 0 |-> d])
    BY <2>1
  <2>. QED
    BY <2>2
<1>5. m - 1 \in 0 .. n /\ m - 1 \notin Bad /\ m \in 1 .. n
  BY <1>3, <1>4
<1>6. PICK f \in [0 .. m - 1 -> D] : Done(m - 1, f)
  BY <1>5
<1>. DEFINE g == [k \in 0 .. m |-> IF k = m THEN step[m][f[m - 1]] ELSE f[k]]
<1>7. f[m - 1] \in D /\ step[m][f[m - 1]] \in D
  BY <1>5, <1>6
<1>8. g \in [0 .. m -> D]
  BY <1>5, <1>6, <1>7
<1>9. Done(m, g)
  <2>1. g[0] = d
    BY <1>5, <1>6
  <2>2. ASSUME NEW i \in 1 .. m PROVE g[i] = step[i][g[i - 1]]
    <3>1. i - 1 \in 0 .. m - 1 /\ g[i - 1] = f[i - 1]
      BY <1>5
    <3>2. CASE i = m
      BY <1>5, <3>1, <3>2
    <3>3. CASE i # m
      BY <1>5, <1>6, <3>1, <3>3
    <3>. QED
      BY <3>2, <3>3
  <2>. QED
    BY <2>1, <2>2
<1>. QED
  BY <1>3, <1>8, <1>9

-----------------------------------------------------------------------------
(* Lists of lists, joined.                                                 *)

IsFlat(f, s, S) ==
  /\ f \in [0 .. Len(s) -> Seq(S)]
  /\ f[0] = <<>>
  /\ \A i \in 1 .. Len(s) : f[i] = f[i - 1] \o s[i]

(* FlattenSeq is a pass over a list of lists that appends one list at a    *)
(* time.                                                                   *)
LEMMA FlattenIsFlat ==
  ASSUME NEW S, NEW s \in Seq(Seq(S))
  PROVE  \E f : IsFlat(f, s, S) /\ FlattenSeq(s) = f[Len(s)]
<1>1. PICK n : n = Len(s)
  OBVIOUS
<1>2. n \in Nat /\ \A i \in 1 .. n : s[i] \in Seq(S)
  BY <1>1
<1>. DEFINE step == [i \in 1 .. n |-> [d \in Seq(S) |-> d \o s[i]]]
<1>3. step \in [1 .. n -> [Seq(S) -> Seq(S)]] /\ <<>> \in Seq(S)
  BY <1>2
<1>4. PICK f \in [0 .. n -> Seq(S)] : f[0] = <<>> /\ \A i \in 1 .. n : f[i] = step[i][f[i - 1]]
  <2>. HIDE DEF step
  <2>1. \E f : IsPass(f, n, Seq(S), <<>>, step)
    BY <1>2, <1>3, PassExists
  <2>. QED
    BY <2>1, Zenon DEF IsPass
<1>5. \A i \in 1 .. n : f[i] = f[i - 1] \o s[i]
  <2>1. ASSUME NEW i \in 1 .. n PROVE f[i] = f[i - 1] \o s[i]
    <3>1. i - 1 \in 0 .. n /\ f[i - 1] \in Seq(S)
      BY <1>2
    <3>. QED
      BY <1>4, <3>1
  <2>. QED
    BY <2>1
<1>6. CASE n = 0
  <2>1. IsFlat(f, s, S)
    BY <1>1, <1>4, <1>5 DEF IsFlat
  <2>2. s = <<>>
    BY <1>1, <1>6, EmptySeq
  <2>3. FlattenSeq(s) = <<>>
    BY <1>1, <1>6, <2>2, Zenon DEF FlattenSeq
  <2>. QED
    BY <1>1, <1>4, <1>6, <2>1, <2>3
<1>7. CASE n # 0
  <2>. DEFINE Join(g) == g = [i \in 1 .. n |-> IF i = 1 THEN s[i] ELSE g[i - 1] \o s[i]]
              flatten == CHOOSE g : Join(g)
              h == [i \in 1 .. n |-> f[i]]
  <2>1. f[1] = s[1]
    <3>1. 1 \in 1 .. n /\ f[1 - 1] = <<>>
      BY <1>2, <1>4, <1>7
    <3>2. f[1] = <<>> \o s[1] /\ s[1] \in Seq(S)
      BY <1>2, <1>5, <3>1
    <3>. QED
      BY <3>2, ConcatEmptySeq
  <2>2. ASSUME NEW i \in 1 .. n
        PROVE  h[i] = IF i = 1 THEN s[i] ELSE h[i - 1] \o s[i]
    <3>1. CASE i = 1
      BY <2>1, <3>1
    <3>2. CASE i # 1
      <4>1. i - 1 \in 1 .. n
        BY <1>2, <3>2
      <4>. QED
        BY <1>5, <3>2, <4>1
    <3>. QED
      BY <3>1, <3>2
  <2>3. Join(h)
    BY <2>2
  <2>4. Join(flatten)
    BY <2>3
  <2>5. FlattenSeq(s) = flatten[n]
    BY <1>1, <1>7 DEF FlattenSeq
  <2>. HIDE DEF flatten
  <2>6. \A i \in 1 .. n : flatten[i] = IF i = 1 THEN s[i] ELSE flatten[i - 1] \o s[i]
    BY <2>4
  <2>. DEFINE Bad == {i \in 1 .. n : flatten[i] # f[i]}
  <2>7. Bad = {}
    <3>1. SUFFICES ASSUME Bad # {} PROVE FALSE
      OBVIOUS
    <3>2. PICK i \in Bad : \A j \in Bad : i <= j
      <4>1. Bad \in SUBSET Nat
        OBVIOUS
      <4>. HIDE DEF Bad
      <4>. QED
        BY <3>1, <4>1, LeastElement
    <3>3. i \in 1 .. n /\ i # 1
      BY <2>1, <2>6, <3>2
    <3>4. i - 1 \in 1 .. n /\ i - 1 \notin Bad
      BY <1>2, <3>2, <3>3
    <3>5. flatten[i - 1] = f[i - 1]
      BY <3>4
    <3>. QED
      BY <1>5, <2>6, <3>2, <3>3, <3>5
  <2>8. n \in 1 .. n
    BY <1>2, <1>7
  <2>. QED
    BY <1>1, <1>4, <1>5, <2>5, <2>7, <2>8, ZenonT(30) DEF IsFlat
<1>. QED
  BY <1>6, <1>7

(* Two such passes over the same lists end with the same list.             *)
LEMMA FlatUnique ==
  ASSUME NEW S, NEW s \in Seq(Seq(S)), NEW f, NEW g, IsFlat(f, s, S), IsFlat(g, s, S)
  PROVE  f[Len(s)] = g[Len(s)]
<1>. DEFINE Bad == {i \in 0 .. Len(s) : f[i] # g[i]}
<1>1. Len(s) \in Nat
  OBVIOUS
<1>2. SUFFICES ASSUME Bad # {} PROVE FALSE
  BY <1>1
<1>3. PICK i \in Bad : \A j \in Bad : i <= j
  <2>1. Bad \in SUBSET Nat
    OBVIOUS
  <2>. HIDE DEF Bad
  <2>. QED
    BY <1>2, <2>1, LeastElement
<1>4. i \in 1 .. Len(s) /\ i - 1 \in 0 .. Len(s) /\ i - 1 \notin Bad
  BY <1>1, <1>3 DEF IsFlat
<1>. QED
  BY <1>3, <1>4 DEF IsFlat

(* Joining the lists of two lists of lists is joining what each of them    *)
(* joins to.                                                               *)
LEMMA FlattenConcat ==
  ASSUME NEW S, NEW s \in Seq(Seq(S)), NEW t \in Seq(Seq(S))
  PROVE  /\ FlattenSeq(s) \in Seq(S)
         /\ FlattenSeq(s \o t) = FlattenSeq(s) \o FlattenSeq(t)
<1>1. PICK f : IsFlat(f, s, S) /\ FlattenSeq(s) = f[Len(s)]
  BY FlattenIsFlat
<1>2. PICK g : IsFlat(g, t, S) /\ FlattenSeq(t) = g[Len(t)]
  BY FlattenIsFlat
<1>3. PICK n, m : n = Len(s) /\ m = Len(t)
  OBVIOUS
<1>4. /\ n \in Nat /\ m \in Nat
      /\ f \in [0 .. n -> Seq(S)] /\ g \in [0 .. m -> Seq(S)]
      /\ f[n] \in Seq(S)
  BY <1>1, <1>2, <1>3 DEF IsFlat
<1>5. /\ s \o t \in Seq(Seq(S)) /\ Len(s \o t) = n + m
      /\ \A i \in 1 .. n : (s \o t)[i] = s[i]
      /\ \A i \in n + 1 .. n + m : (s \o t)[i] = t[i - n]
      /\ \A i \in 1 .. m : t[i] \in Seq(S)
  BY <1>3
<1>. DEFINE h == [i \in 0 .. n + m |-> IF i <= n THEN f[i] ELSE f[n] \o g[i - n]]
<1>6. h \in [0 .. n + m -> Seq(S)]
  <2>1. ASSUME NEW i \in 0 .. n + m, ~ (i <= n) PROVE f[n] \o g[i - n] \in Seq(S)
    <3>1. i - n \in 0 .. m /\ g[i - n] \in Seq(S)
      BY <1>4, <2>1
    <3>. QED
      BY <1>4, <3>1
  <2>2. \A i \in 0 .. n + m : i <= n => f[i] \in Seq(S)
    BY <1>4
  <2>. QED
    BY <2>1, <2>2
<1>7. h[0] = <<>>
  BY <1>1, <1>4 DEF IsFlat
<1>8. ASSUME NEW i \in 1 .. n + m PROVE h[i] = h[i - 1] \o (s \o t)[i]
  <2>1. CASE i <= n
    <3>1. i \in 1 .. n /\ h[i] = f[i] /\ h[i - 1] = f[i - 1]
      BY <1>4, <2>1
    <3>2. f[i] = f[i - 1] \o s[i]
      BY <1>1, <1>3, <3>1 DEF IsFlat
    <3>. QED
      BY <1>5, <3>1, <3>2
  <2>2. CASE ~ (i <= n)
    <3>1. /\ i - n \in 1 .. m /\ i \in n + 1 .. n + m /\ (i - n) - 1 = (i - 1) - n
          /\ i - n - 1 \in 0 .. m
      BY <1>4, <2>2
    <3>2. g[i - n] = g[(i - 1) - n] \o t[i - n] /\ g[(i - 1) - n] \in Seq(S) /\ t[i - n] \in Seq(S)
      BY <1>2, <1>3, <1>4, <1>5, <3>1 DEF IsFlat
    <3>3. h[i] = f[n] \o g[i - n]
      BY <1>4, <2>2, SMTT(30)
    <3>4. h[i - 1] = f[n] \o g[(i - 1) - n]
      <4>1. CASE i - 1 = n
        <5>1. g[(i - 1) - n] = <<>> /\ h[i - 1] = f[n]
          BY <1>2, <1>4, <4>1 DEF IsFlat
        <5>2. f[n] \o <<>> = f[n]
          BY <1>4, ConcatEmptySeq
        <5>. QED
          BY <5>1, <5>2, Zenon
      <4>2. CASE i - 1 # n
        BY <1>4, <2>2, <4>2
      <4>. QED
        BY <4>1, <4>2
    <3>5. (f[n] \o g[(i - 1) - n]) \o t[i - n] = f[n] \o (g[(i - 1) - n] \o t[i - n])
      <4>1. f[n] \in Seq(S) /\ g[(i - 1) - n] \in Seq(S) /\ t[i - n] \in Seq(S)
        BY <1>4, <3>2, Zenon
      <4>2. \A x, y, z \in Seq(S) : (x \o y) \o z = x \o (y \o z)
        BY ConcatAssociative, SMTT(30)
      <4>. QED
        BY <4>1, <4>2, Zenon
    <3>6. (s \o t)[i] = t[i - n]
      BY <1>5, <3>1
    <3>. QED
      BY <3>2, <3>3, <3>4, <3>5, <3>6, Zenon
  <2>. QED
    BY <2>1, <2>2
<1>9. IsFlat(h, s \o t, S)
  <2>. HIDE DEF h
  <2>. QED
    BY <1>5, <1>6, <1>7, <1>8 DEF IsFlat
<1>10. FlattenSeq(s \o t) = h[n + m]
  <2>1. PICK e : IsFlat(e, s \o t, S) /\ FlattenSeq(s \o t) = e[Len(s \o t)]
    BY <1>5, FlattenIsFlat
  <2>2. e[Len(s \o t)] = h[Len(s \o t)]
    BY <1>5, <1>9, <2>1, FlatUnique
  <2>. QED
    BY <1>5, <2>1, <2>2
<1>11. h[n + m] = f[n] \o g[m]
  <2>1. CASE m = 0
    <3>1. g[m] = <<>> /\ h[n + m] = f[n]
      BY <1>2, <1>4, <2>1 DEF IsFlat
    <3>. QED
      BY <1>4, <3>1, SMTT(30)
  <2>2. CASE m # 0
    BY <1>4, <2>2
  <2>. QED
    BY <2>1, <2>2
<1>. QED
  BY <1>1, <1>2, <1>3, <1>4, <1>10, <1>11

(* A single list, joined, is itself.                                       *)
LEMMA FlattenOne ==
  ASSUME NEW S, NEW x \in Seq(S)
  PROVE  FlattenSeq(<<x>>) = x
<1>1. <<x>> \in Seq(Seq(S)) /\ Len(<<x>>) = 1 /\ <<x>>[1] = x
  OBVIOUS
<1>2. PICK f : IsFlat(f, <<x>>, S) /\ FlattenSeq(<<x>>) = f[1]
  BY <1>1, FlattenIsFlat
<1>3. f[1] = f[1 - 1] \o x /\ f[0] = <<>>
  <2>1. 1 \in 1 .. Len(<<x>>)
    BY <1>1
  <2>. QED
    BY <1>1, <1>2, <2>1, Zenon DEF IsFlat
<1>4. f[1] = <<>> \o x
  BY <1>3
<1>. QED
  BY <1>2, <1>4, ConcatEmptySeq

-----------------------------------------------------------------------------
(* Multiples of a number.                                                  *)

(* A product of naturals is one, and grows with its factors.               *)
LEMMA Products ==
  ASSUME NEW a \in Nat, NEW b \in Nat, NEW c \in Nat, a <= b
  PROVE  a * c \in Nat /\ a * c <= b * c
<1>1. a * c \in Nat /\ (b - a) * c >= 0
  OBVIOUS
<1>2. b * c = a * c + (b - a) * c
  OBVIOUS
<1>. QED
  BY <1>1, <1>2

(* Rounding down.                                                          *)
LEMMA Down ==
  ASSUME NEW p \in Nat \ {0}, NEW x \in Nat
  PROVE  /\ x \div p \in Nat /\ (x \div p) * p \in Nat
         /\ (x \div p) * p <= x /\ x < (x \div p) * p + p
         /\ \A k \in Nat : k <= x \div p <=> k * p <= x
<1>. PICK q, z : q = x \div p /\ z = (x \div p) * p
  OBVIOUS
<1>1. q \in Nat /\ p * q <= x /\ x < p * q + p
  <2>1. q \in Nat
    OBVIOUS
  <2>2. p * q <= x
    OBVIOUS
  <2>3. x < p * q + p
    OBVIOUS
  <2>. QED
    BY <2>1, <2>2, <2>3
<1>2. z = q * p /\ q * p = p * q
  BY <1>1
<1>3. ASSUME NEW k \in Nat PROVE k <= q <=> k * p <= x
  <2>1. ASSUME k <= q PROVE k * p <= x
    <3>1. k * p \in Nat /\ k * p <= q * p
      BY <1>1, <2>1, Products
    <3>. QED
      BY <1>1, <1>2, <3>1
  <2>2. ASSUME q + 1 <= k PROVE x < k * p
    <3>1. (q + 1) * p \in Nat /\ (q + 1) * p <= k * p
      BY <1>1, <2>2, Products
    <3>2. (q + 1) * p = p * q + p
      BY <1>1
    <3>3. k * p \in Nat
      BY Products
    <3>. QED
      BY <1>1, <3>1, <3>2, <3>3
  <2>3. k * p \in Nat
    BY Products
  <2>. QED
    BY <1>1, <2>1, <2>2, <2>3
<1>. QED
  BY <1>1, <1>2, <1>3

(* A multiple.                                                             *)
LEMMA Multiples ==
  ASSUME NEW p \in Nat \ {0}, NEW k \in Nat
  PROVE  (k * p) % p = 0 /\ (k * p) \div p = k
<1>1. (k * p) \div p = k
  <2>. PICK x : x = k * p
    OBVIOUS
  <2>0. x \in Nat
    BY Products
  <2>1. x \div p \in Nat /\ (k <= x \div p <=> k * p <= x) /\ (k + 1 <= x \div p <=> (k + 1) * p <= x)
    <3>1. k + 1 \in Nat
      OBVIOUS
    <3>. QED
      BY <2>0, <3>1, Down
  <2>2. (k + 1) * p = x + p
    OBVIOUS
  <2>. QED
    BY <2>0, <2>1, <2>2
<1>2. (k * p) % p = 0
  OBVIOUS
<1>. QED
  BY <1>1, <1>2

(* A number whose remainder is zero is a multiple.                         *)
LEMMA IsMultiple ==
  ASSUME NEW p \in Nat \ {0}, NEW x \in Nat, x % p = 0
  PROVE  x \div p \in Nat /\ (x \div p) * p = x
<1>1. x \div p \in Nat
  OBVIOUS
<1>2. p * (x \div p) + (x % p) = x
  OBVIOUS
<1>. PICK k : k = x \div p
  OBVIOUS
<1>3. p * k + 0 = x /\ k \in Nat
  BY <1>1, <1>2
<1>. QED
  BY <1>3

(* Between two multiples of a number there is room for it.                 *)
LEMMA NextMultiple ==
  ASSUME NEW p \in Nat \ {0}, NEW x \in Nat, NEW y \in Nat, x % p = 0, y % p = 0
  PROVE  /\ x < y => x + p <= y
         /\ (x + p) % p = 0
         /\ x < p => x = 0
<1>. PICK q, r : q = x \div p /\ r = y \div p
  OBVIOUS
<1>1. q \in Nat /\ r \in Nat /\ q * p = x /\ r * p = y
  BY IsMultiple
<1>2. ASSUME x < y PROVE x + p <= y
  <2>1. q + 1 <= r
    <3>1. ASSUME r <= q PROVE FALSE
      <4>1. r * p <= q * p
        BY <1>1, <3>1, Products
      <4>. QED
        BY <1>1, <1>2, <4>1
    <3>. QED
      BY <1>1, <3>1
  <2>2. (q + 1) * p <= r * p
    BY <1>1, <2>1, Products
  <2>3. (q + 1) * p = q * p + p
    BY <1>1
  <2>. QED
    BY <1>1, <2>2, <2>3
<1>3. (x + p) % p = 0
  <2>1. (q + 1) * p = x + p
    BY <1>1
  <2>2. ((q + 1) * p) % p = 0
    BY <1>1, Multiples
  <2>. QED
    BY <2>1, <2>2
<1>4. ASSUME x < p PROVE x = 0
  <2>1. x % p = x
    BY <1>4
  <2>. QED
    BY <2>1
<1>. QED
  BY <1>2, <1>3, <1>4
=============================================================================
