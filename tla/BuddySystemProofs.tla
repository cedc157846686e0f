-------------------------- MODULE BuddySystemProofs -------------------------
(***************************************************************************)
(* Machine-checked proofs about BuddySystem, for every zone and every      *)
(* number of levels.                                                       *)
(***************************************************************************)
EXTENDS BuddySystem, BuddyLemmas

-----------------------------------------------------------------------------
(* The lists.                                                              *)

(* What is in the list at position i; null is before and behind it.        *)
At(s, i) == IF i \in DOMAIN s THEN s[i] ELSE null

(* The links are those of the sequences items[l] of pages.                 *)
Threads(items, nx, pv, hd, tl) ==
  /\ nx \in [Frames -> Frames \cup {null}] /\ pv \in [Frames -> Frames \cup {null}]
  /\ hd \in [Orders -> Frames \cup {null}] /\ tl \in [Orders -> Frames \cup {null}]
  /\ items \in [Orders -> Seq(Frames)]
  /\ \A l \in Orders : IsInjective(items[l])
  /\ \A k, l \in Orders : k # l => ToSet(items[k]) \cap ToSet(items[l]) = {}
  /\ \A l \in Orders : hd[l] = At(items[l], 1) /\ tl[l] = At(items[l], Len(items[l]))
  /\ \A l \in Orders : \A i \in DOMAIN items[l] :
       /\ nx[items[l][i]] = At(items[l], i + 1)
       /\ pv[items[l][i]] = At(items[l], i - 1)

(* Following the links from the first page of a list meets the list.       *)
LEMMA WalkIs ==
  ASSUME NEW s \in Seq(Frames), Len(s) <= Cardinality(Frames), Cardinality(Frames) \in Nat,
         NEW first, first = At(s, 1),
         NEW link, \A i \in DOMAIN s : link[s[i]] = At(s, i + 1)
  PROVE  FreeList!Walk(first, link) = s
<1>. DEFINE n == Cardinality(Frames)
            Step1(f, k) == IF k = 0 THEN first ELSE IF f[k - 1] = null THEN null ELSE link[f[k - 1]]
            met == [k \in 0 .. n |-> At(s, k + 1)]
<1>1. /\ n \in Nat /\ Len(s) \in 0 .. n /\ DOMAIN s = 1 .. Len(s)
      /\ \A i \in DOMAIN s : s[i] # null
      /\ s = [k \in 1 .. Len(s) |-> s[k]]
  BY NullAssumption
<1>. HIDE DEF n
<1>2. \A k \in 0 .. n : met[k] = Step1(met, k)
  <2>1. SUFFICES ASSUME NEW k \in 0 .. n PROVE met[k] = Step1(met, k)
    OBVIOUS
  <2>2. CASE k = 0
    BY <1>1, <2>2
  <2>3. CASE k # 0
    <3>1. k - 1 \in 0 .. n /\ met[k - 1] = At(s, k) /\ met[k] = At(s, k + 1)
      BY <1>1, <2>3
    <3>2. CASE k \in DOMAIN s
      BY <1>1, <2>3, <3>1, <3>2 DEF At
    <3>3. CASE k \notin DOMAIN s
      <4>1. k + 1 \notin DOMAIN s
        BY <1>1, <2>3, <3>3
      <4>. QED
        BY <2>3, <3>1, <3>3, <4>1 DEF At
    <3>. QED
      BY <3>2, <3>3
  <2>. QED
    BY <2>2, <2>3
<1>3. ASSUME NEW g, g = [k \in 0 .. n |-> Step1(g, k)] PROVE g = met
  <2>. DEFINE Bad == {k \in 0 .. n : g[k] # met[k]}
  <2>1. SUFFICES ASSUME Bad # {} PROVE FALSE
    <3>1. Bad = {} => \A k \in 0 .. n : g[k] = met[k]
      OBVIOUS
    <3>2. g = [k \in 0 .. n |-> g[k]]
      BY <1>3
    <3>. QED
      BY <3>1, <3>2
  <2>2. PICK k \in Bad : \A m \in Bad : k <= m
    <3>1. Bad \in SUBSET Nat
      BY <1>1
    <3>. HIDE DEF Bad
    <3>. QED
      BY <2>1, <3>1, LeastElement
  <2>3. g[k] = Step1(g, k) /\ met[k] = Step1(met, k) /\ k \in 0 .. n
    <3>1. k \in 0 .. n
      OBVIOUS
    <3>2. g[k] = Step1(g, k)
      <4>. HIDE DEF Step1, Bad
      <4>. QED
        BY <1>3, <3>1
    <3>. QED
      BY <1>2, <3>1, <3>2
  <2>4. CASE k = 0
    BY <2>2, <2>3, <2>4
  <2>5. CASE k # 0
    <3>1. k - 1 \in 0 .. n /\ k - 1 \notin Bad
      BY <1>1, <2>2, <2>5
    <3>2. g[k - 1] = met[k - 1]
      BY <3>1
    <3>. HIDE DEF met
    <3>3. g[k] = met[k]
      BY <2>3, <2>5, <3>2
    <3>. QED
      BY <2>2, <3>3
  <2>. QED
    BY <2>4, <2>5
<1>. DEFINE at == CHOOSE g : g = [k \in 0 .. n |-> Step1(g, k)]
<1>4. at = met
  <2>1. met = [k \in 0 .. n |-> Step1(met, k)]
    BY <1>2
  <2>2. at = [k \in 0 .. n |-> Step1(at, k)]
    <3>. HIDE DEF Step1, met
    <3>. QED
      BY <2>1
  <2>. QED
    BY <1>3, <2>2
<1>5. {k \in 0 .. n : met[k] # null} = 0 .. Len(s) - 1
  <2>1. \A k \in 0 .. n : met[k] # null <=> k + 1 \in DOMAIN s
    BY <1>1 DEF At
  <2>. HIDE DEF met
  <2>. QED
    BY <1>1, <2>1
<1>6. Cardinality(0 .. Len(s) - 1) = Len(s)
  <2>. PICK a, e : a = 0 /\ e = Len(s) - 1
    OBVIOUS
  <2>1. a = 0 /\ a \in Int /\ e \in Int /\ Len(s) = e + 1 /\ e + 1 \in Nat
    BY <1>1
  <2>2. Cardinality(a .. e) = IF a > e THEN 0 ELSE e - a + 1
    BY <2>1, FS_Interval
  <2>. QED
    BY <2>1, <2>2
<1>7. [k \in 1 .. Len(s) |-> met[k - 1]] = s
  <2>1. \A k \in 1 .. Len(s) : met[k - 1] = s[k]
    BY <1>1 DEF At
  <2>. HIDE DEF met
  <2>. QED
    BY <1>1, <2>1
<1>8. FreeList!Walk(first, link)
        = [k \in 1 .. Cardinality({j \in 0 .. n : at[j] # null}) |-> at[k - 1]]
  BY DEF FreeList!Walk, FreeList!Cardinality, Cardinality, n
<1>. QED
  <2>. HIDE DEF at, met
  <2>1. Cardinality({j \in 0 .. n : at[j] # null}) = Len(s)
    BY <1>4, <1>5, <1>6
  <2>2. FreeList!Walk(first, link) = [k \in 1 .. Len(s) |-> met[k - 1]]
    BY <1>4, <1>8, <2>1
  <2>. QED
    BY <1>7, <2>2

(* Each page is in one place of one list at most.                          *)
LEMMA ThreadFacts ==
  ASSUME NEW items, NEW nx, NEW pv, NEW hd, NEW tl, Threads(items, nx, pv, hd, tl)
  PROVE  /\ \A k \in Orders : /\ items[k] \in Seq(Frames) /\ Len(items[k]) \in Nat
                              /\ DOMAIN items[k] = 1 .. Len(items[k])
                              /\ \A i \in DOMAIN items[k] : /\ items[k][i] \in Frames
                                                            /\ items[k][i] # null
                                                            /\ items[k][i] \in ToSet(items[k])
         /\ \A k, m \in Orders : \A i \in DOMAIN items[k] : \A j \in DOMAIN items[m] :
              items[k][i] = items[m][j] => k = m /\ i = j
<1>1. ASSUME NEW k \in Orders
      PROVE  /\ items[k] \in Seq(Frames) /\ Len(items[k]) \in Nat
             /\ DOMAIN items[k] = 1 .. Len(items[k])
             /\ \A i \in DOMAIN items[k] : /\ items[k][i] \in Frames
                                           /\ items[k][i] # null
                                           /\ items[k][i] \in ToSet(items[k])
  <2>1. items[k] \in Seq(Frames)
    BY DEF Threads
  <2>. QED
    BY <2>1, NullAssumption DEF ToSet
<1>2. ASSUME NEW k \in Orders, NEW m \in Orders, NEW i \in DOMAIN items[k],
             NEW j \in DOMAIN items[m], items[k][i] = items[m][j]
      PROVE  k = m /\ i = j
  <2>1. k = m
    BY <1>1, <1>2 DEF Threads
  <2>2. IsInjective(items[k])
    BY DEF Threads
  <2>. QED
    BY <1>2, <2>1, <2>2 DEF IsInjective
<1>. QED
  BY <1>1, <1>2

(* The links give back the lists, in both directions.                      *)
LEMMA ThreadWalk ==
  ASSUME NEW items, NEW nx, NEW pv, NEW hd, NEW tl, Threads(items, nx, pv, hd, tl),
         NEW l \in Orders
  PROVE  /\ FreeList!Walk(hd[l], nx) = items[l]
         /\ FreeList!Walk(tl[l], pv) = Reverse(items[l])
<1>. DEFINE s == items[l]
            r == Reverse(s)
<1>1. /\ s \in Seq(Frames) /\ Len(s) \in Nat /\ DOMAIN s = 1 .. Len(s)
      /\ IsInjective(s)
      /\ hd[l] = At(s, 1) /\ tl[l] = At(s, Len(s))
      /\ \A i \in DOMAIN s : nx[s[i]] = At(s, i + 1) /\ pv[s[i]] = At(s, i - 1)
  BY ThreadFacts DEF Threads
<1>2. Cardinality(Frames) \in Nat /\ Len(s) <= Cardinality(Frames)
  <2>1. IsFiniteSet(Frames)
    BY FS_Interval, ZoneAssumption DEF Frames
  <2>2. ToSet(s) \in SUBSET Frames
    BY <1>1 DEF ToSet
  <2>3. Cardinality(ToSet(s)) = Len(s)
    BY <1>1, LengthIsCardinality
  <2>. HIDE DEF s
  <2>. QED
    BY <2>1, <2>2, <2>3, FS_Subset, FS_CardinalityType
<1>3. /\ r \in Seq(Frames) /\ Len(r) = Len(s) /\ DOMAIN r = DOMAIN s
      /\ \A i \in DOMAIN s : r[i] = s[Len(s) - i + 1]
  BY <1>1 DEF Reverse
<1>. HIDE DEF s, r
<1>4. At(r, 1) = At(s, Len(s))
  BY <1>1, <1>3 DEF At
<1>5. \A i \in DOMAIN r : pv[r[i]] = At(r, i + 1)
  <2>1. SUFFICES ASSUME NEW i \in DOMAIN s PROVE pv[r[i]] = At(r, i + 1)
    BY <1>3
  <2>. PICK j : j = Len(s) - i + 1
    OBVIOUS
  <2>2. j \in DOMAIN s /\ r[i] = s[j] /\ pv[s[j]] = At(s, j - 1)
    BY <1>1, <1>3
  <2>3. CASE i = Len(s)
    BY <1>1, <1>3, <2>2, <2>3 DEF At
  <2>4. CASE i # Len(s)
    <3>1. i + 1 \in DOMAIN s /\ j - 1 \in DOMAIN s /\ j - 1 = Len(s) - (i + 1) + 1
      BY <1>1, <2>4
    <3>2. r[i + 1] = s[j - 1]
      BY <1>3, <3>1
    <3>. QED
      BY <1>3, <2>2, <3>1, <3>2 DEF At
  <2>. QED
    BY <2>3, <2>4
<1>6. FreeList!Walk(hd[l], nx) = s
  <2>. PICK first : first = hd[l]
    OBVIOUS
  <2>. QED
    BY <1>1, <1>2, WalkIs
<1>7. FreeList!Walk(tl[l], pv) = r
  <2>. PICK first : first = tl[l]
    OBVIOUS
  <2>. QED
    BY <1>1, <1>2, <1>3, <1>4, <1>5, WalkIs
<1>. QED
  BY <1>6, <1>7 DEF s, r

(* push_link threads the page in front of the list.                        *)
IsPush(l, n, nx, pv, hd, tl, nx2, pv2, hd2, tl2) ==
  /\ nx2 = [nx EXCEPT ![n] = hd[l]]
  /\ pv2 = IF hd[l] = null THEN [pv EXCEPT ![n] = null]
           ELSE [pv EXCEPT ![n] = null, ![hd[l]] = n]
  /\ hd2 = [hd EXCEPT ![l] = n]
  /\ tl2 = IF hd[l] = null THEN [tl EXCEPT ![l] = n] ELSE tl

(* push_link: the list gets the page in front, and stays threaded.         *)
LEMMA ThreadsPush ==
  ASSUME NEW items, NEW nx, NEW pv, NEW hd, NEW tl, Threads(items, nx, pv, hd, tl),
         NEW l \in Orders, NEW n \in Frames, \A k \in Orders : n \notin ToSet(items[k]),
         NEW nx2, NEW pv2, NEW hd2, NEW tl2,
         IsPush(l, n, nx, pv, hd, tl, nx2, pv2, hd2, tl2)
  PROVE  Threads([items EXCEPT ![l] = Cons(n, @)], nx2, pv2, hd2, tl2)
<1>0. /\ nx2 = [nx EXCEPT ![n] = hd[l]]
      /\ pv2 = IF hd[l] = null THEN [pv EXCEPT ![n] = null]
               ELSE [pv EXCEPT ![n] = null, ![hd[l]] = n]
      /\ hd2 = [hd EXCEPT ![l] = n]
      /\ tl2 = IF hd[l] = null THEN [tl EXCEPT ![l] = n] ELSE tl
  BY Zenon DEF IsPush
<1>. DEFINE s == items[l]
            t == Cons(n, s)
            new == [items EXCEPT ![l] = t]
<1>1. /\ s \in Seq(Frames) /\ Len(s) \in Nat /\ DOMAIN s = 1 .. Len(s)
      /\ hd[l] = At(s, 1) /\ tl[l] = At(s, Len(s))
      /\ \A i \in DOMAIN s : s[i] # n /\ s[i] # null /\ s[i] \in Frames
      /\ items \in [Orders -> Seq(Frames)] /\ IsInjective(s)
  <2>1. /\ s \in Seq(Frames) /\ Len(s) \in Nat /\ DOMAIN s = 1 .. Len(s)
        /\ \A i \in DOMAIN s : s[i] \in ToSet(s) /\ s[i] # null /\ s[i] \in Frames
    BY ThreadFacts
  <2>. QED
    BY <2>1 DEF Threads
<1>2. t \in Seq(Frames) /\ ToSet(t) = {n} \cup ToSet(s) /\ IsInjective(t)
  BY <1>1, PushFront
<1>3. /\ Len(t) = Len(s) + 1 /\ DOMAIN t = 1 .. Len(s) + 1
      /\ t[1] = n /\ \A i \in DOMAIN s : t[i + 1] = s[i]
  BY <1>1, <1>2 DEF Cons
<1>. HIDE DEF t, s
<1>4. /\ At(t, 0) = null /\ At(t, 1) = n /\ At(t, Len(t)) = IF s = <<>> THEN n ELSE At(s, Len(s))
      /\ \A i \in Nat \ {0} : At(t, i + 1) = At(s, i)
  <2>1. At(t, 0) = null /\ At(t, 1) = n
    BY <1>1, <1>3 DEF At
  <2>2. ASSUME NEW i \in Nat \ {0} PROVE At(t, i + 1) = At(s, i)
    BY <1>1, <1>3 DEF At
  <2>3. CASE s = <<>>
    <3>1. Len(t) = 1
      BY <1>3, <2>3
    <3>. QED
      BY <2>1, <2>2, <2>3, <3>1
  <2>4. CASE s # <<>>
    <3>1. Len(s) \in Nat \ {0}
      BY <1>1, <2>4
    <3>2. At(t, Len(t)) = At(s, Len(s))
      BY <1>3, <2>2, <3>1
    <3>. QED
      BY <2>1, <2>2, <2>4, <3>2
  <2>. QED
    BY <2>1, <2>2, <2>3, <2>4
<1>5. hd[l] = null <=> s = <<>>
  BY <1>1 DEF At
<1>6. /\ new \in [Orders -> Seq(Frames)]
      /\ \A k \in Orders : new[k] = IF k = l THEN t ELSE items[k]
  BY <1>1, <1>2
<1>. HIDE DEF new
<1>7. /\ nx2 \in [Frames -> Frames \cup {null}] /\ pv2 \in [Frames -> Frames \cup {null}]
      /\ hd2 \in [Orders -> Frames \cup {null}] /\ tl2 \in [Orders -> Frames \cup {null}]
  BY <1>0 DEF Threads
<1>8. \A k \in Orders : IsInjective(new[k])
  BY <1>2, <1>6 DEF Threads
<1>9. \A k, m \in Orders : k # m => ToSet(new[k]) \cap ToSet(new[m]) = {}
  <2>1. \A k, m \in Orders : k # m => ToSet(items[k]) \cap ToSet(items[m]) = {}
    BY DEF Threads
  <2>2. ASSUME NEW k \in Orders, k # l PROVE ToSet(t) \cap ToSet(items[k]) = {}
    BY <1>2, <2>1, <2>2 DEF s
  <2>. QED
    BY <1>6, <2>1, <2>2
<1>10. ASSUME NEW k \in Orders PROVE hd2[k] = At(new[k], 1) /\ tl2[k] = At(new[k], Len(new[k]))
  <2>1. CASE k = l
    <3>1. hd2[k] = n /\ tl2[k] = IF s = <<>> THEN n ELSE tl[l]
      BY <1>0, <1>5, <2>1 DEF Threads
    <3>. QED
      BY <1>1, <1>4, <1>6, <2>1, <3>1
  <2>2. CASE k # l
    BY <1>0, <1>6, <2>2 DEF Threads
  <2>. QED
    BY <2>1, <2>2
<1>11. ASSUME NEW k \in Orders, NEW i \in DOMAIN new[k]
       PROVE  /\ nx2[new[k][i]] = At(new[k], i + 1)
              /\ pv2[new[k][i]] = At(new[k], i - 1)
  <2>1. CASE k # l
    <3>1. /\ new[k] = items[k] /\ i \in DOMAIN items[k] /\ items[k][i] # n
          /\ items[k][i] \in Frames /\ items[k][i] # hd[l]
      <4>1. new[k] = items[k] /\ i \in DOMAIN items[k]
        BY <1>6, <2>1
      <4>2. items[k][i] \in ToSet(items[k]) /\ items[k][i] \in Frames /\ items[k][i] # null
        BY <4>1, ThreadFacts
      <4>3. hd[l] # null => hd[l] \in ToSet(items[l])
        BY <1>1 DEF At, ToSet, s
      <4>4. ToSet(items[k]) \cap ToSet(items[l]) = {}
        BY <2>1 DEF Threads
      <4>. QED
        BY <4>1, <4>2, <4>3, <4>4
    <3>2. nx2[items[k][i]] = nx[items[k][i]] /\ pv2[items[k][i]] = pv[items[k][i]]
      BY <1>0, <3>1 DEF Threads
    <3>. QED
      BY <3>1, <3>2 DEF Threads
  <2>2. CASE k = l /\ i = 1
    <3>1. new[k] = t /\ t[1] = n
      BY <1>3, <1>6, <2>2
    <3>2. nx2[n] = hd[l] /\ pv2[n] = null
      <4>1. hd[l] # n /\ (hd[l] # null => hd[l] \in Frames)
        BY <1>1, NullAssumption DEF At
      <4>. QED
        BY <1>0, <4>1 DEF Threads
    <3>3. At(t, 2) = At(s, 1) /\ At(t, 0) = null
      BY <1>4
    <3>. QED
      BY <1>1, <2>2, <3>1, <3>2, <3>3
  <2>3. CASE k = l /\ i # 1
    <3>1. new[k] = t /\ i \in 1 .. Len(s) + 1
      BY <1>3, <1>6, <2>3
    <3>. PICK j : j = i - 1
      OBVIOUS
    <3>2. j \in DOMAIN s /\ j \in Nat \ {0} /\ i = j + 1 /\ new[k] = t /\ t[i] = s[j]
      <4>1. j \in DOMAIN s /\ j \in Nat \ {0} /\ i = j + 1
        BY <1>1, <2>3, <3>1
      <4>. QED
        BY <1>3, <3>1, <4>1
    <3>3. s[j] \in Frames /\ s[j] # n /\ s[j] # null
      BY <1>1, <3>2
    <3>4. nx[s[j]] = At(s, j + 1) /\ pv[s[j]] = At(s, j - 1)
      BY <3>2 DEF Threads, s
    <3>5. At(t, i + 1) = At(s, j + 1)
      BY <1>4, <3>2
    <3>6. nx2[s[j]] = nx[s[j]]
      BY <1>0, <3>3 DEF Threads
    <3>7. CASE j = 1
      <4>1. hd[l] = s[j] /\ hd[l] # null
        BY <1>1, <3>2, <3>3, <3>7 DEF At
      <4>2. pv2[s[j]] = n
        BY <1>0, <3>3, <4>1 DEF Threads
      <4>3. At(t, i - 1) = n
        BY <1>4, <3>2, <3>7
      <4>. QED
        BY <3>2, <3>4, <3>5, <3>6, <4>2, <4>3
    <3>8. CASE j # 1
      <4>1. hd[l] # s[j]
        <5>1. 1 \in DOMAIN s /\ hd[l] = s[1]
          BY <1>1, <3>2 DEF At
        <5>. QED
          BY <1>1, <3>2, <3>8, <5>1 DEF IsInjective
      <4>2. pv2[s[j]] = pv[s[j]]
        BY <1>0, <3>3, <4>1 DEF Threads
      <4>3. At(t, i - 1) = At(s, j - 1)
        <5>1. j - 1 \in Nat \ {0} /\ i - 1 = (j - 1) + 1
          BY <3>2, <3>8
        <5>. QED
          BY <1>4, <5>1
      <4>. QED
        BY <3>2, <3>4, <3>5, <3>6, <4>2, <4>3
    <3>. QED
      BY <3>7, <3>8
  <2>. QED
    BY <2>1, <2>2, <2>3
<1>. QED
  <2>1. Threads(new, nx2, pv2, hd2, tl2)
    BY <1>6, <1>7, <1>8, <1>9, <1>10, <1>11 DEF Threads
  <2>. QED
    BY <2>1 DEF new, t, s

(* The links to and from position a of list s of head hd[l] and tail tl[l] *)
(* now lead past it.                                                       *)
LeadPast(s, l, a, nx, pv, hd, tl, nx2, pv2, hd2, tl2) ==
  LET left == At(s, a - 1)
      right == At(s, a + 1)
  IN  /\ nx2 \in [Frames -> Frames \cup {null}] /\ pv2 \in [Frames -> Frames \cup {null}]
      /\ \A p \in Frames \ {s[a]} : /\ nx2[p] = IF p = left THEN right ELSE nx[p]
                                    /\ pv2[p] = IF p = right THEN left ELSE pv[p]
      /\ hd2 \in [Orders -> Frames \cup {null}] /\ tl2 \in [Orders -> Frames \cup {null}]
      /\ \A k \in Orders : /\ hd2[k] = IF k = l /\ hd[k] = s[a] THEN right ELSE hd[k]
                           /\ tl2[k] = IF k = l /\ tl[k] = s[a] THEN left ELSE tl[k]

(* A page taken out of a list: the positions of the others, and the links. *)
LEMMA ThreadsTake ==
  ASSUME NEW items, NEW nx, NEW pv, NEW hd, NEW tl, Threads(items, nx, pv, hd, tl),
         NEW l \in Orders, NEW a \in DOMAIN items[l],
         NEW nx2, NEW pv2, NEW hd2, NEW tl2,
         LeadPast(items[l], l, a, nx, pv, hd, tl, nx2, pv2, hd2, tl2)
  PROVE  Threads([items EXCEPT ![l] = RemoveAt(@, a)], nx2, pv2, hd2, tl2)
<1>. PICK n, t, left, right : /\ n = items[l][a] /\ t = RemoveAt(items[l], a)
                              /\ left = At(items[l], a - 1) /\ right = At(items[l], a + 1)
  OBVIOUS
<1>. DEFINE s == items[l]
            new == [items EXCEPT ![l] = t]
<1>0. /\ nx2 \in [Frames -> Frames \cup {null}] /\ pv2 \in [Frames -> Frames \cup {null}]
      /\ \A p \in Frames \ {n} : /\ nx2[p] = IF p = left THEN right ELSE nx[p]
                                 /\ pv2[p] = IF p = right THEN left ELSE pv[p]
      /\ hd2 \in [Orders -> Frames \cup {null}] /\ tl2 \in [Orders -> Frames \cup {null}]
      /\ \A k \in Orders : /\ hd2[k] = IF k = l /\ hd[k] = n THEN right ELSE hd[k]
                           /\ tl2[k] = IF k = l /\ tl[k] = n THEN left ELSE tl[k]
  BY Zenon DEF LeadPast
<1>1. /\ s \in Seq(Frames) /\ Len(s) \in Nat /\ DOMAIN s = 1 .. Len(s)
      /\ hd[l] = At(s, 1) /\ tl[l] = At(s, Len(s))
      /\ \A i \in DOMAIN s : s[i] # null /\ s[i] \in Frames
      /\ \A i, j \in DOMAIN s : s[i] = s[j] => i = j
      /\ a \in DOMAIN s /\ n = s[a]
      /\ items \in [Orders -> Seq(Frames)] /\ IsInjective(s)
  <2>1. /\ s \in Seq(Frames) /\ Len(s) \in Nat /\ DOMAIN s = 1 .. Len(s)
        /\ \A i \in DOMAIN s : s[i] # null /\ s[i] \in Frames
        /\ \A i, j \in DOMAIN s : s[i] = s[j] => i = j
    BY ThreadFacts
  <2>. QED
    BY <2>1 DEF Threads
<1>2. /\ t \in Seq(Frames) /\ ToSet(t) = ToSet(s) \ {n} /\ IsInjective(t)
      /\ Len(t) = Len(s) - 1
      /\ \A i \in 1 .. Len(s) - 1 : t[i] = IF i < a THEN s[i] ELSE s[i + 1]
  <2>2. t = RemoveAt(s, a) /\ n = s[a]
    OBVIOUS
  <2>. HIDE DEF s
  <2>1. /\ RemoveAt(s, a) \in Seq(Frames)
        /\ ToSet(RemoveAt(s, a)) = ToSet(s) \ {s[a]} /\ IsInjective(RemoveAt(s, a))
        /\ Len(RemoveAt(s, a)) = Len(s) - 1
        /\ \A i \in 1 .. Len(s) - 1 : RemoveAt(s, a)[i] = IF i < a THEN s[i] ELSE s[i + 1]
    <3>1. s \in Seq(Frames) /\ a \in DOMAIN s /\ IsInjective(s)
      BY <1>1
    <3>2. ToSet(RemoveAt(s, a)) = ToSet(s) \ {s[a]}
      BY <3>1, RemoveAtOne
    <3>3. IsInjective(RemoveAt(s, a))
      BY <3>1, RemoveAtOne
    <3>4. Len(RemoveAt(s, a)) = Len(s) - 1
      BY <3>1, RemoveAtOne
    <3>5. \A i \in 1 .. Len(s) - 1 : RemoveAt(s, a)[i] = IF i < a THEN s[i] ELSE s[i + 1]
      BY <3>1, RemoveAtOne
    <3>6. RemoveAt(s, a) \in Seq(Frames)
      BY <3>1, RemoveAtOne
    <3>. QED
      BY <3>1, <3>2, <3>3, <3>4, <3>5, <3>6
  <2>. QED
    BY <2>1, <2>2
<1>3. DOMAIN t = 1 .. Len(s) - 1
  BY <1>2
<1>. HIDE DEF s
<1>4. \A i \in Nat : At(t, i) = IF i < a THEN At(s, i) ELSE At(s, i + 1)
  BY <1>1, <1>2, <1>3 DEF At
<1>5. /\ new \in [Orders -> Seq(Frames)]
      /\ \A k \in Orders : new[k] = IF k = l THEN t ELSE items[k]
  BY <1>1, <1>2
<1>. HIDE DEF new
<1>6. \A k \in Orders : IsInjective(new[k])
  BY <1>2, <1>5 DEF Threads
<1>7. \A k, m \in Orders : k # m => ToSet(new[k]) \cap ToSet(new[m]) = {}
  <2>1. \A k, m \in Orders : k # m => ToSet(items[k]) \cap ToSet(items[m]) = {}
    BY DEF Threads
  <2>2. ASSUME NEW k \in Orders, k # l PROVE ToSet(t) \cap ToSet(items[k]) = {}
    BY <1>2, <2>1, <2>2 DEF s
  <2>. QED
    BY <1>5, <2>1, <2>2
<1>8. /\ left = At(s, a - 1) /\ right = At(s, a + 1)
      /\ left # n /\ right # n
      /\ \A i \in DOMAIN s : /\ s[i] = left <=> i = a - 1
                             /\ s[i] = right <=> i = a + 1
                             /\ s[i] = n <=> i = a
  <2>1. left = At(s, a - 1) /\ right = At(s, a + 1)
    BY DEF s
  <2>. QED
    BY <1>1, <2>1 DEF At
<1>9. ASSUME NEW k \in Orders PROVE hd2[k] = At(new[k], 1) /\ tl2[k] = At(new[k], Len(new[k]))
  <2>1. CASE k # l
    BY <1>0, <1>5, <2>1 DEF Threads
  <2>2. CASE k = l
    <3>1. hd2[l] = At(t, 1)
      <4>1. At(t, 1) = IF 1 < a THEN At(s, 1) ELSE At(s, 2)
        BY <1>4
      <4>2. CASE a = 1
        BY <1>0, <1>1, <1>8, <4>1, <4>2 DEF At
      <4>3. CASE a # 1
        <5>1. 1 < a /\ 1 \in DOMAIN s /\ hd[l] # n
          BY <1>1, <1>8, <4>3 DEF At
        <5>. QED
          BY <1>0, <1>1, <4>1, <5>1
      <4>. QED
        BY <4>2, <4>3
    <3>2. tl2[l] = At(t, Len(t))
      <4>. PICK m : m = Len(s)
        OBVIOUS
      <4>1. /\ m \in Nat \ {0} /\ m = Len(s) /\ Len(t) = m - 1 /\ m \in DOMAIN s
            /\ a \in Nat /\ a <= m
        BY <1>1, <1>2
      <4>2. At(t, m - 1) = IF m - 1 < a THEN At(s, m - 1) ELSE At(s, m)
        <5>1. m - 1 \in Nat /\ (m - 1) + 1 = m
          BY <4>1
        <5>. QED
          BY <1>4, <5>1
      <4>3. tl[l] = s[m] /\ At(s, m) = s[m]
        BY <1>1, <4>1 DEF At
      <4>4. CASE a = m
        <5>1. tl2[l] = left
          BY <1>0, <1>1, <4>3, <4>4
        <5>2. At(t, m - 1) = At(s, a - 1)
          BY <4>1, <4>2, <4>4
        <5>. QED
          BY <1>8, <4>1, <5>1, <5>2
      <4>5. CASE a # m
        <5>1. tl[l] # n /\ ~ m - 1 < a
          BY <1>8, <4>1, <4>3, <4>5
        <5>. QED
          BY <1>0, <4>1, <4>2, <4>3, <5>1
      <4>. QED
        BY <4>4, <4>5
    <3>. QED
      BY <1>5, <2>2, <3>1, <3>2
  <2>. QED
    BY <2>1, <2>2
<1>10. ASSUME NEW k \in Orders, NEW i \in DOMAIN new[k]
       PROVE  /\ nx2[new[k][i]] = At(new[k], i + 1)
              /\ pv2[new[k][i]] = At(new[k], i - 1)
  <2>1. CASE k # l
    <3>1. new[k] = items[k] /\ i \in DOMAIN items[k]
      BY <1>5, <2>1
    <3>. PICK p : p = items[k][i]
      OBVIOUS
    <3>2. p \in ToSet(items[k]) /\ p \in Frames /\ p # null /\ p = items[k][i]
      BY <3>1, ThreadFacts
    <3>3. ToSet(items[k]) \cap ToSet(s) = {}
      BY <2>1 DEF Threads, s
    <3>4. \A j \in DOMAIN s : s[j] \in ToSet(s)
      BY DEF ToSet
    <3>5. p # n /\ p # left /\ p # right
      BY <1>1, <1>8, <3>2, <3>3, <3>4 DEF At
    <3>6. nx2[p] = nx[p] /\ pv2[p] = pv[p]
      BY <1>0, <3>2, <3>5
    <3>. QED
      BY <3>1, <3>2, <3>6 DEF Threads
  <2>2. CASE k = l
    <3>1. new[k] = t /\ i \in 1 .. Len(s) - 1
      BY <1>3, <1>5, <2>2
    <3>. PICK j : j = IF i < a THEN i ELSE i + 1
      OBVIOUS
    <3>2. /\ j \in DOMAIN s /\ t[i] = s[j] /\ s[j] \in Frames \ {n}
          /\ a \in Nat \ {0} /\ i \in Nat \ {0}
          /\ i < a => j = i
          /\ ~ i < a => j = i + 1
      <4>1. /\ j \in DOMAIN s /\ j # a
            /\ a \in Nat \ {0} /\ i \in Nat \ {0}
            /\ i < a => j = i
            /\ ~ i < a => j = i + 1
        BY <1>1, <3>1
      <4>2. t[i] = s[j]
        BY <1>2, <3>1, <4>1
      <4>. QED
        BY <1>1, <1>8, <4>1, <4>2
    <3>3. nx[s[j]] = At(s, j + 1) /\ pv[s[j]] = At(s, j - 1)
      BY <3>2 DEF Threads, s
    <3>4. /\ nx2[s[j]] = IF j = a - 1 THEN At(s, a + 1) ELSE At(s, j + 1)
          /\ pv2[s[j]] = IF j = a + 1 THEN At(s, a - 1) ELSE At(s, j - 1)
      BY <1>0, <1>8, <3>2, <3>3
    <3>5. At(t, i + 1) = IF i + 1 < a THEN At(s, i + 1) ELSE At(s, i + 2)
      <4>1. i + 1 \in Nat /\ (i + 1) + 1 = i + 2
        BY <3>2
      <4>. QED
        BY <1>4, <4>1
    <3>6. At(t, i - 1) = IF i - 1 < a THEN At(s, i - 1) ELSE At(s, i)
      <4>1. i - 1 \in Nat /\ (i - 1) + 1 = i
        BY <3>2
      <4>. QED
        BY <1>4, <4>1
    <3>7. CASE i < a
      <4>1. j = i /\ j # a + 1 /\ i - 1 < a
        BY <3>2, <3>7
      <4>2. CASE i = a - 1
        <5>1. ~ i + 1 < a /\ i + 2 = a + 1 /\ j = a - 1
          BY <3>2, <4>1, <4>2
        <5>. QED
          BY <3>1, <3>2, <3>4, <3>5, <3>6, <4>1, <5>1
      <4>3. CASE i # a - 1
        <5>1. i + 1 < a /\ j # a - 1
          BY <3>2, <3>7, <4>1, <4>3
        <5>. QED
          BY <3>1, <3>2, <3>4, <3>5, <3>6, <4>1, <5>1
      <4>. QED
        BY <4>2, <4>3
    <3>8. CASE ~ i < a
      <4>1. j = i + 1 /\ j # a - 1 /\ ~ i + 1 < a /\ j + 1 = i + 2 /\ j - 1 = i
        BY <3>2, <3>8
      <4>2. CASE i = a
        <5>1. j = a + 1 /\ i - 1 < a /\ i - 1 = a - 1
          BY <3>2, <4>1, <4>2
        <5>. QED
          BY <3>1, <3>2, <3>4, <3>5, <3>6, <4>1, <5>1
      <4>3. CASE i # a
        <5>1. j # a + 1 /\ ~ i - 1 < a
          BY <3>2, <3>8, <4>1, <4>3
        <5>. QED
          BY <3>1, <3>2, <3>4, <3>5, <3>6, <4>1, <5>1
      <4>. QED
        BY <4>2, <4>3
    <3>. QED
      BY <3>7, <3>8
  <2>. QED
    BY <2>1, <2>2
<1>. QED
  <2>1. Threads(new, nx2, pv2, hd2, tl2)
    BY <1>0, <1>5, <1>6, <1>7, <1>9, <1>10 DEF Threads
  <2>. QED
    BY <2>1 DEF new

(* pop_link takes the first page of a list, remove_link any page of it.    *)
IsPop(l, n, nx, pv, hd, tl, nx2, pv2, hd2, tl2) ==
  /\ n = hd[l] /\ n # null
  /\ nx2 = [nx EXCEPT ![n] = null]
  /\ \/ /\ n = tl[l]
        /\ hd2 = [hd EXCEPT ![l] = null]
        /\ tl2 = [tl EXCEPT ![l] = null]
        /\ pv2 = [pv EXCEPT ![n] = null]
     \/ /\ n # tl[l]
        /\ hd2 = [hd EXCEPT ![l] = nx[n]]
        /\ pv2 = [pv EXCEPT ![nx[n]] = null, ![n] = null]
        /\ tl2 = tl

(* pop_link: the list loses its first page, and stays threaded.            *)
LEMMA ThreadsPop ==
  ASSUME NEW items, NEW nx, NEW pv, NEW hd, NEW tl, Threads(items, nx, pv, hd, tl),
         NEW l \in Orders, NEW n, NEW nx2, NEW pv2, NEW hd2, NEW tl2,
         IsPop(l, n, nx, pv, hd, tl, nx2, pv2, hd2, tl2)
  PROVE  /\ items[l] # <<>> /\ n = Head(items[l])
         /\ Threads([items EXCEPT ![l] = Tail(@)], nx2, pv2, hd2, tl2)
<1>0. /\ n = hd[l] /\ n # null
      /\ nx2 = [nx EXCEPT ![n] = null]
      /\ \/ /\ n = tl[l]
            /\ hd2 = [hd EXCEPT ![l] = null]
            /\ tl2 = [tl EXCEPT ![l] = null]
            /\ pv2 = [pv EXCEPT ![n] = null]
         \/ /\ n # tl[l]
            /\ hd2 = [hd EXCEPT ![l] = nx[n]]
            /\ pv2 = [pv EXCEPT ![nx[n]] = null, ![n] = null]
            /\ tl2 = tl
  BY Zenon DEF IsPop
<1>. DEFINE s == items[l]
<1>1. /\ s \in Seq(Frames) /\ Len(s) \in Nat /\ DOMAIN s = 1 .. Len(s)
      /\ hd[l] = At(s, 1) /\ tl[l] = At(s, Len(s))
      /\ \A i \in DOMAIN s : s[i] # null /\ s[i] \in Frames
      /\ \A i, j \in DOMAIN s : s[i] = s[j] => i = j
      /\ \A i \in DOMAIN s : nx[s[i]] = At(s, i + 1)
      /\ IsInjective(s)
  <2>1. /\ s \in Seq(Frames) /\ Len(s) \in Nat /\ DOMAIN s = 1 .. Len(s)
        /\ \A i \in DOMAIN s : s[i] # null /\ s[i] \in Frames
        /\ \A i, j \in DOMAIN s : s[i] = s[j] => i = j
    BY ThreadFacts
  <2>. QED
    BY <2>1 DEF Threads
<1>2. 1 \in DOMAIN s /\ n = s[1] /\ Len(s) \in Nat \ {0} /\ n \in Frames
  <2>. HIDE DEF s
  <2>. QED
    BY <1>0, <1>1 DEF At
<1>3. RemoveAt(s, 1) = Tail(s)
  <2>. HIDE DEF s
  <2>1. RemoveAt(s, 1) \in Seq(Frames)
    BY <1>1, <1>2, RemoveAtOne
  <2>2. Len(RemoveAt(s, 1)) = Len(s) - 1
    BY <1>1, <1>2, RemoveAtOne
  <2>3. \A i \in 1 .. Len(s) - 1 : RemoveAt(s, 1)[i] = IF i < 1 THEN s[i] ELSE s[i + 1]
    BY <1>1, <1>2, RemoveAtOne
  <2>4. s # <<>>
    BY <1>2
  <2>5. Tail(s) \in Seq(Frames) /\ Len(Tail(s)) = Len(s) - 1
        /\ \A i \in 1 .. Len(s) - 1 : Tail(s)[i] = s[i + 1]
    BY <1>1, <2>4
  <2>6. \A i \in 1 .. Len(s) - 1 : RemoveAt(s, 1)[i] = Tail(s)[i]
    BY <1>1, <2>3, <2>5
  <2>. QED
    BY <1>1, <2>1, <2>2, <2>5, <2>6
<1>. PICK right : right = At(s, 2)
  OBVIOUS
<1>4. nx[n] = right /\ right # n
  <2>. HIDE DEF s
  <2>. QED
    BY <1>1, <1>2 DEF At
<1>5. n = tl[l] <=> Len(s) = 1
  <2>. HIDE DEF s
  <2>1. Len(s) \in DOMAIN s /\ tl[l] = s[Len(s)]
    BY <1>1, <1>2 DEF At
  <2>. QED
    BY <1>1, <1>2, <2>1
<1>6. Len(s) = 1 => right = null
  <2>. HIDE DEF s
  <2>. QED
    BY <1>1 DEF At
<1>7. Len(s) # 1 => right \in Frames
  <2>. HIDE DEF s
  <2>. QED
    BY <1>1, <1>2 DEF At
<1>8. /\ nx \in [Frames -> Frames \cup {null}] /\ pv \in [Frames -> Frames \cup {null}]
      /\ hd \in [Orders -> Frames \cup {null}] /\ tl \in [Orders -> Frames \cup {null}]
  BY DEF Threads
<1>9. /\ nx2 \in [Frames -> Frames \cup {null}] /\ pv2 \in [Frames -> Frames \cup {null}]
      /\ hd2 \in [Orders -> Frames \cup {null}] /\ tl2 \in [Orders -> Frames \cup {null}]
  <2>1. nx2 \in [Frames -> Frames \cup {null}]
    BY <1>0, <1>8
  <2>2. pv2 \in [Frames -> Frames \cup {null}]
    BY <1>0, <1>8
  <2>3. hd2 \in [Orders -> Frames \cup {null}]
    BY <1>0, <1>2, <1>8
  <2>. QED
    BY <1>0, <1>8, <2>1, <2>2, <2>3
<1>10. ASSUME NEW p \in Frames \ {n}
       PROVE  /\ nx2[p] = IF p = null THEN right ELSE nx[p]
              /\ pv2[p] = IF p = right THEN null ELSE pv[p]
  <2>1. nx2[p] = nx[p] /\ p # null
    BY <1>0, <1>8, NullAssumption
  <2>2. CASE n = tl[l]
    BY <1>0, <1>5, <1>6, <1>8, <2>1, <2>2
  <2>3. CASE n # tl[l]
    BY <1>0, <1>4, <1>8, <2>1, <2>3
  <2>. QED
    BY <2>2, <2>3
<1>11. ASSUME NEW k \in Orders
       PROVE  /\ hd2[k] = IF k = l /\ hd[k] = n THEN right ELSE hd[k]
              /\ tl2[k] = IF k = l /\ tl[k] = n THEN null ELSE tl[k]
  BY <1>0, <1>4, <1>5, <1>6, <1>8
<1>12. At(s, 0) = null
  <2>. HIDE DEF s
  <2>. QED
    BY <1>1 DEF At
<1>. QED
  <2>1. 1 \in DOMAIN items[l] /\ items[l][1] = n
    BY <1>2
  <2>2. At(items[l], 1 - 1) = null /\ At(items[l], 1 + 1) = right
    BY <1>12
  <2>3. LeadPast(items[l], l, 1, nx, pv, hd, tl, nx2, pv2, hd2, tl2)
    BY <1>9, <1>10, <1>11, <2>1, <2>2, Zenon DEF LeadPast
  <2>4. Threads([items EXCEPT ![l] = RemoveAt(@, 1)], nx2, pv2, hd2, tl2)
    BY <2>1, <2>3, ThreadsTake
  <2>5. items[l] # <<>> /\ n = Head(items[l])
    BY <1>1, <1>2
  <2>. QED
    BY <1>3, <2>4, <2>5

(* remove_link: the page leaves the list from wherever it is, and what was *)
(* before and behind it is joined, head and tail included.                 *)
LEMMA ThreadsRemove ==
  ASSUME NEW items, NEW nx, NEW pv, NEW hd, NEW tl, Threads(items, nx, pv, hd, tl),
         NEW l \in Orders, NEW n \in ToSet(items[l]),
         NEW nx2, nx2 = FreeList!Store([nx EXCEPT ![n] = null], pv[n], nx[n]),
         NEW pv2, pv2 = FreeList!Store([pv EXCEPT ![n] = null], nx[n], pv[n]),
         NEW hd2, hd2 = IF hd[l] = n THEN [hd EXCEPT ![l] = nx[n]] ELSE hd,
         NEW tl2, tl2 = IF tl[l] = n THEN [tl EXCEPT ![l] = pv[n]] ELSE tl
  PROVE  Threads([items EXCEPT ![l] = RemoveFirst(@, n)], nx2, pv2, hd2, tl2)
<1>1. items[l] \in Seq(Frames) /\ IsInjective(items[l])
  BY DEF Threads
<1>2. PICK a \in DOMAIN items[l] :
        items[l][a] = n /\ RemoveFirst(items[l], n) = RemoveAt(items[l], a)
  BY <1>1, RemoveFirstOne
<1>. PICK left, right : left = pv[n] /\ right = nx[n]
  OBVIOUS
<1>3. left = At(items[l], a - 1) /\ right = At(items[l], a + 1) /\ n \in Frames
  BY <1>1, <1>2 DEF Threads
<1>4. /\ nx \in [Frames -> Frames \cup {null}] /\ pv \in [Frames -> Frames \cup {null}]
      /\ hd \in [Orders -> Frames \cup {null}] /\ tl \in [Orders -> Frames \cup {null}]
      /\ left \in Frames \cup {null} /\ right \in Frames \cup {null}
  BY <1>3 DEF Threads
<1>5. /\ nx2 \in [Frames -> Frames \cup {null}]
      /\ \A p \in Frames \ {n} : nx2[p] = IF p = left THEN right ELSE nx[p]
  BY <1>3, <1>4, NullAssumption DEF FreeList!Store
<1>6. /\ pv2 \in [Frames -> Frames \cup {null}]
      /\ \A p \in Frames \ {n} : pv2[p] = IF p = right THEN left ELSE pv[p]
  BY <1>3, <1>4, NullAssumption DEF FreeList!Store
<1>7. /\ hd2 \in [Orders -> Frames \cup {null}] /\ tl2 \in [Orders -> Frames \cup {null}]
      /\ \A k \in Orders : /\ hd2[k] = IF k = l /\ hd[k] = n THEN right ELSE hd[k]
                           /\ tl2[k] = IF k = l /\ tl[k] = n THEN left ELSE tl[k]
  BY <1>4
<1>8. LeadPast(items[l], l, a, nx, pv, hd, tl, nx2, pv2, hd2, tl2)
  BY <1>2, <1>3, <1>5, <1>6, <1>7, ZenonT(30) DEF LeadPast
<1>9. Threads([items EXCEPT ![l] = RemoveAt(@, a)], nx2, pv2, hd2, tl2)
  BY <1>8, ThreadsTake
<1>. QED
  BY <1>2, <1>9

-----------------------------------------------------------------------------
(* The lists and the free blocks.                                          *)

(* The list of each level, read off the links.                             *)
Items == [l \in Orders |-> FreeList!Forward(l)]

(* The blocks that lists of pages stand for.                               *)
BlocksOf(items) == UNION {ToSet(items[l]) \X {l} : l \in Orders}

(* A block is in a list if its first page is.                              *)
LEMMA BlocksOfMember ==
  ASSUME NEW items, NEW p, NEW l
  PROVE  <<p, l>> \in BlocksOf(items) <=> l \in Orders /\ p \in ToSet(items[l])
BY DEF BlocksOf

(* List l has one page more in new than in items, the others the same.     *)
OneMore(items, new, l, n) ==
  \A k \in Orders : ToSet(new[k]) = IF k = l THEN ToSet(items[k]) \cup {n} ELSE ToSet(items[k])

(* One more page in a list is one block more.                              *)
LEMMA BlocksOfMore ==
  ASSUME NEW items, NEW new, NEW l \in Orders, NEW n, NEW x, x = <<n, l>>, OneMore(items, new, l, n)
  PROVE  BlocksOf(new) = BlocksOf(items) \cup {x}
<1>1. /\ \A b : b \in BlocksOf(items) <=> \E k \in Orders : \E p \in ToSet(items[k]) : b = <<p, k>>
      /\ \A b : b \in BlocksOf(new) <=> \E k \in Orders : \E p \in ToSet(new[k]) : b = <<p, k>>
  BY DEF BlocksOf
<1>. QED
  BY <1>1, ZenonT(30) DEF OneMore

(* List l has one page less in new than in items, the others the same.     *)
OneLess(items, new, l, n) ==
  \A k \in Orders : ToSet(new[k]) = IF k = l THEN ToSet(items[k]) \ {n} ELSE ToSet(items[k])

(* One less page in a list is one block less.                              *)
LEMMA BlocksOfLess ==
  ASSUME NEW items, NEW new, NEW l \in Orders, NEW n, NEW x, x = <<n, l>>, OneLess(items, new, l, n)
  PROVE  BlocksOf(new) = BlocksOf(items) \ {x}
<1>1. /\ \A b : b \in BlocksOf(items) <=> \E k \in Orders : \E p \in ToSet(items[k]) : b = <<p, k>>
      /\ \A b : b \in BlocksOf(new) <=> \E k \in Orders : \E p \in ToSet(new[k]) : b = <<p, k>>
  BY DEF BlocksOf
<1>. QED
  BY <1>1, ZenonT(30) DEF OneLess

(* The free blocks are the pages of the lists.                             *)
LEMMA FreeBlocksAre == FreeBlocks = BlocksOf(Items) /\ FreeBlocks' = BlocksOf(Items')
BY DEF FreeBlocks, BlocksOf, Items, FreeList!Members, FreeList!ToSet, ToSet

(* The links determine the lists.                                          *)
LEMMA ItemsFollow ==
  ASSUME NEW items, Threads(items, next', prev', head', tail')
  PROVE  Items' = items
<1>. PICK nx, pv, hd, tl : nx = next' /\ pv = prev' /\ hd = head' /\ tl = tail'
  OBVIOUS
<1>1. Threads(items, nx, pv, hd, tl)
  OBVIOUS
<1>2. \A l \in Orders : FreeList!Walk(hd[l], nx) = items[l]
  BY <1>1, ThreadWalk
<1>3. items = [l \in Orders |-> items[l]]
  BY DEF Threads
<1>. QED
  BY <1>2, <1>3 DEF Items, FreeList!Forward

(* The links are those of the lists they spell: sequences of distinct      *)
(* pages, no page in two of them, linked both ways.                        *)
Threaded == Threads(Items, next, prev, head, tail)

(* What the three calls of the list do to the lists and the free blocks.   *)
LEMMA Pushed ==
  ASSUME Threaded, NEW l \in Orders, NEW n \in Frames,
         \A k \in Orders : n \notin ToSet(Items[k]), FreeList!PushLink(l, n)
  PROVE  /\ Threaded'
         /\ Items' = [Items EXCEPT ![l] = Cons(n, @)]
         /\ FreeBlocks' = FreeBlocks \cup {<<n, l>>}
<1>. PICK items, nx, pv, hd, tl : /\ items = Items /\ nx = next /\ pv = prev
                                  /\ hd = head /\ tl = tail
  OBVIOUS
<1>. PICK nx2, pv2, hd2, tl2 : nx2 = next' /\ pv2 = prev' /\ hd2 = head' /\ tl2 = tail'
  OBVIOUS
<1>1. Threads(items, nx, pv, hd, tl) /\ \A k \in Orders : n \notin ToSet(items[k])
  BY DEF Threaded
<1>2. IsPush(l, n, nx, pv, hd, tl, nx2, pv2, hd2, tl2)
  BY DEF IsPush, FreeList!PushLink, FreeList!IsEmptyList
<1>3. Threads([items EXCEPT ![l] = Cons(n, items[l])], nx2, pv2, hd2, tl2)
  BY <1>1, <1>2, ThreadsPush
<1>4. Items' = [items EXCEPT ![l] = Cons(n, items[l])]
  BY <1>3, ItemsFollow
<1>5. ToSet(Cons(n, items[l])) = {n} \cup ToSet(items[l]) /\ DOMAIN items = Orders
  BY <1>1, PushFront DEF Threads
<1>. PICK new : new = [items EXCEPT ![l] = Cons(n, items[l])]
  OBVIOUS
<1>. PICK x : x = <<n, l>>
  OBVIOUS
<1>6. BlocksOf(new) = BlocksOf(items) \cup {x}
  <2>1. OneMore(items, new, l, n)
    BY <1>5 DEF OneMore
  <2>. QED
    BY <2>1, BlocksOfMore
<1>. QED
  BY <1>3, <1>4, <1>6, FreeBlocksAre DEF Threaded

(* After pop_link of the free list of level l its first block is not free  *)
(* any more; all other blocks are, and nothing else became free.           *)
LEMMA Popped ==
  ASSUME Threaded, NEW l \in Orders, FreeList!PopLink(l)
  PROVE  /\ Threaded'
         /\ Items' = [Items EXCEPT ![l] = Tail(@)]
         /\ <<head[l], l>> \in FreeBlocks /\ Items[l] # <<>>
         /\ FreeBlocks' = FreeBlocks \ {<<head[l], l>>}
<1>. PICK items, nx, pv, hd, tl : /\ items = Items /\ nx = next /\ pv = prev
                                  /\ hd = head /\ tl = tail
  OBVIOUS
<1>. PICK nx2, pv2, hd2, tl2 : nx2 = next' /\ pv2 = prev' /\ hd2 = head' /\ tl2 = tail'
  OBVIOUS
<1>. PICK n : n = hd[l]
  OBVIOUS
<1>1. Threads(items, nx, pv, hd, tl)
  BY DEF Threaded
<1>2. IsPop(l, n, nx, pv, hd, tl, nx2, pv2, hd2, tl2)
  BY DEF IsPop, FreeList!PopLink, FreeList!IsEmptyList
<1>3. items[l] # <<>> /\ n = Head(items[l]) /\ Threads([items EXCEPT ![l] = Tail(items[l])], nx2, pv2, hd2, tl2)
  BY <1>1, <1>2, ThreadsPop
<1>4. Items' = [items EXCEPT ![l] = Tail(items[l])]
  BY <1>3, ItemsFollow
<1>5. /\ ToSet(Tail(items[l])) = ToSet(items[l]) \ {n} /\ DOMAIN items = Orders
      /\ n \in ToSet(items[l])
  BY <1>1, <1>3, PopFront DEF Threads
<1>6. <<n, l>> \in BlocksOf(items)
  BY <1>5, BlocksOfMember
<1>. PICK new : new = [items EXCEPT ![l] = Tail(items[l])]
  OBVIOUS
<1>. PICK x : x = <<n, l>>
  OBVIOUS
<1>7. BlocksOf(new) = BlocksOf(items) \ {x}
  <2>1. OneLess(items, new, l, n)
    BY <1>5 DEF OneLess
  <2>. QED
    BY <2>1, BlocksOfLess
<1>. QED
  BY <1>3, <1>4, <1>6, <1>7, FreeBlocksAre DEF Threaded

(* After remove_link of a page in the free list of level l that block is   *)
(* not free any more, and all others are as they were.                     *)
LEMMA Removed ==
  ASSUME Threaded, NEW l \in Orders, NEW n, <<n, l>> \in FreeBlocks, FreeList!RemoveLink(l, n)
  PROVE  /\ Threaded'
         /\ Items' = [Items EXCEPT ![l] = RemoveFirst(@, n)]
         /\ FreeBlocks' = FreeBlocks \ {<<n, l>>}
<1>. PICK items, nx, pv, hd, tl : /\ items = Items /\ nx = next /\ pv = prev
                                  /\ hd = head /\ tl = tail
  OBVIOUS
<1>. PICK nx2, pv2, hd2, tl2 : nx2 = next' /\ pv2 = prev' /\ hd2 = head' /\ tl2 = tail'
  OBVIOUS
<1>1. Threads(items, nx, pv, hd, tl) /\ n \in ToSet(items[l])
  BY FreeBlocksAre, BlocksOfMember DEF Threaded
<1>2. /\ nx2 = FreeList!Store([nx EXCEPT ![n] = null], pv[n], nx[n])
      /\ pv2 = FreeList!Store([pv EXCEPT ![n] = null], nx[n], pv[n])
      /\ hd2 = IF hd[l] = n THEN [hd EXCEPT ![l] = nx[n]] ELSE hd
      /\ tl2 = IF tl[l] = n THEN [tl EXCEPT ![l] = pv[n]] ELSE tl
  BY DEF FreeList!RemoveLink
<1>3. Threads([items EXCEPT ![l] = RemoveFirst(items[l], n)], nx2, pv2, hd2, tl2)
  BY <1>1, <1>2, ThreadsRemove, SMTT(30)
<1>4. Items' = [items EXCEPT ![l] = RemoveFirst(items[l], n)]
  BY <1>3, ItemsFollow
<1>5. ToSet(RemoveFirst(items[l], n)) = ToSet(items[l]) \ {n} /\ DOMAIN items = Orders
  BY <1>1, RemoveFirstList DEF Threads
<1>. PICK new : new = [items EXCEPT ![l] = RemoveFirst(items[l], n)]
  OBVIOUS
<1>. PICK x : x = <<n, l>>
  OBVIOUS
<1>6. BlocksOf(new) = BlocksOf(items) \ {x}
  <2>1. OneLess(items, new, l, n)
    BY <1>5 DEF OneLess
  <2>. QED
    BY <2>1, BlocksOfLess
<1>. QED
  BY <1>3, <1>4, <1>6, FreeBlocksAre DEF Threaded

(* Where no list is called the lists are the same.                         *)
LEMMA ListsUnchanged ==
  ASSUME UNCHANGED links
  PROVE  Items' = Items /\ FreeBlocks' = FreeBlocks /\ (Threaded => Threaded')
BY FreeBlocksAre DEF links, Items, FreeList!Forward, Threaded

-----------------------------------------------------------------------------
(* The inductive invariant.                                                *)

(* What the pages say of themselves.                                       *)
Level == [p \in Frames |-> page[p].level]
IsFree == [p \in Frames |-> page[p].free]

(* The blocks are apart, and the pages describe them.                      *)
SystemBlocks == Blocks(FreeBlocks, owned, InFlight, Level, IsFree, usable \cup heap)

(* The types of what is neither links nor blocks.                          *)
VarsTyped ==
  /\ page \in [Frames -> [level : Orders, free : BOOLEAN]]
  /\ call \in {NoCall} \cup [op : {"split", "free"}, page : Frames,
                             level : Orders, goal : Orders]
  /\ usable \subseteq Frames /\ heap \subseteq Frames
  /\ range = NoRange \/ range \in [index : Frames, end : Frames \cup {Offset + Pages}]

(* Pages that boot has not released still have the word of a new page.     *)
Waiting ==
  /\ \A p \in usable \cup heap : page[p].level = 0
  /\ usable \cap heap = {}
  /\ range # NoRange => /\ range.index < range.end
                        /\ range.index .. range.end - 1 \subseteq usable

(* What holds of the locals between two iterations: a split goes down to   *)
(* its goal, and a block being freed has a stale word of a smaller block   *)
(* if it says free.                                                        *)
Locals ==
  ~ Idle => /\ call.goal <= call.level
            /\ call.op = "free" /\ page[call.page].free => page[call.page].level < call.level
            /\ call.op = "split" => Booted

(* The inductive invariant.  RemoveSafe and BlocksSound say that the words *)
(* the code reads are true; Stale, in SystemBlocks, says where the words   *)
(* lie that are not: inside larger blocks, where the code does not look    *)
(* for a buddy.                                                            *)
BuddyInv ==
  /\ Threaded
  /\ VarsTyped
  /\ SystemBlocks
  /\ Waiting
  /\ Locals
  /\ NoPairs(FreeBlocks)

-----------------------------------------------------------------------------
(* The words and the call in progress.                                     *)

(* A page's word is its level and its free bit; a write to one page leaves *)
(* the words of the others.                                                *)
LEMMA Words ==
  ASSUME VarsTyped
  PROVE  /\ Level \in [Frames -> Orders] /\ IsFree \in [Frames -> BOOLEAN]
         /\ \A p \in Frames : /\ page[p] = [level |-> Level[p], free |-> IsFree[p]]
                              /\ page[p].level = Level[p] /\ page[p].free = IsFree[p]
BY DEF VarsTyped, Level, IsFree

(* One page is told its level and whether it is free.                      *)
LEMMA WordWritten ==
  ASSUME VarsTyped, NEW p \in Frames, NEW l \in Orders, NEW f \in BOOLEAN,
         page' = [page EXCEPT ![p] = [level |-> l, free |-> f]]
  PROVE  /\ page' \in [Frames -> [level : Orders, free : BOOLEAN]]
         /\ Level' \in [Frames -> Orders] /\ IsFree' \in [Frames -> BOOLEAN]
         /\ Level'[p] = l /\ IsFree'[p] = f
         /\ \A q \in Frames : q # p => /\ Level'[q] = Level[q] /\ IsFree'[q] = IsFree[q]
                                       /\ page'[q] = page[q]
BY DEF VarsTyped, Level, IsFree

(* The block of a call is in progress, and there is none between calls.    *)
LEMMA CallFacts ==
  ASSUME VarsTyped
  PROVE  /\ Idle => InFlight = {} /\ call = NoCall
         /\ ~ Idle => /\ InFlight = {<<call.page, call.level>>}
                      /\ call.op \in {"split", "free"} /\ call.page \in Frames
                      /\ call.level \in Orders /\ call.goal \in Orders
                      /\ call = Call(call.op, call.page, call.level, call.goal)
BY DEF VarsTyped, InFlight, Idle, NoCall, Call

(* A call begins with a block.                                             *)
LEMMA CallBegins ==
  ASSUME NEW op \in {"split", "free"}, NEW p \in Frames, NEW l \in Orders, NEW g \in Orders,
         call' = Call(op, p, l, g)
  PROVE  /\ call' \in {NoCall} \cup [op : {"split", "free"}, page : Frames,
                                     level : Orders, goal : Orders]
         /\ ~ Idle' /\ InFlight' = {<<p, l>>}
         /\ call'.op = op /\ call'.page = p /\ call'.level = l /\ call'.goal = g
BY DEF InFlight, Idle, Call

(* A call is over.                                                         *)
LEMMA CallEnds ==
  ASSUME call' = NoCall
  PROVE  /\ call' \in {NoCall} \cup [op : {"split", "free"}, page : Frames,
                                     level : Orders, goal : Orders]
         /\ Idle' /\ InFlight' = {}
BY DEF InFlight, Idle, Call, NoCall

-----------------------------------------------------------------------------
(* The steps keep the invariant.                                           *)

(* Empty lists and zeroed pages.                                           *)
LEMMA InitInv ==
  ASSUME Init
  PROVE  /\ BuddyInv
         /\ Items = [l \in Orders |-> <<>>] /\ FreeBlocks = {} /\ InFlight = {}
<1>. PICK items : items = [l \in Orders |-> <<>>]
  OBVIOUS
<1>1. Threads(items, next, prev, head, tail)
  <2>1. \A l \in Orders : /\ items[l] = <<>> /\ IsInjective(items[l]) /\ ToSet(items[l]) = {}
                          /\ items[l] \in Seq(Frames) /\ DOMAIN items[l] = {}
    BY DEF IsInjective, ToSet
  <2>2. items \in [Orders -> Seq(Frames)]
    BY <2>1
  <2>3. /\ next \in [Frames -> Frames \cup {null}] /\ prev \in [Frames -> Frames \cup {null}]
        /\ head \in [Orders -> Frames \cup {null}] /\ tail \in [Orders -> Frames \cup {null}]
        /\ \A l \in Orders : head[l] = null /\ tail[l] = null
    BY DEF Init, FreeList!Init
  <2>. QED
    BY <2>1, <2>2, <2>3 DEF Threads, At
<1>2. Items = items
  <2>. PICK nx, hd : nx = next /\ hd = head
    OBVIOUS
  <2>. PICK pv, tl : pv = prev /\ tl = tail
    OBVIOUS
  <2>1. \A l \in Orders : FreeList!Walk(hd[l], nx) = items[l]
    BY <1>1, ThreadWalk
  <2>. QED
    BY <2>1 DEF Items, FreeList!Forward
<1>3. FreeBlocks = {}
  BY <1>2, FreeBlocksAre DEF BlocksOf, ToSet
<1>4. Threaded
  BY <1>1, <1>2 DEF Threaded
<1>5. VarsTyped
  BY ZoneAssumption DEF Init, VarsTyped, Orders
<1>6. /\ Level = [p \in Frames |-> 0] /\ IsFree = [p \in Frames |-> FALSE]
      /\ 0 \in Orders /\ owned = {} /\ InFlight = {}
  BY ZoneAssumption DEF Init, Level, IsFree, Orders, InFlight, Idle, NoCall, Call
<1>7. SystemBlocks
  BY <1>3, <1>5, <1>6
     DEF SystemBlocks, VarsTyped, Blocks, Typed, Separate, Told, Stale, Unclaimed, All
<1>8. Waiting /\ Locals /\ NoPairs(FreeBlocks)
  BY <1>3 DEF Init, Waiting, Locals, Idle, NoCall, Call, NoPairs
<1>9. BuddyInv
  BY <1>4, <1>5, <1>7, <1>8 DEF BuddyInv
<1>. QED
  BY <1>2, <1>3, <1>6, <1>9

(* Boot names the next range of free pages.                                *)
LEMMA FreePageRangeInv ==
  ASSUME BuddyInv, NEW p \in Frames, NEW end \in Frames \cup {Offset + Pages},
         FreePageRange(p, end)
  PROVE  BuddyInv'
<1>1. /\ UNCHANGED <<links, page, call, usable, heap, owned>>
      /\ range' = [index |-> p, end |-> end]
      /\ p < end /\ p .. end - 1 \subseteq usable
  BY ZoneAssumption DEF FreePageRange, Frames
<1>2. Threaded' /\ FreeBlocks' = FreeBlocks
  BY <1>1, ListsUnchanged DEF BuddyInv
<1>3. Level' = Level /\ IsFree' = IsFree /\ InFlight' = InFlight
  BY <1>1 DEF Level, IsFree, InFlight, Idle
<1>4. SystemBlocks' /\ NoPairs(FreeBlocks')
  BY <1>1, <1>2, <1>3 DEF BuddyInv, SystemBlocks
<1>5. VarsTyped'
  BY <1>1 DEF BuddyInv, VarsTyped
<1>6. Waiting'
  BY <1>1 DEF BuddyInv, Waiting
<1>7. Locals'
  BY <1>1 DEF BuddyInv, Locals, Idle, Booted
<1>. QED
  BY <1>2, <1>4, <1>5, <1>6, <1>7 DEF BuddyInv

(* What boot releases becomes a block in progress.                         *)
LEMMA FreePageRangeStepInv ==
  ASSUME BuddyInv, NEW l \in Orders, FreePageRangeStep(l)
  PROVE  /\ BuddyInv'
         /\ Aligned(range.index, l) /\ Block(range.index, l) \subseteq usable
         /\ range.index \in Frames /\ FreeBlocks' = FreeBlocks /\ InFlight = {}
         /\ InFlight' = {<<range.index, l>>}
<1>. PICK p, end : p = range.index /\ end = range.end
  OBVIOUS
<1>1. /\ UNCHANGED <<links, page, heap, owned>> /\ Idle /\ range # NoRange
      /\ Aligned(p, l) /\ p + Size[l] <= end
      /\ call' = Call("free", p, l, l) /\ usable' = usable \ Block(p, l)
      /\ range' = IF p + Size[l] = end THEN NoRange ELSE [range EXCEPT !.index = @ + Size[l]]
  BY DEF FreePageRangeStep, LargestFit, Fits
<1>2. /\ p \in Frames /\ end \in Frames \cup {Offset + Pages} /\ p < end
      /\ p .. end - 1 \subseteq usable /\ range = [index |-> p, end |-> end]
      /\ p \in Nat /\ end \in Nat /\ Size[l] \in Nat \ {0}
  BY <1>1, SizePositive, ZoneAssumption DEF BuddyInv, VarsTyped, Waiting, Frames
<1>3. Block(p, l) \subseteq usable
  BY <1>1, <1>2 DEF Block
<1>4. Threaded' /\ FreeBlocks' = FreeBlocks
  BY <1>1, ListsUnchanged DEF BuddyInv
<1>5. Level' = Level /\ IsFree' = IsFree /\ InFlight = {}
  BY <1>1, CallFacts DEF Level, IsFree, BuddyInv
<1>6. /\ call' \in {NoCall} \cup [op : {"split", "free"}, page : Frames,
                                  level : Orders, goal : Orders]
      /\ ~ Idle' /\ InFlight' = {<<p, l>>}
      /\ call'.op = "free" /\ call'.page = p /\ call'.level = l /\ call'.goal = l
  BY <1>1, <1>2, CallBegins
<1>7. /\ Blocks(FreeBlocks, owned, {<<p, l>>}, Level, IsFree, (usable \cup heap) \ Block(p, l))
      /\ ~ IsFree[p]
  <2>. PICK free, held, level, isFree, waiting :
         /\ free = FreeBlocks /\ held = owned /\ level = Level /\ isFree = IsFree
         /\ waiting = usable \cup heap
    OBVIOUS
  <2>1. Blocks(free, held, {}, level, isFree, waiting) /\ level \in [Frames -> Orders]
    BY <1>5, Words DEF BuddyInv, SystemBlocks
  <2>2. Block(p, l) \subseteq waiting
    BY <1>3
  <2>3. Blocks(free, held, {<<p, l>>}, level, isFree, waiting \ Block(p, l)) /\ ~ isFree[p]
    BY <1>1, <1>2, <2>1, <2>2, ReleaseBlock
  <2>. QED
    BY <2>3
<1>8. (usable \cup heap) \ Block(p, l) = usable' \cup heap'
  BY <1>1, <1>3 DEF BuddyInv, Waiting
<1>9. SystemBlocks' /\ NoPairs(FreeBlocks')
  BY <1>1, <1>4, <1>5, <1>6, <1>7, <1>8 DEF BuddyInv, SystemBlocks
<1>10. Locals'
  <2>1. page[p].free = IsFree[p]
    BY <1>2, Words DEF BuddyInv
  <2>2. l <= l
    BY ZoneAssumption DEF Orders
  <2>. QED
    BY <1>1, <1>6, <1>7, <2>1, <2>2 DEF Locals
<1>11. VarsTyped' /\ Waiting'
  <2>1. CASE p + Size[l] = end
    <3>1. range' = NoRange
      BY <1>1, <2>1
    <3>2. VarsTyped'
      BY <1>1, <1>6, <3>1 DEF BuddyInv, VarsTyped
    <3>3. Waiting'
      BY <1>1, <3>1 DEF BuddyInv, Waiting
    <3>. QED
      BY <3>2, <3>3
  <2>2. CASE p + Size[l] # end
    <3>1. range' = [index |-> p + Size[l], end |-> end]
      BY <1>1, <1>2, <2>2
    <3>2. /\ p + Size[l] < end /\ p + Size[l] \in p .. end - 1 /\ p + Size[l] \in Frames
          /\ p + Size[l] .. end - 1 \subseteq usable'
      BY <1>1, <1>2, <2>2 DEF BuddyInv, VarsTyped, Block
    <3>3. VarsTyped'
      BY <1>1, <1>2, <1>6, <3>1, <3>2 DEF BuddyInv, VarsTyped
    <3>4. Waiting'
      BY <1>1, <3>1, <3>2 DEF BuddyInv, Waiting
    <3>. QED
      BY <3>3, <3>4
  <2>. QED
    BY <2>1, <2>2
<1>12. BuddyInv'
  BY <1>4, <1>9, <1>10, <1>11 DEF BuddyInv
<1>. QED
  BY <1>1, <1>2, <1>3, <1>4, <1>5, <1>6, <1>12

(* Boot hands over a page of the heap; its word is that of a new page.     *)
LEMMA HandOverInv ==
  ASSUME BuddyInv, NEW p \in Frames, HandOver(p)
  PROVE  /\ BuddyInv'
         /\ Aligned(p, 0) /\ 0 \in Orders /\ Block(p, 0) = {p} /\ FreeBlocks' = FreeBlocks
         /\ InFlight = {} /\ InFlight' = {<<p, 0>>}
<1>. PICK o : o = 0
  OBVIOUS
<1>1. /\ UNCHANGED <<links, page, usable, range, owned>> /\ Idle /\ usable = {} /\ p \in heap
      /\ page[p].level = o /\ heap' = heap \ {p} /\ o \in Orders
      /\ call' = Call("free", p, o, o)
  BY ZoneAssumption DEF HandOver, BuddyInv, Waiting, Orders
<1>2. Aligned(p, o) /\ Block(p, o) = {p}
  BY SizeAssumption, ZoneAssumption DEF Aligned, Block, Frames
<1>3. Threaded' /\ FreeBlocks' = FreeBlocks
  BY <1>1, ListsUnchanged DEF BuddyInv
<1>4. Level' = Level /\ IsFree' = IsFree /\ InFlight = {}
  BY <1>1, CallFacts DEF Level, IsFree, BuddyInv
<1>5. /\ call' \in {NoCall} \cup [op : {"split", "free"}, page : Frames,
                                  level : Orders, goal : Orders]
      /\ ~ Idle' /\ InFlight' = {<<p, o>>}
      /\ call'.op = "free" /\ call'.page = p /\ call'.level = o /\ call'.goal = o
  BY <1>1, CallBegins
<1>6. /\ Blocks(FreeBlocks, owned, {<<p, o>>}, Level, IsFree, (usable \cup heap) \ Block(p, o))
      /\ ~ IsFree[p]
  <2>. PICK free, held, level, isFree, waiting :
         /\ free = FreeBlocks /\ held = owned /\ level = Level /\ isFree = IsFree
         /\ waiting = usable \cup heap
    OBVIOUS
  <2>1. Blocks(free, held, {}, level, isFree, waiting) /\ level \in [Frames -> Orders]
    BY <1>4, Words DEF BuddyInv, SystemBlocks
  <2>2. Block(p, o) \subseteq waiting
    BY <1>1, <1>2
  <2>3. Blocks(free, held, {<<p, o>>}, level, isFree, waiting \ Block(p, o)) /\ ~ isFree[p]
    BY <1>1, <1>2, <2>1, <2>2, ReleaseBlock
  <2>. QED
    BY <2>3
<1>7. (usable \cup heap) \ Block(p, o) = usable' \cup heap'
  BY <1>1, <1>2
<1>8. SystemBlocks' /\ NoPairs(FreeBlocks')
  BY <1>1, <1>3, <1>4, <1>5, <1>6, <1>7 DEF BuddyInv, SystemBlocks
<1>9. Locals'
  <2>1. page[p].free = IsFree[p]
    BY Words DEF BuddyInv
  <2>2. o <= o
    BY <1>1, ZoneAssumption DEF Orders
  <2>. QED
    BY <1>1, <1>5, <1>6, <2>1, <2>2 DEF Locals
<1>10. VarsTyped' /\ Waiting'
  BY <1>1, <1>5 DEF BuddyInv, VarsTyped, Waiting
<1>11. BuddyInv'
  BY <1>3, <1>8, <1>9, <1>10 DEF BuddyInv
<1>. QED
  BY <1>1, <1>2, <1>3, <1>4, <1>5, <1>11

(* A page leaves the front of a list: its word names that list.            *)
LEMMA AllocatePagesInv ==
  ASSUME BuddyInv, NEW o \in Orders, NEW l \in Orders, AllocatePages(o, l)
  PROVE  /\ BuddyInv'
         /\ Items' = [Items EXCEPT ![l] = Tail(@)] /\ Items[l] # <<>>
         /\ InFlight = {} /\ FreeBlocks' \cup InFlight' = FreeBlocks
<1>. PICK p : p = head[l]
  OBVIOUS
<1>1. /\ UNCHANGED <<page, boot, owned>> /\ Idle /\ Booted /\ FreeList!PopLink(l)
      /\ call' = Call("split", p, page[p].level, o) /\ l \in Candidates(o)
  BY DEF AllocatePages
<1>2. /\ Threaded' /\ Items' = [Items EXCEPT ![l] = Tail(@)] /\ Items[l] # <<>>
      /\ <<p, l>> \in FreeBlocks /\ FreeBlocks' = FreeBlocks \ {<<p, l>>}
  BY <1>1, Popped DEF BuddyInv
<1>3. Level' = Level /\ IsFree' = IsFree /\ InFlight = {}
  BY <1>1, CallFacts DEF Level, IsFree, BuddyInv
<1>. PICK free, held, level, isFree, waiting :
       /\ free = FreeBlocks /\ held = owned /\ level = Level /\ isFree = IsFree
       /\ waiting = usable \cup heap
  OBVIOUS
<1>4. Blocks(free, held, {}, level, isFree, waiting) /\ <<p, l>> \in free
  BY <1>2, <1>3 DEF BuddyInv, SystemBlocks
<1>5. p \in Frames /\ level[p] = l
  BY <1>4 DEF Blocks, Typed, Told, All
<1>6. page[p].level = l
  BY <1>5, Words DEF BuddyInv
<1>7. /\ call' \in {NoCall} \cup [op : {"split", "free"}, page : Frames,
                                  level : Orders, goal : Orders]
      /\ ~ Idle' /\ InFlight' = {<<p, l>>}
      /\ call'.op = "split" /\ call'.page = p /\ call'.level = l /\ call'.goal = o
  BY <1>1, <1>5, <1>6, CallBegins
<1>8. Blocks(free \ {<<p, l>>}, held, {<<p, l>>}, level, isFree, waiting)
  BY <1>4, TakeBlock
<1>9. SystemBlocks'
  BY <1>1, <1>2, <1>3, <1>7, <1>8 DEF SystemBlocks, boot
<1>10. NoPairs(FreeBlocks')
  BY <1>2 DEF BuddyInv, NoPairs
<1>11. o <= l
  BY <1>1 DEF Candidates
<1>12. Locals'
  BY <1>1, <1>7, <1>11 DEF Locals, Booted, boot
<1>13. VarsTyped' /\ Waiting'
  BY <1>1, <1>7 DEF BuddyInv, VarsTyped, Waiting, boot
<1>14. BuddyInv'
  BY <1>2, <1>9, <1>10, <1>12, <1>13 DEF BuddyInv
<1>. QED
  BY <1>2, <1>3, <1>7, <1>14

(* A caller gives a block back: its first page says its level.             *)
LEMMA FreePagesInv ==
  ASSUME BuddyInv, NEW p \in Frames, NEW o \in Orders, FreePages(p, o)
  PROVE  /\ BuddyInv'
         /\ <<p, o>> \in owned /\ FreeBlocks' = FreeBlocks
         /\ InFlight = {} /\ InFlight' = {<<p, o>>}
<1>1. Threaded' /\ FreeBlocks' = FreeBlocks
  BY ListsUnchanged DEF BuddyInv, FreePages
<1>2. Level' = Level /\ IsFree' = IsFree /\ InFlight = {} /\ <<p, o>> \in owned
  BY CallFacts DEF FreePages, Level, IsFree, BuddyInv
<1>. PICK free, held, level, isFree, waiting :
       /\ free = FreeBlocks /\ held = owned /\ level = Level /\ isFree = IsFree
       /\ waiting = usable \cup heap
  OBVIOUS
<1>. PICK x : x = <<p, o>>
  OBVIOUS
<1>3. Blocks(free, held, {}, level, isFree, waiting) /\ x \in held
  BY <1>2 DEF BuddyInv, SystemBlocks
<1>4. Blocks(free, held \ {x}, {x}, level, isFree, waiting) /\ ~ isFree[p] /\ level[p] = o
  BY <1>3, GiveBlock
<1>5. ~ page[p].free /\ page[p].level = o
  BY <1>4, Words DEF BuddyInv
<1>6. call' = Call("free", p, o, o)
  BY <1>5 DEF FreePages
<1>7. /\ call' \in {NoCall} \cup [op : {"split", "free"}, page : Frames,
                                  level : Orders, goal : Orders]
      /\ ~ Idle' /\ InFlight' = {<<p, o>>}
      /\ call'.op = "free" /\ call'.page = p /\ call'.level = o /\ call'.goal = o
  BY <1>6, CallBegins
<1>8. SystemBlocks' /\ NoPairs(FreeBlocks')
  BY <1>1, <1>2, <1>4, <1>7 DEF BuddyInv, SystemBlocks, FreePages, boot
<1>9. o <= o
  BY ZoneAssumption DEF Orders
<1>10. Locals'
  BY <1>5, <1>7, <1>9 DEF Locals, FreePages
<1>11. VarsTyped' /\ Waiting'
  BY <1>7 DEF BuddyInv, VarsTyped, Waiting, boot, FreePages
<1>12. BuddyInv'
  BY <1>1, <1>8, <1>10, <1>11 DEF BuddyInv
<1>. QED
  BY <1>1, <1>2, <1>7, <1>12

(* A page that begins no free block is in no list.                         *)
LEMMA InNoList ==
  ASSUME NEW n, \A b \in FreeBlocks : b[1] # n
  PROVE  \A k \in Orders : n \notin ToSet(Items[k])
<1>. SUFFICES ASSUME NEW k \in Orders, n \in ToSet(Items[k]) PROVE FALSE
  OBVIOUS
<1>1. <<n, k>> \in FreeBlocks
  BY FreeBlocksAre, BlocksOfMember
<1>2. <<n, k>>[1] = n
  OBVIOUS
<1>. QED
  BY <1>1, <1>2

(* The upper half of the block becomes a free block.                       *)
LEMMA SplitStepInv ==
  ASSUME BuddyInv, SplitStep
  PROVE  /\ BuddyInv'
         /\ \E l \in Orders, n \in Frames :
              /\ \A k \in Orders : n \notin ToSet(Items[k])
              /\ Items' = [Items EXCEPT ![l] = Cons(n, @)]
         /\ Cover(FreeBlocks' \cup InFlight') = Cover(FreeBlocks \cup InFlight)
<1>. PICK p, k, g : p = call.page /\ k = call.level /\ g = call.goal
  OBVIOUS
<1>a. PICK o, buddy : o = k - 1 /\ buddy = BuddyOffset(p, o)
  OBVIOUS
<1>1. /\ call.op = "split" /\ k > g
      /\ page' = [page EXCEPT ![buddy] = [level |-> o, free |-> TRUE]]
      /\ FreeList!PushLink(o, buddy) /\ call' = [call EXCEPT !.level = o]
      /\ UNCHANGED <<boot, owned>>
  BY <1>a DEF SplitStep, BuddyIndex
<1>2. /\ ~ Idle /\ InFlight = {<<p, k>>} /\ p \in Frames /\ k \in Orders /\ g \in Orders
      /\ call = Call("split", p, k, g)
  BY <1>1, CallFacts DEF BuddyInv, Idle
<1>3. o \in Orders /\ k = o + 1 /\ g <= o /\ o < MaxOrder
  <2>1. k > g /\ k \in 0 .. MaxOrder /\ g \in 0 .. MaxOrder
    BY <1>1, <1>2 DEF Orders
  <2>. QED
    BY <1>a, <2>1, ZoneAssumption DEF Orders
<1>. PICK free, held, level, isFree, waiting :
       /\ free = FreeBlocks /\ held = owned /\ level = Level /\ isFree = IsFree
       /\ waiting = usable \cup heap
  OBVIOUS
<1>. PICK level2, isFree2 : level2 = Level' /\ isFree2 = IsFree'
  OBVIOUS
<1>b. PICK moving, upper, rest :
       moving = {<<p, k>>} /\ upper = {<<buddy, o>>} /\ rest = {<<p, o>>}
  OBVIOUS
<1>4. /\ Blocks(free, held, moving, level, isFree, waiting)
      /\ Cuts(p, k, o, buddy, moving, upper, rest)
  BY <1>2, <1>3, <1>a, <1>b DEF BuddyInv, SystemBlocks, Cuts
<1>5. /\ buddy \in Frames /\ Aligned(buddy, o) /\ BuddyOffset(buddy, o) = p
      /\ p \in Nat /\ Aligned(p, k)
  BY <1>4, UpperHalf
<1>6. /\ page' \in [Frames -> [level : Orders, free : BOOLEAN]]
      /\ Tells(buddy, o, level, isFree, level2, isFree2) /\ isFree2[buddy]
  BY <1>1, <1>3, <1>5, WordWritten DEF BuddyInv, Tells
<1>7. /\ Blocks(free \cup upper, held, rest, level2, isFree2, waiting)
      /\ \A b \in free : b[1] # buddy /\ b[1] # p
  <2>1. Blocks(free \cup upper, held, rest, level2, isFree2, waiting)
    BY <1>4, <1>6, SplitMoving
  <2>2. ASSUME NEW b \in free \cup held PROVE b[1] # buddy /\ b[1] # p
    BY <1>4, UpperUnused
  <2>. QED
    BY <2>1, <2>2
<1>8. \A j \in Orders : buddy \notin ToSet(Items[j])
  BY <1>7, InNoList
<1>9. /\ Threaded' /\ Items' = [Items EXCEPT ![o] = Cons(buddy, @)]
      /\ FreeBlocks' = FreeBlocks \cup {<<buddy, o>>}
  BY <1>1, <1>3, <1>5, <1>8, Pushed DEF BuddyInv
<1>10. call' = Call("split", p, o, g)
  BY <1>1, <1>2 DEF Call
<1>11. /\ call' \in {NoCall} \cup [op : {"split", "free"}, page : Frames,
                                   level : Orders, goal : Orders]
       /\ ~ Idle' /\ InFlight' = {<<p, o>>}
       /\ call'.op = "split" /\ call'.page = p /\ call'.level = o /\ call'.goal = g
  BY <1>2, <1>3, <1>10, CallBegins
<1>12. SystemBlocks'
  BY <1>1, <1>7, <1>9, <1>11, <1>b DEF SystemBlocks, boot
<1>13. NoPairs(FreeBlocks')
  <2>1. /\ free \subseteq Frames \X Orders /\ \A b \in free : Aligned(b[1], b[2])
        /\ NoPairs(free)
    <3>1. \A b \in free : b \in All(free, held, moving)
      BY DEF All
    <3>. QED
      BY <1>4, <3>1, BlockFacts DEF BuddyInv, Blocks, Typed
  <2>2. <<BuddyOffset(buddy, o), o>> \notin free
    <3>1. <<p, o>>[1] = p
      OBVIOUS
    <3>. QED
      BY <1>5, <1>7, <3>1
  <2>3. NoPairs(free \cup {<<buddy, o>>})
    BY <1>3, <1>5, <2>1, <2>2, NoPairsAdd
  <2>. QED
    BY <1>9, <2>3
<1>14. usable = {} /\ heap = {} /\ range = NoRange
  <2>1. usable = {} /\ heap = {}
    BY <1>1, <1>2 DEF BuddyInv, Locals, Booted
  <2>2. ASSUME range # NoRange PROVE FALSE
    <3>1. /\ range.index \in Nat /\ range.end \in Nat /\ range.index < range.end
          /\ range.index .. range.end - 1 \subseteq {}
      BY <2>1, <2>2, ZoneAssumption DEF BuddyInv, VarsTyped, Waiting, Frames
    <3>. QED
      BY <3>1
  <2>. QED
    BY <2>1, <2>2
<1>15. Locals'
  BY <1>1, <1>3, <1>11, <1>14 DEF Locals, Booted, boot
<1>16. VarsTyped' /\ Waiting'
  BY <1>1, <1>6, <1>11, <1>14 DEF BuddyInv, VarsTyped, Waiting, boot
<1>17. BuddyInv'
  BY <1>9, <1>12, <1>13, <1>15, <1>16 DEF BuddyInv
<1>18. Cover(FreeBlocks' \cup InFlight') = Cover(FreeBlocks \cup InFlight)
  <2>1. Cover((free \cup upper) \cup rest) = Cover(free \cup moving)
    BY <1>4, <1>5, CutCover
  <2>2. FreeBlocks' \cup InFlight' = (free \cup upper) \cup rest
    BY <1>9, <1>11, <1>b
  <2>. QED
    BY <1>2, <1>b, <2>1, <2>2
<1>. QED
  BY <1>3, <1>5, <1>8, <1>9, <1>17, <1>18

(* The block is the caller's, and its first page says it is busy.          *)
LEMMA SplitDoneInv ==
  ASSUME BuddyInv, SplitDone
  PROVE  /\ BuddyInv'
         /\ Items' = Items /\ FreeBlocks' = FreeBlocks /\ Booted
         /\ InFlight = {<<call.page, call.goal>>} /\ InFlight' = {}
         /\ call.page \in Frames /\ call.goal \in Orders /\ call.level = call.goal
<1>. PICK p, o : p = call.page /\ o = call.goal
  OBVIOUS
<1>1. /\ call.op = "split" /\ call.level <= o
      /\ page' = [page EXCEPT ![p] = [level |-> o, free |-> FALSE]]
      /\ owned' = owned \cup {<<p, o>>} /\ call' = NoCall /\ UNCHANGED <<links, boot>>
  BY DEF SplitDone
<1>2. /\ ~ Idle /\ InFlight = {<<p, call.level>>} /\ p \in Frames /\ o \in Orders
      /\ call.level \in Orders
  BY <1>1, CallFacts DEF BuddyInv, Idle
<1>3. call.level = o /\ Booted
  BY <1>1, <1>2, ZoneAssumption DEF BuddyInv, Locals, Orders
<1>4. Threaded' /\ Items' = Items /\ FreeBlocks' = FreeBlocks
  BY <1>1, ListsUnchanged DEF BuddyInv
<1>. PICK free, held, level, isFree, waiting :
       /\ free = FreeBlocks /\ held = owned /\ level = Level /\ isFree = IsFree
       /\ waiting = usable \cup heap
  OBVIOUS
<1>. PICK level2, isFree2 : level2 = Level' /\ isFree2 = IsFree'
  OBVIOUS
<1>b. PICK moving : moving = {<<p, o>>}
  OBVIOUS
<1>5. Blocks(free, held, moving, level, isFree, waiting)
  BY <1>2, <1>3, <1>b DEF BuddyInv, SystemBlocks
<1>6. /\ page' \in [Frames -> [level : Orders, free : BOOLEAN]]
      /\ Tells(p, o, level, isFree, level2, isFree2) /\ ~ isFree2[p]
  BY <1>1, <1>2, WordWritten, ZenonT(30) DEF BuddyInv, Tells
<1>7. Blocks(free, held \cup moving, {}, level2, isFree2, waiting)
  <2>1. Moves(p, o, moving)
    BY <1>b DEF Moves
  <2>. QED
    BY <1>5, <1>6, <2>1, SettleMoving
<1>8. /\ call' \in {NoCall} \cup [op : {"split", "free"}, page : Frames,
                                  level : Orders, goal : Orders]
      /\ Idle' /\ InFlight' = {}
  BY <1>1, CallEnds
<1>9. SystemBlocks' /\ NoPairs(FreeBlocks')
  BY <1>1, <1>4, <1>7, <1>8, <1>b DEF BuddyInv, SystemBlocks, boot
<1>10. Locals'
  BY <1>8 DEF Locals
<1>11. VarsTyped' /\ Waiting'
  <2>1. usable' = {} /\ heap' = {} /\ range' = range
    BY <1>1, <1>3 DEF Booted, boot
  <2>. QED
    BY <1>1, <1>6, <1>8, <2>1 DEF BuddyInv, VarsTyped, Waiting, boot
<1>12. BuddyInv'
  BY <1>4, <1>9, <1>10, <1>11 DEF BuddyInv
<1>. QED
  BY <1>2, <1>3, <1>4, <1>8, <1>12

(* A page that says it is the free buddy of the block in progress is one.  *)
LEMMA BuddyIsListed ==
  ASSUME BuddyInv, call.op = "free", CanMerge(call.page, call.level)
  PROVE  /\ BuddyIndex(call.page, call.level) \in Frames /\ call.level < MaxOrder
         /\ <<BuddyIndex(call.page, call.level), call.level>> \in FreeBlocks
<1>. PICK p, o : p = call.page /\ o = call.level
  OBVIOUS
<1>a. PICK buddy, l : buddy = BuddyOffset(p, o) /\ l = Lower(p, buddy)
  OBVIOUS
<1>b. PICK moving, other, grown :
        moving = {<<p, o>>} /\ other = {<<buddy, o>>} /\ grown = {<<l, o + 1>>}
  OBVIOUS
<1>1. /\ o < MaxOrder /\ buddy \in Frames /\ page[buddy] = [level |-> o, free |-> TRUE]
  BY <1>a DEF CanMerge, BuddyIndex
<1>2. ~ Idle /\ InFlight = {<<p, o>>}
  BY CallFacts DEF BuddyInv, Idle
<1>. PICK free, held, level, isFree, waiting :
       /\ free = FreeBlocks /\ held = owned /\ level = Level /\ isFree = IsFree
       /\ waiting = usable \cup heap
  OBVIOUS
<1>3. /\ Blocks(free, held, moving, level, isFree, waiting)
      /\ Joins(p, o, buddy, l, moving, other, grown)
  BY <1>1, <1>2, <1>a, <1>b DEF BuddyInv, SystemBlocks, Joins
<1>4. level[buddy] = o /\ isFree[buddy]
  <2>1. page[buddy].level = o /\ page[buddy].free
    BY <1>1
  <2>. QED
    BY <1>1, <2>1, Words DEF BuddyInv
<1>5. other \subseteq free
  BY <1>3, <1>4, BuddyIsFree
<1>. QED
  BY <1>1, <1>5, <1>a, <1>b DEF BuddyIndex

(* The buddy leaves its list and the block grows.                          *)
LEMMA MergeStepInv ==
  ASSUME BuddyInv, MergeStep
  PROVE  /\ BuddyInv'
         /\ \E l \in Orders, n \in Frames :
              /\ n \in ToSet(Items[l])
              /\ Items' = [Items EXCEPT ![l] = RemoveFirst(@, n)]
         /\ Cover(FreeBlocks' \cup InFlight') = Cover(FreeBlocks \cup InFlight)
<1>. PICK p, o, g : p = call.page /\ o = call.level /\ g = call.goal
  OBVIOUS
<1>a. PICK buddy, l, k : buddy = BuddyOffset(p, o) /\ l = Lower(p, buddy) /\ k = o + 1
  OBVIOUS
<1>b. PICK moving, other, grown :
        moving = {<<p, o>>} /\ other = {<<buddy, o>>} /\ grown = {<<l, o + 1>>}
  OBVIOUS
<1>1. /\ call.op = "free" /\ FreeList!RemoveLink(o, buddy)
      /\ call' = [call EXCEPT !.page = l, !.level = k]
      /\ UNCHANGED <<page, boot, owned>>
      /\ o < MaxOrder /\ buddy \in Frames /\ page[buddy] = [level |-> o, free |-> TRUE]
  BY <1>a DEF MergeStep, CanMerge, BuddyIndex
<1>2. /\ ~ Idle /\ InFlight = {<<p, o>>} /\ p \in Frames /\ o \in Orders /\ g \in Orders
      /\ call = Call("free", p, o, g)
  BY <1>1, CallFacts DEF BuddyInv, Idle
<1>. PICK free, held, level, isFree, waiting :
       /\ free = FreeBlocks /\ held = owned /\ level = Level /\ isFree = IsFree
       /\ waiting = usable \cup heap
  OBVIOUS
<1>3. /\ Blocks(free, held, moving, level, isFree, waiting)
      /\ Joins(p, o, buddy, l, moving, other, grown)
  BY <1>1, <1>2, <1>a, <1>b DEF BuddyInv, SystemBlocks, Joins
<1>4. level[buddy] = o /\ isFree[buddy]
  <2>1. page[buddy].level = o /\ page[buddy].free
    BY <1>1
  <2>. QED
    BY <1>1, <2>1, Words DEF BuddyInv
<1>5. isFree[p] => level[p] < o
  <2>1. page[p].free => page[p].level < o
    BY <1>1, <1>2 DEF BuddyInv, Locals
  <2>. QED
    BY <1>2, <2>1, Words DEF BuddyInv
<1>6. /\ other \subseteq free
      /\ Blocks(free \ other, held, grown, level, isFree, waiting)
      /\ l \in Frames /\ o + 1 \in Orders
      /\ isFree[l] => level[l] < o + 1
  <2>1. other \subseteq free
    BY <1>3, <1>4, BuddyIsFree
  <2>2. Blocks(free \ other, held, grown, level, isFree, waiting)
    BY <1>3, <1>4, <1>5, MergeMoving
  <2>3. l \in Frames /\ o + 1 \in Orders
    <3>1. l \in Frames
      BY <1>1, <1>2, <1>a DEF Lower
    <3>. QED
      BY <1>1, <1>2, <3>1, ZoneAssumption DEF Orders
  <2>4. isFree[l] => level[l] < o + 1
    BY <1>3, <1>4, <1>5, MergeMoving
  <2>. QED
    BY <2>1, <2>2, <2>3, <2>4
<1>7. <<buddy, o>> \in FreeBlocks
  BY <1>6, <1>b
<1>8. /\ Threaded' /\ Items' = [Items EXCEPT ![o] = RemoveFirst(@, buddy)]
      /\ FreeBlocks' = FreeBlocks \ {<<buddy, o>>}
  BY <1>1, <1>2, <1>7, Removed DEF BuddyInv
<1>9. call' = Call("free", l, k, g)
  BY <1>1, <1>2 DEF Call
<1>10. /\ call' \in {NoCall} \cup [op : {"split", "free"}, page : Frames,
                                   level : Orders, goal : Orders]
       /\ ~ Idle' /\ InFlight' = {<<l, k>>}
       /\ call'.op = "free" /\ call'.page = l /\ call'.level = k /\ call'.goal = g
  <2>1. k \in Orders
    BY <1>6, <1>a
  <2>. QED
    BY <1>2, <1>6, <1>9, <2>1, CallBegins
<1>11. Level' = Level /\ IsFree' = IsFree
  BY <1>1 DEF Level, IsFree
<1>12. SystemBlocks'
  BY <1>1, <1>6, <1>8, <1>10, <1>11, <1>a, <1>b DEF SystemBlocks, boot
<1>13. NoPairs(FreeBlocks')
  BY <1>8 DEF BuddyInv, NoPairs
<1>14. Locals'
  <2>1. g <= k
    <3>1. g <= o
      BY <1>2 DEF BuddyInv, Locals
    <3>2. g \in Nat /\ o \in Nat
      BY <1>2, ZoneAssumption DEF Orders
    <3>. QED
      BY <1>a, <3>1, <3>2
  <2>2. page[l].free => page[l].level < k
    BY <1>6, <1>a, Words DEF BuddyInv
  <2>. QED
    BY <1>1, <1>10, <2>1, <2>2 DEF Locals
<1>15. VarsTyped' /\ Waiting'
  BY <1>1, <1>10 DEF BuddyInv, VarsTyped, Waiting, boot
<1>16. BuddyInv'
  BY <1>8, <1>12, <1>13, <1>14, <1>15 DEF BuddyInv
<1>17. Cover(FreeBlocks' \cup InFlight') = Cover(FreeBlocks \cup InFlight)
  <2>1. Aligned(p, o) /\ p \in Nat
    <3>1. <<p, o>> \in All(free, held, moving)
      BY <1>b DEF All
    <3>. QED
      BY <1>3, <3>1, BlockFacts
  <2>2. Cover((free \ other) \cup grown) = Cover(free \cup moving)
    BY <1>2, <1>3, <1>7, <2>1, MergeCover
  <2>3. FreeBlocks' \cup InFlight' = (free \ other) \cup grown
    BY <1>8, <1>10, <1>a, <1>b
  <2>. QED
    BY <1>2, <1>b, <2>2, <2>3
<1>18. buddy \in ToSet(Items[o])
  BY <1>7, FreeBlocksAre, BlocksOfMember
<1>. QED
  BY <1>1, <1>2, <1>8, <1>16, <1>17, <1>18

(* The block is in no list, and goes to the front of the list of its       *)
(* level: its buddy is not in that list, or its word would say so.         *)
LEMMA FreeDoneInv ==
  ASSUME BuddyInv, FreeDone
  PROVE  /\ BuddyInv'
         /\ \E l \in Orders, n \in Frames :
              /\ \A k \in Orders : n \notin ToSet(Items[k])
              /\ Items' = [Items EXCEPT ![l] = Cons(n, @)]
         /\ FreeBlocks' \cup InFlight' = FreeBlocks \cup InFlight
<1>. PICK p, o : p = call.page /\ o = call.level
  OBVIOUS
<1>b. PICK moving : moving = {<<p, o>>}
  OBVIOUS
<1>1. /\ call.op = "free" /\ ~ CanMerge(p, o)
      /\ page' = [page EXCEPT ![p] = [level |-> o, free |-> TRUE]]
      /\ FreeList!PushLink(o, p) /\ call' = NoCall /\ UNCHANGED <<boot, owned>>
  BY DEF FreeDone
<1>2. ~ Idle /\ InFlight = {<<p, o>>} /\ p \in Frames /\ o \in Orders
  BY <1>1, CallFacts DEF BuddyInv, Idle
<1>. PICK free, held, level, isFree, waiting :
       /\ free = FreeBlocks /\ held = owned /\ level = Level /\ isFree = IsFree
       /\ waiting = usable \cup heap
  OBVIOUS
<1>. PICK level2, isFree2 : level2 = Level' /\ isFree2 = IsFree'
  OBVIOUS
<1>3. Blocks(free, held, moving, level, isFree, waiting)
  BY <1>2, <1>b DEF BuddyInv, SystemBlocks
<1>4. /\ page' \in [Frames -> [level : Orders, free : BOOLEAN]]
      /\ Tells(p, o, level, isFree, level2, isFree2) /\ isFree2[p]
      /\ \A q \in Frames : q # p => page'[q] = page[q]
  BY <1>1, <1>2, WordWritten, ZenonT(30) DEF BuddyInv, Tells
<1>5. /\ Blocks(free \cup moving, held, {}, level2, isFree2, waiting)
      /\ \A b \in free \cup held : b[1] # p
  <2>1. Moves(p, o, moving)
    BY <1>b DEF Moves
  <2>2. Blocks(free \cup moving, held, {}, level2, isFree2, waiting)
    BY <1>3, <1>4, <2>1, SettleMoving
  <2>3. ASSUME NEW b \in free \cup held PROVE b[1] # p
    BY <1>3, <2>1, OwnFirstPage
  <2>. QED
    BY <2>2, <2>3
<1>6. \A j \in Orders : p \notin ToSet(Items[j])
  BY <1>5, InNoList
<1>7. /\ Threaded' /\ Items' = [Items EXCEPT ![o] = Cons(p, @)]
      /\ FreeBlocks' = FreeBlocks \cup {<<p, o>>}
  BY <1>1, <1>2, <1>6, Pushed DEF BuddyInv
<1>8. /\ call' \in {NoCall} \cup [op : {"split", "free"}, page : Frames,
                                  level : Orders, goal : Orders]
      /\ Idle' /\ InFlight' = {}
  BY <1>1, CallEnds
<1>9. SystemBlocks'
  BY <1>1, <1>5, <1>7, <1>8, <1>b DEF SystemBlocks, boot
<1>10. NoPairs(FreeBlocks')
  <2>1. /\ free \subseteq Frames \X Orders /\ \A b \in free : Aligned(b[1], b[2])
        /\ NoPairs(free) /\ Aligned(p, o)
    <3>1. /\ \A b \in free : b \in All(free, held, moving)
          /\ <<p, o>> \in All(free, held, moving)
      BY <1>b DEF All
    <3>. QED
      BY <1>3, <3>1, BlockFacts DEF BuddyInv, Blocks, Typed
  <2>2. o < MaxOrder => <<BuddyOffset(p, o), o>> \notin free
    <3>1. SUFFICES ASSUME o < MaxOrder, <<BuddyOffset(p, o), o>> \in free PROVE FALSE
      OBVIOUS
    <3>a. PICK buddy, x : buddy = BuddyOffset(p, o) /\ x = <<buddy, o>>
      OBVIOUS
    <3>2. x \in free /\ x[1] = buddy /\ x[2] = o /\ buddy \in Frames
      BY <2>1, <3>1, <3>a
    <3>3. isFree[buddy] /\ level[buddy] = o
      BY <1>3, <3>2 DEF Blocks, Told
    <3>4. page[buddy] = [level |-> o, free |-> TRUE]
      BY <3>2, <3>3, Words DEF BuddyInv
    <3>. QED
      BY <1>1, <3>1, <3>2, <3>4, <3>a DEF CanMerge, BuddyIndex
  <2>3. NoPairs(free \cup {<<p, o>>})
    BY <1>2, <2>1, <2>2, NoPairsAdd
  <2>. QED
    BY <1>7, <2>3
<1>11. Locals'
  BY <1>8 DEF Locals
<1>12. p \notin usable \cup heap
  <2>1. <<p, o>> \in All(free, held, moving)
    BY <1>b DEF All
  <2>2. Size[o] \in Nat \ {0} /\ p \in Nat
    BY <1>2, SizePositive, ZoneAssumption DEF Frames
  <2>. QED
    BY <1>3, <2>1, <2>2 DEF Blocks, Unclaimed
<1>13. VarsTyped'
  BY <1>1, <1>4, <1>8 DEF BuddyInv, VarsTyped, boot
<1>14. Waiting'
  BY <1>1, <1>4, <1>12 DEF BuddyInv, VarsTyped, Waiting, boot
<1>15. BuddyInv'
  BY <1>7, <1>9, <1>10, <1>11, <1>13, <1>14 DEF BuddyInv
<1>. QED
  BY <1>2, <1>6, <1>7, <1>8, <1>15

-----------------------------------------------------------------------------
(* The invariant holds always.                                             *)

(* Every step keeps it; a call that fails changes nothing.                 *)
LEMMA StepInv == BuddyInv /\ [Next]_vars => BuddyInv'
<1>. SUFFICES ASSUME BuddyInv, [Next]_vars PROVE BuddyInv'
  OBVIOUS
<1>1. CASE UNCHANGED vars
  <2>1. Threaded' /\ FreeBlocks' = FreeBlocks
    BY <1>1, ListsUnchanged DEF BuddyInv, vars
  <2>2. Level' = Level /\ IsFree' = IsFree /\ InFlight' = InFlight
    BY <1>1 DEF vars, Level, IsFree, InFlight, Idle
  <2>3. SystemBlocks' /\ NoPairs(FreeBlocks')
    BY <1>1, <2>1, <2>2 DEF BuddyInv, SystemBlocks, vars, boot
  <2>4. VarsTyped' /\ Waiting' /\ Locals'
    BY <1>1 DEF BuddyInv, VarsTyped, Waiting, Locals, vars, boot, Idle, Booted
  <2>. QED
    BY <2>1, <2>3, <2>4 DEF BuddyInv
<1>2. CASE \E p \in Frames, end \in Frames \cup {Offset + Pages} : FreePageRange(p, end)
  BY <1>2, FreePageRangeInv
<1>3. CASE \E l \in Orders : FreePageRangeStep(l)
  BY <1>3, FreePageRangeStepInv
<1>4. CASE \E p \in Frames : HandOver(p)
  BY <1>4, HandOverInv
<1>5. CASE \E o, l \in Orders : AllocatePages(o, l)
  BY <1>5, AllocatePagesInv
<1>6. CASE \E o \in Orders : AllocateFails(o)
  BY <1>1, <1>6 DEF AllocateFails
<1>7. CASE \E p \in Frames, o \in Orders : FreePages(p, o)
  BY <1>7, FreePagesInv
<1>8. CASE Step
  BY <1>8, SplitStepInv, SplitDoneInv, MergeStepInv, FreeDoneInv DEF Step
<1>. QED
  BY <1>1, <1>2, <1>3, <1>4, <1>5, <1>6, <1>7, <1>8 DEF Next

(* In every moment of every call the lists are threaded through the pages, *)
(* the blocks are apart and described by their pages, and no free block is *)
(* beside its free buddy.                                                  *)
THEOREM BuddyInvariant == Spec => []BuddyInv
<1>1. Init => BuddyInv
  BY InitInv
<1>. QED
  BY <1>1, StepInv, PTL DEF Spec

-----------------------------------------------------------------------------
(* What it means for the callers of the lists.                             *)

(* The lists are well linked both ways, and no page is in two of them.     *)
LEMMA ListsAreWell == Threaded => FreeList!WellLinked
<1>. SUFFICES ASSUME Threaded PROVE FreeList!WellLinked
  OBVIOUS
<1>. PICK items, nx, pv, hd, tl : /\ items = Items /\ nx = next /\ pv = prev
                                  /\ hd = head /\ tl = tail
  OBVIOUS
<1>1. Threads(items, nx, pv, hd, tl)
  BY DEF Threaded
<1>2. \A l \in Orders : FreeList!Forward(l) = items[l]
  BY DEF Items
<1>3. \A l \in Orders : FreeList!Walk(tl[l], pv) = FreeList!Reverse(items[l])
  BY <1>1, ThreadWalk DEF FreeList!Reverse, Reverse
<1>4. \A l \in Orders : FreeList!IsInjective(items[l])
  BY <1>1 DEF Threads, FreeList!IsInjective, IsInjective
<1>5. \A k, l \in Orders : k # l => FreeList!ToSet(items[k]) \cap FreeList!ToSet(items[l]) = {}
  BY <1>1 DEF Threads, FreeList!ToSet, ToSet
<1>. QED
  BY <1>2, <1>3, <1>4, <1>5 DEF FreeList!WellLinked, FreeList!Members

(* The pages of the lists are the first pages of the free blocks.          *)
LEMMA ListedPages ==
  /\ \A p : \A l \in Orders : p \in FreeList!Members(l) <=> <<p, l>> \in FreeBlocks
  /\ \A p : p \in FreeList!Linked <=> \E l \in Orders : <<p, l>> \in FreeBlocks
<1>1. \A p : \A l \in Orders : p \in FreeList!Members(l) <=> <<p, l>> \in FreeBlocks
  BY DEF FreeBlocks
<1>. QED
  BY <1>1 DEF FreeList!Linked

(* remove is only called with the list the page is in, push only with a    *)
(* page that is in no list: the lists are never mixed up.                  *)
LEMMA InvRemoveSafe == BuddyInv => RemoveSafe
<1>. SUFFICES ASSUME BuddyInv PROVE RemoveSafe
  OBVIOUS
<1>1. FreeList!WellLinked
  BY ListsAreWell DEF BuddyInv
<1>2. ASSUME call.op = "free", CanMerge(call.page, call.level)
      PROVE  BuddyIndex(call.page, call.level) \in FreeList!Members(call.level)
  <2>1. call.level \in Orders
    BY <1>2, CallFacts DEF BuddyInv, Idle
  <2>. QED
    BY <1>2, <2>1, BuddyIsListed, ListedPages
<1>. PICK free, held, level, isFree, waiting :
       /\ free = FreeBlocks /\ held = owned /\ level = Level /\ isFree = IsFree
       /\ waiting = usable \cup heap
  OBVIOUS
<1>3. ASSUME ~ Idle PROVE \A b \in free : b[1] # call.page
  <2>. PICK p, o : p = call.page /\ o = call.level
    OBVIOUS
  <2>a. PICK moving : moving = {<<p, o>>}
    OBVIOUS
  <2>1. Blocks(free, held, moving, level, isFree, waiting) /\ Moves(p, o, moving)
    BY <1>3, <2>a, CallFacts DEF BuddyInv, SystemBlocks, Moves
  <2>2. ASSUME NEW b \in free PROVE b[1] # p
    BY <2>1, OwnFirstPage
  <2>. QED
    BY <2>2
<1>4. ASSUME call.op = "free" PROVE call.page \notin FreeList!Linked
  <2>1. ~ Idle
    BY <1>4 DEF Idle
  <2>2. ASSUME NEW l \in Orders, <<call.page, l>> \in FreeBlocks PROVE FALSE
    <3>1. <<call.page, l>>[1] = call.page
      OBVIOUS
    <3>. QED
      BY <1>3, <2>1, <2>2, <3>1
  <2>. QED
    BY <2>2, ListedPages
<1>5. ASSUME call.op = "split", call.level > call.goal
      PROVE  BuddyIndex(call.page, call.level - 1) \notin FreeList!Linked
  <2>. PICK p, k, g : p = call.page /\ k = call.level /\ g = call.goal
    OBVIOUS
  <2>a. PICK o, buddy : o = k - 1 /\ buddy = BuddyOffset(p, o)
    OBVIOUS
  <2>b. PICK moving, upper, rest :
          moving = {<<p, k>>} /\ upper = {<<buddy, o>>} /\ rest = {<<p, o>>}
    OBVIOUS
  <2>1. ~ Idle /\ k \in Orders /\ k \in Nat /\ g \in Nat /\ InFlight = {<<p, k>>}
    BY <1>5, CallFacts, ZoneAssumption DEF BuddyInv, Idle, Orders
  <2>2. o \in Orders /\ k = o + 1
    BY <1>5, <2>1, <2>a, ZoneAssumption DEF Orders
  <2>3. /\ Blocks(free, held, moving, level, isFree, waiting)
        /\ Cuts(p, k, o, buddy, moving, upper, rest)
    BY <2>1, <2>2, <2>a, <2>b DEF BuddyInv, SystemBlocks, Cuts
  <2>4. ASSUME NEW l \in Orders, <<buddy, l>> \in free PROVE FALSE
    <3>1. <<buddy, l>>[1] = buddy
      OBVIOUS
    <3>2. ASSUME NEW b \in free \cup held PROVE b[1] # buddy
      BY <2>3, UpperUnused
    <3>. QED
      BY <2>4, <3>1, <3>2
  <2>5. buddy \notin FreeList!Linked
    BY <2>4, ListedPages
  <2>. QED
    BY <2>5, <2>a DEF BuddyIndex
<1>. QED
  BY <1>1, <1>2, <1>4, <1>5 DEF RemoveSafe

(* The variables are in range, the pages say the truth about the blocks,   *)
(* and no page is in two of them.                                          *)
LEMMA InvBlocksSound == BuddyInv => BlocksSound
<1>. SUFFICES ASSUME BuddyInv PROVE BlocksSound
  OBVIOUS
<1>. PICK free, held, moving, level, isFree, waiting :
       /\ free = FreeBlocks /\ held = owned /\ level = Level /\ isFree = IsFree
       /\ waiting = usable \cup heap /\ moving = InFlight
  OBVIOUS
<1>1. Blocks(free, held, moving, level, isFree, waiting)
  BY DEF BuddyInv, SystemBlocks
<1>2. TypeOK
  <2>1. FreeList!TypeOK
    BY DEF BuddyInv, Threaded, Threads, FreeList!TypeOK, FreeList!Pointer
  <2>2. owned \subseteq Frames \X Orders
    BY <1>1 DEF Blocks, Typed, All
  <2>. QED
    BY <2>1, <2>2 DEF TypeOK, BuddyInv, VarsTyped
<1>3. HeadsTrue
  <2>1. ASSUME NEW b \in free PROVE page[b[1]] = [level |-> b[2], free |-> TRUE]
    <3>1. isFree[b[1]] /\ level[b[1]] = b[2] /\ b[1] \in Frames
      BY <1>1 DEF Blocks, Told, Typed, All
    <3>. QED
      BY <3>1, Words DEF BuddyInv
  <2>2. ASSUME NEW b \in held PROVE page[b[1]] = [level |-> b[2], free |-> FALSE]
    <3>1. ~ isFree[b[1]] /\ level[b[1]] = b[2] /\ b[1] \in Frames
      BY <1>1 DEF Blocks, Told, Typed, All
    <3>2. isFree[b[1]] = FALSE
      BY <3>1, Words DEF BuddyInv
    <3>. QED
      BY <3>1, <3>2, Words DEF BuddyInv
  <2>. QED
    BY <2>1, <2>2 DEF HeadsTrue
<1>4. Disjoint
  <2>1. Live = All(free, held, moving)
    BY DEF Live, All
  <2>2. ASSUME NEW b \in Live, NEW c \in Live, b # c
        PROVE  Block(b[1], b[2]) \cap Block(c[1], c[2]) = {}
    <3>1. /\ b[1] \in Nat /\ Size[b[2]] \in Nat /\ c[1] \in Nat /\ Size[c[2]] \in Nat
          /\ Apart(b, c)
      BY <1>1, <2>1, <2>2, BlockFacts
    <3>. QED
      BY <3>1 DEF Apart, Block
  <2>3. ASSUME NEW b \in Live PROVE Block(b[1], b[2]) \cap (usable \cup heap) = {}
    <3>1. b[1] \in Nat /\ Size[b[2]] \in Nat
      BY <1>1, <2>1, BlockFacts
    <3>2. \A p \in waiting : p < b[1] \/ b[1] + Size[b[2]] <= p
      BY <1>1, <2>1 DEF Blocks, Unclaimed
    <3>3. \A p \in waiting : p \in Nat
      BY <1>1, ZoneAssumption DEF Blocks, Typed, Frames
    <3>. QED
      BY <3>1, <3>2, <3>3 DEF Block
  <2>4. free \cap (held \cup moving) = {} /\ held \cap moving = {}
    BY <1>1 DEF Blocks, Separate
  <2>. QED
    BY <2>2, <2>3, <2>4 DEF Disjoint
<1>. QED
  BY <1>2, <1>3, <1>4 DEF BlocksSound

(* Between calls every aligned block of available pages lies in a block of *)
(* a list: allocate_pages finds that list, or the one before it.           *)
LEMMA InvComplete == BuddyInv => AllocationComplete
<1>. SUFFICES ASSUME BuddyInv, Idle, NEW o \in Orders, Candidates(o) = {},
                     NEW p \in Frames, Aligned(p, o), Block(p, o) \subseteq AvailPages
              PROVE  FALSE
  BY DEF AllocationComplete
<1>. PICK free, held, level, isFree, waiting :
       /\ free = FreeBlocks /\ held = owned /\ level = Level /\ isFree = IsFree
       /\ waiting = usable \cup heap
  OBVIOUS
<1>1. Blocks(free, held, {}, level, isFree, waiting) /\ InFlight = {}
  BY CallFacts DEF BuddyInv, SystemBlocks
<1>2. IsFreeSet(free)
  <2>1. ASSUME NEW b \in free
        PROVE  /\ b \in Frames \X Orders /\ Aligned(b[1], b[2])
               /\ \A c \in free : b = c \/ Apart(b, c)
    <3>1. \A c \in free : c \in All(free, held, {})
      BY DEF All
    <3>. QED
      BY <1>1, <3>1, BlockFacts
  <2>. QED
    BY <2>1 DEF IsFreeSet, BuddyInv
<1>3. AvailPages = Cover(free)
  BY <1>1 DEF AvailPages, Cover
<1>4. p \in Nat
  BY ZoneAssumption DEF Frames
<1>5. PICK b \in free : o <= b[2]
  BY <1>2, <1>3, <1>4, OneFreeBlock
<1>6. b = <<b[1], b[2]>> /\ b[2] \in Orders
  BY <1>2, FreeSetFacts
<1>. PICK items, nx, pv, hd, tl : /\ items = Items /\ nx = next /\ pv = prev
                                  /\ hd = head /\ tl = tail
  OBVIOUS
<1>7. Threads(items, nx, pv, hd, tl)
  BY DEF BuddyInv, Threaded
<1>8. b[1] \in ToSet(items[b[2]])
  BY <1>6, FreeBlocksAre, BlocksOfMember
<1>9. items[b[2]] \in Seq(Frames) /\ hd[b[2]] = At(items[b[2]], 1)
  BY <1>6, <1>7 DEF Threads
<1>10. 1 \in DOMAIN items[b[2]] /\ items[b[2]][1] \in Frames
  BY <1>8, <1>9 DEF ToSet
<1>11. hd[b[2]] # null
  BY <1>9, <1>10, NullAssumption DEF At
<1>12. b[2] \in Candidates(o)
  BY <1>5, <1>6, <1>11, ZoneAssumption DEF Candidates, FreeList!IsEmptyList, Orders
<1>. QED
  BY <1>12

(* The caller of remove names the list the page is in, and the caller of   *)
(* push a page that is in no list, in every moment of every call: the      *)
(* lists stay well linked.                                                 *)
THEOREM RemoveIsSafe == Spec => []RemoveSafe
BY BuddyInvariant, InvRemoveSafe, PTL

(* The blocks are sound in every moment: no page is in two of them, and    *)
(* what split_and_return and free_pages read from a page is true.          *)
THEOREM BlocksAreSound == Spec => []BlocksSound
BY BuddyInvariant, InvBlocksSound, PTL

(* allocate_pages answers None only if no aligned block of that many free  *)
(* pages is left.                                                          *)
THEOREM AllocationIsComplete == Spec => []AllocationComplete
BY BuddyInvariant, InvComplete, PTL

-----------------------------------------------------------------------------
(* The zone implements PageAllocator.                                      *)

(* Available are the pages of the free blocks and of the block in progress. *)
LEMMA AvailIs ==
  /\ AvailPages = Cover(FreeBlocks \cup InFlight)
  /\ AvailPages' = Cover(FreeBlocks' \cup InFlight')
BY DEF AvailPages, Cover

(* The steps of PageAllocator, in the words of this zone.                  *)
LEMMA AbstractSteps ==
  ASSUME NEW p \in Frames, NEW o \in Orders
  PROVE  /\ /\ Aligned(p, o) /\ Block(p, o) \subseteq usable \cup heap
            /\ usable' \cup heap' = (usable \cup heap) \ Block(p, o)
            /\ AvailPages' = AvailPages \cup Block(p, o) /\ owned' = owned
            => Abstract!PagesNext
         /\ /\ Aligned(p, o) /\ usable \cup heap = {} /\ usable' \cup heap' = {}
            /\ Block(p, o) \subseteq AvailPages
            /\ AvailPages' = AvailPages \ Block(p, o)
            /\ owned' = owned \cup {<<p, o>>}
            => Abstract!PagesNext
         /\ /\ <<p, o>> \in owned /\ usable' \cup heap' = usable \cup heap
            /\ AvailPages' = AvailPages \cup Block(p, o)
            /\ owned' = owned \ {<<p, o>>}
            => Abstract!PagesNext
<1>1. p \in Abstract!Frames /\ o \in Abstract!Orders
  BY DEF Abstract!Frames, Abstract!Orders, Frames, Orders
<1>2. Abstract!Aligned(p, o) <=> Aligned(p, o)
  BY DEF Abstract!Aligned, Aligned
<1>3. Abstract!Block(p, o) = Block(p, o)
  BY DEF Abstract!Block, Block
<1>. QED
  BY <1>1, <1>2, <1>3
     DEF Abstract!PagesNext, Abstract!Release, Abstract!Take, Abstract!Give

(* Every step of the zone is a step of PageAllocator or a stutter.         *)
LEMMA PagesStep ==
  ASSUME BuddyInv, [Next]_vars
  PROVE  [Abstract!PagesNext]_<<usable \cup heap, AvailPages, owned>>
<1>1. ASSUME UNCHANGED boot, UNCHANGED owned,
             FreeBlocks' \cup InFlight' = FreeBlocks \cup InFlight
      PROVE  UNCHANGED <<usable \cup heap, AvailPages, owned>>
  BY <1>1, AvailIs DEF boot
<1>2. CASE UNCHANGED vars
  <2>1. FreeBlocks' = FreeBlocks
    BY <1>2, ListsUnchanged DEF vars
  <2>2. InFlight' = InFlight
    BY <1>2 DEF vars, InFlight, Idle
  <2>. QED
    BY <1>1, <1>2, <2>1, <2>2 DEF vars
<1>3. ASSUME NEW p \in Frames, NEW end \in Frames \cup {Offset + Pages}, FreePageRange(p, end)
      PROVE  UNCHANGED <<usable \cup heap, AvailPages, owned>>
  <2>1. UNCHANGED <<links, call, usable, heap, owned>>
    BY <1>3 DEF FreePageRange
  <2>2. FreeBlocks' = FreeBlocks
    BY <2>1, ListsUnchanged
  <2>3. InFlight' = InFlight
    BY <2>1 DEF InFlight, Idle
  <2>. QED
    BY <2>1, <2>2, <2>3, AvailIs
<1>4. ASSUME NEW l \in Orders, FreePageRangeStep(l) PROVE Abstract!PagesNext
  <2>. PICK p : p = range.index
    OBVIOUS
  <2>1. /\ Aligned(p, l) /\ Block(p, l) \subseteq usable /\ p \in Frames
        /\ FreeBlocks' = FreeBlocks /\ InFlight = {} /\ InFlight' = {<<p, l>>}
    BY <1>4, FreePageRangeStepInv
  <2>2. AvailPages' = AvailPages \cup Block(p, l)
    <3>1. Cover(FreeBlocks \cup {<<p, l>>}) = Cover(FreeBlocks) \cup Block(p, l)
      BY CoverAdd
    <3>2. FreeBlocks \cup InFlight = FreeBlocks
      BY <2>1
    <3>. QED
      BY <2>1, <3>1, <3>2, AvailIs
  <2>3. usable' = usable \ Block(p, l) /\ heap' = heap /\ owned' = owned
    BY <1>4 DEF FreePageRangeStep
  <2>4. usable' \cup heap' = (usable \cup heap) \ Block(p, l)
    BY <2>1, <2>3 DEF BuddyInv, Waiting
  <2>. QED
    BY <2>1, <2>2, <2>3, <2>4, AbstractSteps
<1>5. ASSUME NEW p \in Frames, HandOver(p) PROVE Abstract!PagesNext
  <2>1. /\ Aligned(p, 0) /\ 0 \in Orders /\ Block(p, 0) = {p} /\ FreeBlocks' = FreeBlocks
        /\ InFlight = {} /\ InFlight' = {<<p, 0>>}
    BY <1>5, HandOverInv
  <2>2. AvailPages' = AvailPages \cup Block(p, 0)
    <3>1. Cover(FreeBlocks \cup {<<p, 0>>}) = Cover(FreeBlocks) \cup Block(p, 0)
      BY CoverAdd
    <3>2. FreeBlocks \cup InFlight = FreeBlocks
      BY <2>1
    <3>. QED
      BY <2>1, <3>1, <3>2, AvailIs
  <2>3. usable = {} /\ usable' = usable /\ heap' = heap \ {p} /\ p \in heap /\ owned' = owned
    BY <1>5 DEF HandOver
  <2>. QED
    BY <2>1, <2>2, <2>3, AbstractSteps
<1>6. ASSUME NEW o \in Orders, NEW l \in Orders, AllocatePages(o, l)
      PROVE  UNCHANGED <<usable \cup heap, AvailPages, owned>>
  <2>1. FreeBlocks' \cup InFlight' = FreeBlocks \cup InFlight
    BY <1>6, AllocatePagesInv
  <2>. QED
    BY <1>1, <1>6, <2>1 DEF AllocatePages
<1>7. ASSUME NEW p \in Frames, NEW o \in Orders, FreePages(p, o) PROVE Abstract!PagesNext
  <2>1. /\ <<p, o>> \in owned /\ FreeBlocks' = FreeBlocks
        /\ InFlight = {} /\ InFlight' = {<<p, o>>}
    BY <1>7, FreePagesInv
  <2>2. AvailPages' = AvailPages \cup Block(p, o)
    <3>1. Cover(FreeBlocks \cup {<<p, o>>}) = Cover(FreeBlocks) \cup Block(p, o)
      BY CoverAdd
    <3>2. FreeBlocks \cup InFlight = FreeBlocks
      BY <2>1
    <3>. QED
      BY <2>1, <3>1, <3>2, AvailIs
  <2>3. usable' = usable /\ heap' = heap /\ owned' = owned \ {<<p, o>>}
    BY <1>7 DEF FreePages, boot
  <2>. QED
    BY <2>1, <2>2, <2>3, AbstractSteps
<1>8. CASE SplitStep
  BY <1>8, SplitStepInv, AvailIs DEF SplitStep, boot
<1>9. CASE SplitDone
  <2>. PICK p, o : p = call.page /\ o = call.goal
    OBVIOUS
  <2>a. PICK moving : moving = {<<p, o>>}
    OBVIOUS
  <2>1. /\ FreeBlocks' = FreeBlocks /\ Booted /\ InFlight = moving /\ InFlight' = {}
        /\ p \in Frames /\ o \in Orders
    BY <1>9, <2>a, SplitDoneInv
  <2>. PICK free, held, level, isFree, waiting :
         /\ free = FreeBlocks /\ held = owned /\ level = Level /\ isFree = IsFree
         /\ waiting = usable \cup heap
    OBVIOUS
  <2>2. Blocks(free, held, moving, level, isFree, waiting) /\ Moves(p, o, moving)
    BY <2>1, <2>a DEF BuddyInv, SystemBlocks, Moves
  <2>3. /\ Block(p, o) \subseteq Cover(free \cup moving)
        /\ Cover(free) = Cover(free \cup moving) \ Block(p, o)
    BY <2>2, MovingCover
  <2>4. Aligned(p, o)
    <3>1. <<p, o>> \in All(free, held, moving)
      BY <2>a DEF All
    <3>. QED
      BY <2>2, <3>1, BlockFacts
  <2>5. FreeBlocks' \cup InFlight' = free
    BY <2>1
  <2>6. owned' = owned \cup {<<p, o>>} /\ usable' \cup heap' = {} /\ usable \cup heap = {}
    BY <1>9, <2>1 DEF SplitDone, boot, Booted
  <2>7. AvailPages' = AvailPages \ Block(p, o) /\ Block(p, o) \subseteq AvailPages
    BY <2>1, <2>3, <2>5, AvailIs
  <2>. QED
    BY <2>1, <2>4, <2>6, <2>7, AbstractSteps
<1>10. CASE MergeStep
  BY <1>10, MergeStepInv, AvailIs DEF MergeStep, boot
<1>11. CASE FreeDone
  BY <1>1, <1>11, FreeDoneInv DEF FreeDone
<1>12. CASE \E o \in Orders : AllocateFails(o)
  BY <1>2, <1>12 DEF AllocateFails
<1>. QED
  BY <1>2, <1>3, <1>4, <1>5, <1>6, <1>7, <1>8, <1>9, <1>10, <1>11, <1>12 DEF Next, Step

(* The zone keeps the promise that the C++ zone keeps: an allocation takes *)
(* an aligned block of free pages and nothing else, a free returns exactly *)
(* that block, and no page is lost or handed out twice in between.         *)
THEOREM SystemImplementsPages == Spec => ImplementsPages
<1>1. Init => Abstract!PagesInit
  <2>. SUFFICES ASSUME Init PROVE Abstract!PagesInit
    OBVIOUS
  <2>1. FreeBlocks = {} /\ InFlight = {}
    BY InitInv
  <2>2. AvailPages = {}
    <3>1. FreeBlocks \cup InFlight = {}
      BY <2>1
    <3>. QED
      BY <3>1, AvailIs, CoverNone
  <2>. QED
    BY <2>2 DEF Init, Abstract!PagesInit, Abstract!Frames, Frames
<1>2. BuddyInv /\ [Next]_vars => [Abstract!PagesNext]_<<usable \cup heap, AvailPages, owned>>
  BY PagesStep
<1>. QED
  BY <1>1, <1>2, BuddyInvariant, PTL
  DEF Spec, ImplementsPages, Abstract!PagesSpec, Abstract!pagesVars

-----------------------------------------------------------------------------
(* The lists implement NodeLists.                                          *)

(* The operators of NodeLists on sequences are those of this module.       *)
LEMMA ListOperators ==
  /\ \A s, n : FreeList!Abstract!Cons(n, s) = Cons(n, s)
  /\ \A s, n : FreeList!Abstract!RemoveFirst(s, n) = RemoveFirst(s, n)
<1>1. \A s, n : FreeList!Abstract!Cons(n, s) = Cons(n, s)
  BY DEF FreeList!Abstract!Cons, Cons
<1>2. \A s, n : FreeList!Abstract!RemoveFirst(s, n) = RemoveFirst(s, n)
  BY Zenon DEF FreeList!Abstract!RemoveFirst, RemoveFirst, FreeList!Abstract!RemoveAt, RemoveAt,
         FreeList!Abstract!SelectInSeq, SelectInSeq, FreeList!Abstract!Min, Min
<1>. QED
  BY <1>1, <1>2

(* The steps of NodeLists, in the words of this zone.                      *)
LEMMA ListSteps ==
  ASSUME NEW l \in Orders, NEW n \in Frames
  PROVE  /\ /\ \A k \in Orders : n \notin ToSet(Items[k])
            /\ Items' = [Items EXCEPT ![l] = Cons(n, @)]
            => FreeList!Abstract!PushItem(l, n)
         /\ Items[l] # <<>> /\ Items' = [Items EXCEPT ![l] = Tail(@)]
            => FreeList!Abstract!PopItem(l)
         /\ n \in ToSet(Items[l]) /\ Items' = [Items EXCEPT ![l] = RemoveFirst(@, n)]
            => FreeList!Abstract!RemoveItem(l, n)
<1>1. ASSUME \A k \in Orders : n \notin ToSet(Items[k]),
             Items' = [Items EXCEPT ![l] = Cons(n, @)]
      PROVE  FreeList!Abstract!PushItem(l, n)
  BY <1>1, ListOperators, ZenonT(30) DEF FreeList!Abstract!PushItem, FreeList!Abstract!In, Items, ToSet
<1>2. ASSUME Items[l] # <<>>, Items' = [Items EXCEPT ![l] = Tail(@)]
      PROVE  FreeList!Abstract!PopItem(l)
  BY <1>2 DEF FreeList!Abstract!PopItem, Items
<1>3. ASSUME n \in ToSet(Items[l]), Items' = [Items EXCEPT ![l] = RemoveFirst(@, n)]
      PROVE  FreeList!Abstract!RemoveItem(l, n)
  BY <1>3, ListOperators DEF FreeList!Abstract!RemoveItem, FreeList!Abstract!In, Items, ToSet
<1>. QED
  BY <1>1, <1>2, <1>3

(* Every step of the zone is a step of one list or of none.                *)
LEMMA ListsStep ==
  ASSUME BuddyInv, [Next]_vars
  PROVE  [FreeList!Abstract!ListsNext]_Items
<1>1. ASSUME UNCHANGED links PROVE UNCHANGED Items
  BY <1>1, ListsUnchanged
<1>2. ASSUME NEW l \in Orders, NEW n \in Frames,
             \/ FreeList!Abstract!PushItem(l, n) \/ FreeList!Abstract!PopItem(l)
             \/ FreeList!Abstract!RemoveItem(l, n)
      PROVE  FreeList!Abstract!ListsNext
  BY <1>2 DEF FreeList!Abstract!ListsNext
<1>3. ASSUME NEW p \in Frames, NEW end \in Frames \cup {Offset + Pages}, FreePageRange(p, end)
      PROVE  UNCHANGED Items
  BY <1>1, <1>3 DEF FreePageRange
<1>4. ASSUME NEW l \in Orders, FreePageRangeStep(l) PROVE UNCHANGED Items
  BY <1>1, <1>4 DEF FreePageRangeStep
<1>5. ASSUME NEW p \in Frames, HandOver(p) PROVE UNCHANGED Items
  BY <1>1, <1>5 DEF HandOver
<1>6. ASSUME NEW o \in Orders, NEW l \in Orders, AllocatePages(o, l)
      PROVE  FreeList!Abstract!ListsNext
  <2>1. Items[l] # <<>> /\ Items' = [Items EXCEPT ![l] = Tail(@)]
    BY <1>6, AllocatePagesInv
  <2>2. FreeList!Abstract!PopItem(l)
    BY <2>1 DEF FreeList!Abstract!PopItem, Items
  <2>. QED
    BY <2>2 DEF FreeList!Abstract!ListsNext
<1>7. ASSUME NEW p \in Frames, NEW o \in Orders, FreePages(p, o) PROVE UNCHANGED Items
  BY <1>1, <1>7 DEF FreePages
<1>8. CASE SplitStep
  <2>1. PICK l \in Orders, n \in Frames :
          /\ \A k \in Orders : n \notin ToSet(Items[k])
          /\ Items' = [Items EXCEPT ![l] = Cons(n, @)]
    BY <1>8, SplitStepInv
  <2>2. FreeList!Abstract!PushItem(l, n)
    BY <2>1, ListSteps
  <2>. QED
    BY <1>2, <2>2
<1>9. CASE SplitDone
  BY <1>9, SplitDoneInv
<1>10. CASE MergeStep
  <2>1. PICK l \in Orders, n \in Frames :
          /\ n \in ToSet(Items[l])
          /\ Items' = [Items EXCEPT ![l] = RemoveFirst(@, n)]
    BY <1>10, MergeStepInv
  <2>2. FreeList!Abstract!RemoveItem(l, n)
    BY <2>1, ListSteps
  <2>. QED
    BY <1>2, <2>2
<1>11. CASE FreeDone
  <2>1. PICK l \in Orders, n \in Frames :
          /\ \A k \in Orders : n \notin ToSet(Items[k])
          /\ Items' = [Items EXCEPT ![l] = Cons(n, @)]
    BY <1>11, FreeDoneInv
  <2>2. FreeList!Abstract!PushItem(l, n)
    BY <2>1, ListSteps
  <2>. QED
    BY <1>2, <2>2
<1>12. CASE UNCHANGED vars \/ \E o \in Orders : AllocateFails(o)
  BY <1>1, <1>12 DEF AllocateFails, vars
<1>. QED
  BY <1>3, <1>4, <1>5, <1>6, <1>7, <1>8, <1>9, <1>10, <1>11, <1>12 DEF Next, Step

(* The links through the pages are sequences: each step of a call pushes a *)
(* page to the front of a list, takes the first one or removes one from    *)
(* where it is, and changes no other list and no order.                    *)
THEOREM SystemImplementsLists == Spec => ImplementsLists
<1>1. Init => FreeList!Abstract!ListsInit
  <2>. SUFFICES ASSUME Init PROVE FreeList!Abstract!ListsInit
    OBVIOUS
  <2>1. Items = [l \in Orders |-> <<>>]
    BY InitInv
  <2>. QED
    BY <2>1 DEF FreeList!Abstract!ListsInit, Items
<1>2. BuddyInv /\ [Next]_vars => [FreeList!Abstract!ListsNext]_Items
  BY ListsStep
<1>. QED
  BY <1>1, <1>2, BuddyInvariant, PTL
  DEF Spec, ImplementsLists, FreeList!ImplementsLists, FreeList!Abstract!ListsSpec, Items
=============================================================================
