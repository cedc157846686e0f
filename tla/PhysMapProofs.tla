--------------------------- MODULE PhysMapProofs ----------------------------
(***************************************************************************)
(* Machine-checked proofs about PhysMap, for any memory, any capacity of   *)
(* the vector and any page size: the map stays sorted, forgets nothing     *)
(* while it has room, and never gives memory out twice.                    *)
(***************************************************************************)
EXTENDS PhysMap, ListLemmas

-----------------------------------------------------------------------------
(* Vectors of ranges, and what they hold.                                  *)

MR == [begin : Bounds, end : Bounds, status : Status]

(* In the order of their addresses, possibly with empty ones.              *)
Chain(s) ==
  /\ s \in Seq(MR)
  /\ \A i \in DOMAIN s : s[i].begin <= s[i].end
  /\ \A i, j \in DOMAIN s : i < j => s[i].end <= s[j].begin

NoneEmpty(s) == \A i \in DOMAIN s : s[i].begin < s[i].end
NoneMerge(s) == \A i \in 1 .. Len(s) - 1 : ~ CanMerge(s[i], s[i + 1])

In(r, u, status) == r.status = status /\ r.begin <= u /\ u < r.end
Holds(s, u, status) == \E i \in DOMAIN s : In(s[i], u, status)

(* The fields of a range and their types.                                  *)
LEMMA RangeFacts ==
  ASSUME NEW r \in MR
  PROVE  /\ r.begin \in Bounds /\ r.end \in Bounds /\ r.status \in Status
         /\ r.begin \in Nat /\ r.end \in Nat
BY MapAssumption DEF MR, Bounds

(* The ranges of a map and their types.                                    *)
LEMMA SeqFacts ==
  ASSUME NEW s \in Seq(MR)
  PROVE  /\ Len(s) \in Nat /\ DOMAIN s = 1 .. Len(s)
         /\ \A i \in 1 .. Len(s) : s[i] \in MR /\ s[i].begin \in Nat /\ s[i].end \in Nat
BY RangeFacts

-----------------------------------------------------------------------------
(* Compact.                                                                *)

(* After i ranges of s the pass has kept what they hold, in order; only    *)
(* the range it wrote last may be empty.                                   *)
Passed(s, i, done) ==
  /\ Chain(done)
  /\ Len(done) <= i
  /\ i > 0 => done # <<>> /\ Last(done).end = s[i].end
  /\ \A j \in 1 .. Len(done) - 1 : done[j].begin < done[j].end
  /\ \A u \in Units, status \in Status :
       Holds(done, u, status) <=> \E j \in 1 .. i : In(s[j], u, status)
  /\ NoneEmpty(s) => NoneEmpty(done) /\ NoneMerge(done)

(* The last range of a chain is replaced by one that begins no earlier.    *)
LEMMA ChainReplace ==
  ASSUME NEW s, Chain(s), s # <<>>, NEW r \in MR, Last(s).begin <= r.begin, r.begin <= r.end,
         NEW new \in Seq(MR), Len(new) = Len(s), new[Len(s)] = r,
         \A j \in 1 .. Len(s) - 1 : new[j] = s[j]
  PROVE  Chain(new) /\ new # <<>> /\ Last(new) = r
<1>. PICK n : n = Len(s)
  OBVIOUS
<1>0. n \in Nat \ {0}
  BY EmptySeq DEF Chain
<1>1. /\ s \in Seq(MR) /\ DOMAIN s = 1 .. n
      /\ \A i \in 1 .. n : s[i] \in MR /\ s[i].begin \in Nat /\ s[i].end \in Nat
  BY SeqFacts DEF Chain
<1>2. /\ new \in Seq(MR) /\ Len(new) = n /\ DOMAIN new = 1 .. n
      /\ new[n] = r
      /\ \A j \in 1 .. n - 1 : new[j] = s[j]
  OBVIOUS
<1>3. /\ \A i \in 1 .. n : s[i].begin <= s[i].end
      /\ \A i, j \in 1 .. n : i < j => s[i].end <= s[j].begin
  BY <1>1 DEF Chain
<1>4. s[n].begin <= r.begin
  BY DEF Last
<1>5. \A i \in 1 .. n : i = n \/ i \in 1 .. n - 1
  BY <1>0
<1>6. \A i \in 1 .. n : new[i].begin <= new[i].end
  BY <1>2, <1>3, <1>5
<1>7. ASSUME NEW i \in 1 .. n, NEW j \in 1 .. n, i < j
      PROVE  new[i].end <= new[j].begin
  <2>1. i \in 1 .. n - 1
    BY <1>0, <1>7
  <2>2. new[i] = s[i] /\ s[i].end <= s[j].begin
    BY <1>2, <1>3, <1>7, <2>1
  <2>3. CASE j = n
    BY <1>1, <1>2, <1>4, <2>2, <2>3, RangeFacts
  <2>4. CASE j # n
    BY <1>2, <1>5, <2>2, <2>4
  <2>. QED
    BY <2>3, <2>4
<1>8. Chain(new)
  BY <1>2, <1>6, <1>7 DEF Chain
<1>9. new # <<>> /\ Last(new) = r
  BY <1>0, <1>2, EmptySeq DEF Last
<1>. QED
  BY <1>2, <1>8, <1>9

(* A range that begins at or above the last one's end may be appended.     *)
LEMMA ChainAppend ==
  ASSUME NEW s, Chain(s), NEW r \in MR, r.begin <= r.end,
         s # <<>> => Last(s).end <= r.begin,
         NEW new \in Seq(MR), Len(new) = Len(s) + 1, new[Len(s) + 1] = r,
         \A j \in 1 .. Len(s) : new[j] = s[j]
  PROVE  Chain(new) /\ new # <<>> /\ Last(new) = r
<1>. PICK n : n = Len(s)
  OBVIOUS
<1>0. n \in Nat
  BY DEF Chain
<1>1. /\ s \in Seq(MR) /\ DOMAIN s = 1 .. n
      /\ \A i \in 1 .. n : s[i] \in MR /\ s[i].begin \in Nat /\ s[i].end \in Nat
  BY SeqFacts DEF Chain
<1>2. /\ new \in Seq(MR) /\ Len(new) = n + 1 /\ DOMAIN new = 1 .. n + 1
      /\ new[n + 1] = r /\ new # <<>>
      /\ \A j \in 1 .. n : new[j] = s[j]
  BY <1>0
<1>3. /\ \A i \in 1 .. n : s[i].begin <= s[i].end
      /\ \A i, j \in 1 .. n : i < j => s[i].end <= s[j].begin
  BY <1>1 DEF Chain
<1>4. \A i \in 1 .. n : s[i].end <= r.begin
  <2>1. SUFFICES ASSUME NEW i \in 1 .. n PROVE s[i].end <= r.begin
    OBVIOUS
  <2>2. n # 0 /\ n \in 1 .. n
    BY <1>0
  <2>3. s[n].end <= r.begin
    BY <2>2 DEF Last
  <2>4. CASE i = n
    BY <2>3, <2>4
  <2>5. CASE i # n
    <3>1. i < n
      BY <1>0, <2>5
    <3>2. s[i].end <= s[n].begin /\ s[n].begin <= s[n].end
      BY <1>3, <2>2, <3>1
    <3>. QED
      BY <1>1, <2>2, <2>3, <3>2, RangeFacts
  <2>. QED
    BY <2>4, <2>5
<1>5. \A i \in 1 .. n + 1 : i = n + 1 \/ i \in 1 .. n
  BY <1>0
<1>6. \A i \in 1 .. n + 1 : new[i].begin <= new[i].end
  BY <1>2, <1>3, <1>5
<1>7. ASSUME NEW i \in 1 .. n + 1, NEW j \in 1 .. n + 1, i < j
      PROVE  new[i].end <= new[j].begin
  <2>1. i \in 1 .. n
    BY <1>0, <1>7
  <2>2. CASE j = n + 1
    BY <1>2, <1>4, <2>1, <2>2
  <2>3. CASE j # n + 1
    BY <1>2, <1>3, <1>5, <1>7, <2>1, <2>3
  <2>. QED
    BY <2>2, <2>3
<1>8. Chain(new)
  BY <1>2, <1>6, <1>7 DEF Chain
<1>9. Last(new) = r
  BY <1>2 DEF Last
<1>. QED
  BY <1>2, <1>8, <1>9

(* What a vector holds, its last range told apart.                         *)
LEMMA HoldsLast ==
  ASSUME NEW s \in Seq(MR), s # <<>>
  PROVE  \A u, status : Holds(s, u, status) <=> \/ \E j \in 1 .. Len(s) - 1 : In(s[j], u, status)
                                               \/ In(Last(s), u, status)
<1>. PICK n : n = Len(s)
  OBVIOUS
<1>1. n \in Nat \ {0} /\ DOMAIN s = 1 .. n /\ Last(s) = s[n]
  BY EmptySeq DEF Last
<1>2. \A j : j \in 1 .. n <=> j \in 1 .. n - 1 \/ j = n
  BY <1>1
<1>. QED
  BY <1>1, <1>2 DEF Holds

(* A step of Compact keeps what the ranges say of each address.            *)
LEMMA CompactStep ==
  ASSUME NEW s, Chain(s), NEW i \in 1 .. Len(s), NEW done, Passed(s, i - 1, done)
  PROVE  Passed(s, i, CompactOne(done, s[i]))
<1>. DEFINE new == CompactOne(done, s[i])
<1>. HIDE DEF new
<1>. PICK n : n = Len(done)
  OBVIOUS
<1>. PICK r : r = s[i]
  OBVIOUS
<1>. PICK last : last = Last(done)
  OBVIOUS
<1>0. i \in Nat \ {0} /\ Len(s) \in Nat /\ s \in Seq(MR) /\ i - 1 \in Nat
  BY DEF Chain
<1>1. Chain(done) /\ done \in Seq(MR) /\ n \in Nat /\ n <= i - 1 /\ DOMAIN done = 1 .. n
  BY DEF Passed, Chain
<1>2. r \in MR /\ r.begin <= r.end /\ r.begin \in Nat /\ r.end \in Nat
  BY <1>0, RangeFacts DEF Chain
<1>3. done = <<>> => i = 1
  BY <1>0 DEF Passed
<1>4. ASSUME done # <<>>
      PROVE  /\ n \in Nat \ {0} /\ last = done[n] /\ last \in MR /\ last.begin <= last.end
             /\ last.end <= r.begin /\ last.begin \in Nat /\ last.end \in Nat
  <2>1. n \in Nat \ {0} /\ last = done[n] /\ n \in 1 .. n
    BY <1>1, <1>4, EmptySeq DEF Last
  <2>2. last \in MR /\ last.begin <= last.end
    BY <1>1, <2>1 DEF Chain
  <2>3. i - 1 \in 1 .. Len(s) /\ i - 1 > 0 /\ i - 1 < i
    BY <1>0, <1>1, <2>1
  <2>4. last.end = s[i - 1].end /\ s[i - 1].end <= s[i].begin
    BY <1>0, <2>3 DEF Passed, Chain
  <2>. QED
    BY <2>1, <2>2, <2>4, RangeFacts
<1>5. \A u \in Units, status \in Status :
        (\E j \in 1 .. i : In(s[j], u, status))
          <=> Holds(done, u, status) \/ In(r, u, status)
  <2>1. \A j : j \in 1 .. i <=> j \in 1 .. i - 1 \/ j = i
    BY <1>0
  <2>. QED
    BY <2>1 DEF Passed
<1>6. \A j \in 1 .. n - 1 : done[j].begin < done[j].end
  BY DEF Passed
<1>7. NoneEmpty(s) => NoneEmpty(done) /\ NoneMerge(done) /\ r.begin < r.end
  BY <1>0 DEF Passed, NoneEmpty
<1>8. CASE done = <<>>
  <2>1. new = Append(done, r)
    BY <1>8 DEF CompactOne, new
  <2>2. n = 0 /\ i = 1 /\ \A u, status : ~ Holds(done, u, status)
    BY <1>3, <1>8 DEF Holds
  <2>3. Chain(new) /\ Len(new) = 1 /\ new # <<>> /\ Last(new) = r
    <3>1. /\ new \in Seq(MR) /\ Len(new) = Len(done) + 1 /\ new[Len(done) + 1] = r
          /\ \A j \in 1 .. Len(done) : new[j] = done[j]
      BY <1>1, <1>2, <2>1, AppendProperties
    <3>2. Chain(new) /\ new # <<>> /\ Last(new) = r
      BY <1>1, <1>2, <1>8, <3>1, ChainAppend
    <3>3. Len(done) = 0 /\ 0 + 1 = 1
      BY <2>2
    <3>. QED
      BY <3>1, <3>2, <3>3, Zenon
  <2>4. new \in Seq(MR) /\ DOMAIN new = 1 .. 1 /\ new[1] = r
    BY <2>3 DEF Chain, Last
  <2>5. \A u \in Units, status \in Status : Holds(new, u, status) <=> In(r, u, status)
    BY <2>4 DEF Holds
  <2>6. NoneEmpty(s) => NoneEmpty(new) /\ NoneMerge(new)
    BY <1>7, <2>3, <2>4 DEF NoneEmpty, NoneMerge
  <2>7. Passed(s, i, new)
    BY <1>5, <2>2, <2>3, <2>5, <2>6 DEF Passed
  <2>. QED
    BY <2>7 DEF new
<1>9. CASE done # <<>> /\ CanMerge(last, r)
  <2>0. PICK both : both = [last EXCEPT !.end = r.end]
    OBVIOUS
  <2>1. /\ last.end = r.begin /\ last.status = r.status
        /\ both \in MR /\ both.begin = last.begin /\ both.end = r.end /\ both.status = last.status
        /\ both.begin <= both.end /\ last.begin <= both.begin
    BY <1>2, <1>4, <1>9, <2>0, RangeFacts DEF CanMerge, MR
  <2>2. new = [done EXCEPT ![Len(done)] = both]
    BY <1>1, <1>4, <1>9, <2>0 DEF CompactOne, new
  <2>3. /\ Chain(new) /\ Len(new) = n /\ new # <<>> /\ Last(new) = both
        /\ \A j \in 1 .. n - 1 : new[j] = done[j]
    <3>1. Last(done).begin <= both.begin
      BY <2>1
    <3>2. /\ new \in Seq(MR) /\ Len(new) = Len(done) /\ new[Len(done)] = both
          /\ \A j \in 1 .. Len(done) - 1 : new[j] = done[j]
      BY <1>1, <1>4, <1>9, <2>1, <2>2
    <3>. QED
      BY <1>1, <1>9, <2>1, <3>1, <3>2, ChainReplace
  <2>4. \A u \in Units, status \in Status :
          Holds(new, u, status) <=> Holds(done, u, status) \/ In(r, u, status)
    <3>1. SUFFICES ASSUME NEW u \in Units, NEW status \in Status
                   PROVE  Holds(new, u, status) <=> Holds(done, u, status) \/ In(r, u, status)
      OBVIOUS
    <3>2. In(both, u, status) <=> In(last, u, status) \/ In(r, u, status)
      BY <1>2, <1>4, <1>9, <2>1 DEF In, Units
    <3>3. new \in Seq(MR)
      BY <2>3 DEF Chain
    <3>4. Holds(new, u, status) <=> (\E j \in 1 .. n - 1 : In(new[j], u, status)) \/ In(both, u, status)
      BY <2>3, <3>3, HoldsLast
    <3>5. Holds(done, u, status) <=> (\E j \in 1 .. n - 1 : In(done[j], u, status)) \/ In(last, u, status)
      BY <1>1, <1>9, HoldsLast
    <3>. QED
      BY <2>3, <3>2, <3>4, <3>5
  <2>5. NoneEmpty(s) => NoneEmpty(new) /\ NoneMerge(new)
    <3>1. SUFFICES ASSUME NoneEmpty(done), NoneMerge(done), r.begin < r.end
                   PROVE  NoneEmpty(new) /\ NoneMerge(new)
      BY <1>7
    <3>2. new[n] = both /\ DOMAIN new = 1 .. n
      BY <2>3 DEF Last, Chain
    <3>3. \A j \in 1 .. n : j \in 1 .. n - 1 \/ j = n
      BY <1>1
    <3>4. NoneEmpty(new)
      <4>1. both.begin < both.end
        BY <1>2, <1>4, <1>9, <2>1, <3>1
      <4>2. \A j \in 1 .. n - 1 : done[j].begin < done[j].end
        BY <1>6
      <4>. QED
        BY <2>3, <3>2, <3>3, <4>1, <4>2 DEF NoneEmpty
    <3>5. NoneMerge(new)
      <4>1. SUFFICES ASSUME NEW j \in 1 .. n - 1 PROVE ~ CanMerge(new[j], new[j + 1])
        BY <2>3 DEF NoneMerge
      <4>2. ~ CanMerge(done[j], done[j + 1])
        BY <3>1 DEF NoneMerge
      <4>3. j + 1 = n \/ j + 1 \in 1 .. n - 1
        BY <1>1
      <4>. QED
        BY <1>4, <1>9, <2>1, <2>3, <3>2, <4>2, <4>3 DEF CanMerge
    <3>. QED
      BY <3>4, <3>5
  <2>6. n <= i /\ Last(new).end = s[i].end /\ \A j \in 1 .. n - 1 : new[j].begin < new[j].end
    BY <1>0, <1>1, <1>6, <2>1, <2>3
  <2>7. Passed(s, i, new)
    BY <1>5, <2>3, <2>4, <2>5, <2>6 DEF Passed
  <2>. QED
    BY <2>7 DEF new
<1>10. CASE done # <<>> /\ ~ CanMerge(last, r) /\ IsEmptyRange(last)
  <2>1. last.begin = last.end /\ last.begin <= r.begin
    BY <1>2, <1>4, <1>10 DEF IsEmptyRange
  <2>2. new = [done EXCEPT ![Len(done)] = r]
    BY <1>10 DEF CompactOne, new
  <2>3. /\ Chain(new) /\ Len(new) = n /\ new # <<>> /\ Last(new) = r
        /\ \A j \in 1 .. n - 1 : new[j] = done[j]
    <3>1. Last(done).begin <= r.begin
      BY <2>1
    <3>2. /\ new \in Seq(MR) /\ Len(new) = Len(done) /\ new[Len(done)] = r
          /\ \A j \in 1 .. Len(done) - 1 : new[j] = done[j]
      BY <1>1, <1>2, <1>4, <1>10, <2>2
    <3>. QED
      BY <1>1, <1>2, <1>10, <3>1, <3>2, ChainReplace
  <2>4. \A u \in Units, status \in Status :
          Holds(new, u, status) <=> Holds(done, u, status) \/ In(r, u, status)
    <3>1. SUFFICES ASSUME NEW u \in Units, NEW status \in Status
                   PROVE  Holds(new, u, status) <=> Holds(done, u, status) \/ In(r, u, status)
      OBVIOUS
    <3>2. ~ In(last, u, status)
      BY <1>4, <1>10, <2>1 DEF In, Units
    <3>3. new \in Seq(MR)
      BY <2>3 DEF Chain
    <3>. QED
      BY <1>1, <1>10, <2>3, <3>2, <3>3, HoldsLast
  <2>5. ~ NoneEmpty(s)
    BY <1>1, <1>4, <1>7, <1>10, <2>1 DEF NoneEmpty
  <2>6. n <= i /\ Last(new).end = s[i].end /\ \A j \in 1 .. n - 1 : new[j].begin < new[j].end
    BY <1>0, <1>1, <1>6, <2>1, <2>3
  <2>7. Passed(s, i, new)
    BY <1>5, <2>3, <2>4, <2>5, <2>6 DEF Passed
  <2>. QED
    BY <2>7 DEF new
<1>11. CASE done # <<>> /\ ~ CanMerge(last, r) /\ ~ IsEmptyRange(last)
  <2>1. last.begin < last.end /\ last.end <= r.begin
    BY <1>4, <1>11 DEF IsEmptyRange
  <2>2. new = Append(done, r)
    BY <1>11 DEF CompactOne, new
  <2>3. /\ Chain(new) /\ Len(new) = n + 1 /\ new # <<>> /\ Last(new) = r
        /\ \A j \in 1 .. n : new[j] = done[j]
    <3>1. /\ new \in Seq(MR) /\ Len(new) = Len(done) + 1 /\ new[Len(done) + 1] = r
          /\ \A j \in 1 .. Len(done) : new[j] = done[j]
      BY <1>1, <1>2, <2>2, AppendProperties
    <3>2. Last(done).end <= r.begin
      BY <2>1
    <3>. QED
      BY <1>1, <1>2, <1>11, <3>1, <3>2, ChainAppend
  <2>4. new \in Seq(MR) /\ DOMAIN new = 1 .. n + 1 /\ new[n + 1] = r /\ Len(new) - 1 = n
    BY <1>1, <2>3 DEF Chain, Last
  <2>5. \A u \in Units, status \in Status :
          Holds(new, u, status) <=> Holds(done, u, status) \/ In(r, u, status)
    BY <1>1, <2>3, <2>4, HoldsLast DEF Holds
  <2>6. \A j \in 1 .. n : new[j].begin < new[j].end
    <3>1. \A j \in 1 .. n : j \in 1 .. n - 1 \/ j = n
      BY <1>1
    <3>. QED
      BY <1>4, <1>6, <1>11, <2>1, <2>3, <3>1
  <2>7. NoneEmpty(s) => NoneEmpty(new) /\ NoneMerge(new)
    <3>1. SUFFICES ASSUME NoneMerge(done), r.begin < r.end
                   PROVE  NoneEmpty(new) /\ NoneMerge(new)
      BY <1>7
    <3>2. \A j \in 1 .. n + 1 : j \in 1 .. n \/ j = n + 1
      BY <1>1
    <3>3. NoneEmpty(new)
      BY <2>4, <2>6, <3>1, <3>2 DEF NoneEmpty
    <3>4. NoneMerge(new)
      <4>1. SUFFICES ASSUME NEW j \in 1 .. n PROVE ~ CanMerge(new[j], new[j + 1])
        BY <2>4 DEF NoneMerge
      <4>2. CASE j = n
        BY <1>4, <1>11, <2>3, <2>4, <4>2
      <4>3. CASE j # n
        <5>1. j \in 1 .. n - 1 /\ j + 1 \in 1 .. n
          BY <1>1, <4>3
        <5>. QED
          BY <2>3, <3>1, <5>1 DEF NoneMerge
      <4>. QED
        BY <4>2, <4>3
    <3>. QED
      BY <3>3, <3>4
  <2>8. n + 1 <= i /\ Last(new).end = s[i].end
    BY <1>0, <1>1, <2>3
  <2>9. Passed(s, i, new)
    BY <1>5, <2>3, <2>4, <2>5, <2>6, <2>7, <2>8 DEF Passed
  <2>. QED
    BY <2>9 DEF new
<1>. QED
  BY <1>8, <1>9, <1>10, <1>11

(* The pass from its beginning to its end.                                 *)
LEMMA CompactPass ==
  ASSUME NEW s, Chain(s)
  PROVE  \E all : /\ Passed(s, Len(s), all)
                  /\ Compact(s) = IF all # <<>> /\ IsEmptyRange(Last(all)) THEN Front(all) ELSE all
<1>. DEFINE n == Len(s)
            Pass(f) == f = [i \in 0 .. n |-> IF i = 0 THEN <<>> ELSE CompactOne(f[i - 1], s[i])]
            done == CHOOSE f : Pass(f)
<1>1. s \in Seq(MR) /\ n \in Nat
  BY DEF Chain
<1>2. \A i \in 1 .. n, d \in Seq(MR) : CompactOne(d, s[i]) \in Seq(MR)
  <2>1. SUFFICES ASSUME NEW i \in 1 .. n, NEW d \in Seq(MR) PROVE CompactOne(d, s[i]) \in Seq(MR)
    OBVIOUS
  <2>2. s[i] \in MR
    BY <1>1
  <2>3. <<s[i]>> \in Seq(MR) /\ Append(d, s[i]) \in Seq(MR)
    BY <2>2
  <2>4. ASSUME d # <<>>
        PROVE  /\ [d EXCEPT ![Len(d)] = s[i]] \in Seq(MR)
               /\ [d EXCEPT ![Len(d)].end = s[i].end] \in Seq(MR)
    <3>1. Len(d) \in 1 .. Len(d) /\ DOMAIN d = 1 .. Len(d)
      BY <2>4, EmptySeq
    <3>2. d[Len(d)] \in MR
      BY <3>1
    <3>3. s[i].end \in Bounds /\ \A x \in MR : \A y \in Bounds : [x EXCEPT !.end = y] \in MR
      BY <2>2, RangeFacts DEF MR
    <3>4. [d[Len(d)] EXCEPT !.end = s[i].end] \in MR
      BY <3>2, <3>3
    <3>. QED
      BY <2>2, <3>1, <3>4
  <2>. QED
    BY <2>3, <2>4 DEF CompactOne
<1>3. \E f : Pass(f)
  <2>. DEFINE step == [i \in 1 .. n |-> [d \in Seq(MR) |-> CompactOne(d, s[i])]]
  <2>1. step \in [1 .. n -> [Seq(MR) -> Seq(MR)]] /\ <<>> \in Seq(MR)
    BY <1>2
  <2>2. PICK f \in [0 .. n -> Seq(MR)] :
          f[0] = <<>> /\ \A i \in 1 .. n : f[i] = step[i][f[i - 1]]
    <3>. HIDE DEF step, n
    <3>1. \E f : IsPass(f, n, Seq(MR), <<>>, step)
      BY <1>1, <2>1, PassExists
    <3>. QED
      BY <3>1, Zenon DEF IsPass
  <2>3. ASSUME NEW i \in 1 .. n PROVE f[i] = CompactOne(f[i - 1], s[i])
    <3>1. i - 1 \in 0 .. n /\ f[i - 1] \in Seq(MR)
      BY <1>1
    <3>. QED
      BY <2>2, <3>1
  <2>4. \A i \in 0 .. n : i = 0 \/ i \in 1 .. n
    BY <1>1
  <2>5. Pass(f)
    BY <2>2, <2>3, <2>4
  <2>. QED
    BY <2>5
<1>4. Pass(done)
  BY <1>3
<1>5. Compact(s) = IF done[n] # <<>> /\ IsEmptyRange(Last(done[n])) THEN Front(done[n]) ELSE done[n]
  BY DEF Compact
<1>. HIDE DEF done
<1>6. done[0] = <<>> /\ \A i \in 1 .. n : done[i] = CompactOne(done[i - 1], s[i])
  BY <1>1, <1>4
<1>7. Passed(s, 0, <<>>)
  BY DEF Passed, Chain, Holds, NoneEmpty, NoneMerge
<1>8. \A i \in 0 .. n : Passed(s, i, done[i])
  <2>. DEFINE Bad == {i \in 0 .. n : ~ Passed(s, i, done[i])}
  <2>1. SUFFICES ASSUME Bad # {} PROVE FALSE
    OBVIOUS
  <2>2. PICK i \in Bad : \A j \in Bad : i <= j
    <3>1. Bad \in SUBSET Nat
      OBVIOUS
    <3>. HIDE DEF Bad
    <3>. QED
      BY <2>1, <3>1, LeastElement
  <2>3. i \in 1 .. n /\ i - 1 \in 0 .. n /\ i - 1 \notin Bad
    BY <1>1, <1>6, <1>7, <2>2
  <2>4. Passed(s, i - 1, done[i - 1])
    BY <2>3
  <2>5. Passed(s, i, done[i])
    BY <1>6, <2>3, <2>4, CompactStep
  <2>. QED
    BY <2>2, <2>5
<1>. QED
  BY <1>1, <1>5, <1>8

(* Compact keeps what the ranges hold and their order, drops every empty   *)
(* one and needs no room; ranges none of which is empty end up joined.     *)
LEMMA CompactKeeps ==
  ASSUME NEW s, Chain(s)
  PROVE  /\ Chain(Compact(s)) /\ NoneEmpty(Compact(s))
         /\ Len(Compact(s)) <= Len(s)
         /\ \A u \in Units, status \in Status :
              Holds(Compact(s), u, status) <=> Holds(s, u, status)
         /\ NoneEmpty(s) => NoneMerge(Compact(s))
<1>1. PICK all : /\ Passed(s, Len(s), all)
                 /\ Compact(s) = IF all # <<>> /\ IsEmptyRange(Last(all)) THEN Front(all) ELSE all
  BY CompactPass
<1>. PICK n : n = Len(all)
  OBVIOUS
<1>2. /\ Chain(all) /\ n <= Len(s) /\ Len(s) \in Nat /\ n \in Nat /\ DOMAIN all = 1 .. n
      /\ all \in Seq(MR) /\ DOMAIN s = 1 .. Len(s)
  BY <1>1 DEF Passed, Chain
<1>3. /\ \A j \in 1 .. n - 1 : all[j].begin < all[j].end
      /\ \A u \in Units, status \in Status : Holds(all, u, status) <=> Holds(s, u, status)
      /\ NoneEmpty(s) => NoneEmpty(all) /\ NoneMerge(all)
  BY <1>1, <1>2 DEF Passed, Holds
<1>4. all # <<>> => n # 0 /\ Last(all) = all[n] /\ n \in 1 .. n
  BY <1>2, EmptySeq DEF Last
<1>5. CASE all # <<>> /\ IsEmptyRange(Last(all))
  <2>. PICK new : new = Front(all)
    OBVIOUS
  <2>1. /\ new \in Seq(MR) /\ Len(new) = n - 1 /\ \A j \in 1 .. n - 1 : new[j] = all[j]
    <3>1. \A j \in 1 .. n - 1 : all[j] \in MR
      BY <1>2
    <3>2. n - 1 \in Int
      BY <1>2
    <3>3. /\ SubSeq(all, 1, n - 1) \in Seq(MR)
          /\ Len(SubSeq(all, 1, n - 1)) = (IF 1 <= n - 1 THEN (n - 1) - 1 + 1 ELSE 0)
          /\ \A j \in 1 .. (n - 1) - 1 + 1 : SubSeq(all, 1, n - 1)[j] = all[1 + j - 1]
      BY <3>1, <3>2, SubSeqProperties
    <3>4. new = SubSeq(all, 1, n - 1)
      BY DEF Front
    <3>. QED
      BY <1>2, <1>4, <1>5, <3>3, <3>4
  <2>2. DOMAIN new = 1 .. n - 1 /\ \A j \in 1 .. n - 1 : j \in 1 .. n
    BY <1>2, <1>4, <1>5, <2>1
  <2>3. Chain(new) /\ NoneEmpty(new)
    BY <1>2, <1>3, <2>1, <2>2 DEF Chain, NoneEmpty
  <2>4. ASSUME NEW u \in Units, NEW status \in Status
        PROVE  Holds(new, u, status) <=> Holds(s, u, status)
    <3>1. ~ In(Last(all), u, status)
      <4>1. Last(all).begin = Last(all).end /\ Last(all).begin \in Nat
        BY <1>2, <1>4, <1>5, SeqFacts DEF IsEmptyRange
      <4>. QED
        BY <4>1 DEF In, Units
    <3>2. Holds(all, u, status) <=> \E j \in 1 .. n - 1 : In(all[j], u, status)
      BY <1>2, <1>5, <3>1, HoldsLast
    <3>3. Holds(new, u, status) <=> \E j \in 1 .. n - 1 : In(all[j], u, status)
      BY <2>1, <2>2 DEF Holds
    <3>. QED
      BY <1>3, <3>2, <3>3
  <2>5. ~ NoneEmpty(s)
    BY <1>2, <1>3, <1>4, <1>5, SeqFacts DEF NoneEmpty, IsEmptyRange
  <2>6. n - 1 <= Len(s)
    BY <1>2
  <2>. QED
    BY <1>1, <1>5, <2>1, <2>3, <2>4, <2>5, <2>6
<1>6. CASE ~ (all # <<>> /\ IsEmptyRange(Last(all)))
  <2>1. Compact(s) = all
    BY <1>1, <1>6
  <2>2. NoneEmpty(all)
    <3>1. SUFFICES ASSUME NEW j \in 1 .. n PROVE all[j].begin < all[j].end
      BY <1>2 DEF NoneEmpty
    <3>2. j \in 1 .. n - 1 \/ j = n
      BY <1>2
    <3>3. all[j].begin <= all[j].end /\ all[j].begin \in Nat /\ all[j].end \in Nat
      BY <1>2, SeqFacts DEF Chain
    <3>4. all # <<>>
      BY <1>2
    <3>. QED
      BY <1>3, <1>4, <1>6, <3>2, <3>3, <3>4 DEF IsEmptyRange
  <2>. QED
    BY <1>2, <1>3, <2>1, <2>2
<1>. QED
  BY <1>5, <1>6

-----------------------------------------------------------------------------
(* The binary searches.                                                    *)

(* FirstOr returns the least index in a set, or the default if there is    *)
(* none.                                                                   *)
LEMMA FirstOrIs ==
  ASSUME NEW S \in SUBSET Nat, NEW default
  PROVE  /\ S = {} => FirstOr(S, default) = default
         /\ S # {} => FirstOr(S, default) \in S /\ \A j \in S : FirstOr(S, default) <= j
<1>1. S # {} => \E i \in S : \A j \in S : i <= j
  BY LeastElement
<1>. QED
  BY <1>1 DEF FirstOr

(* The ranges before From(b) end by b, and no other does.                  *)
LEMMA FromIs ==
  ASSUME Chain(ranges), NoneEmpty(ranges), NEW b \in Nat
  PROVE  /\ From(b) \in 1 .. Len(ranges) + 1
         /\ \A i \in 1 .. Len(ranges) : i < From(b) <=> ranges[i].end <= b
<1>. PICK n : n = Len(ranges)
  OBVIOUS
<1>0. PICK S : S = {i \in DOMAIN ranges : ranges[i].end > b}
  OBVIOUS
<1>1. /\ n \in Nat /\ DOMAIN ranges = 1 .. n
      /\ \A i \in 1 .. n : ranges[i].begin \in Nat /\ ranges[i].end \in Nat
      /\ \A i \in 1 .. n : ranges[i].begin < ranges[i].end
      /\ \A i, j \in 1 .. n : i < j => ranges[i].end <= ranges[j].begin
  BY SeqFacts DEF Chain, NoneEmpty
<1>2. S \subseteq 1 .. n /\ S \in SUBSET Nat
  BY <1>0, <1>1
<1>3. From(b) = FirstOr(S, n + 1)
  BY <1>0 DEF From
<1>4. CASE S = {}
  <2>1. From(b) = n + 1
    BY <1>2, <1>3, <1>4, FirstOrIs
  <2>2. \A i \in 1 .. n : ranges[i].end <= b
    BY <1>0, <1>1, <1>4
  <2>. QED
    BY <1>1, <2>1, <2>2
<1>5. CASE S # {}
  <2>. PICK m : m = From(b)
    OBVIOUS
  <2>1. m \in S /\ \A j \in S : m <= j
    <3>1. FirstOr(S, n + 1) \in S /\ \A j \in S : FirstOr(S, n + 1) <= j
      BY <1>2, <1>5, FirstOrIs
    <3>. QED
      BY <1>3, <3>1, Zenon
  <2>2. m \in 1 .. n /\ ranges[m].end > b
    BY <1>0, <1>2, <2>1
  <2>3. ASSUME NEW i \in 1 .. n PROVE i < m <=> ranges[i].end <= b
    <3>1. CASE i < m
      <4>1. i \notin S
        BY <1>1, <2>1, <2>2, <3>1
      <4>. QED
        BY <1>0, <1>1, <3>1, <4>1
    <3>2. CASE i = m
      BY <1>1, <2>2, <3>2
    <3>3. CASE i > m
      <4>1. ranges[m].end <= ranges[i].begin /\ ranges[i].begin < ranges[i].end
        BY <1>1, <2>2, <3>3
      <4>. QED
        BY <1>1, <2>2, <3>3, <4>1
    <3>. QED
      BY <2>2, <3>1, <3>2, <3>3
  <2>. QED
    BY <2>2, <2>3
<1>. QED
  BY <1>4, <1>5

(* The ranges before To(e) begin before e, and no other does.              *)
LEMMA ToIs ==
  ASSUME Chain(ranges), NoneEmpty(ranges), NEW e \in Nat
  PROVE  /\ To(e) \in 1 .. Len(ranges) + 1
         /\ \A i \in 1 .. Len(ranges) : i < To(e) <=> ranges[i].begin < e
<1>. PICK n : n = Len(ranges)
  OBVIOUS
<1>0. PICK S : S = {i \in DOMAIN ranges : ranges[i].begin >= e}
  OBVIOUS
<1>1. /\ n \in Nat /\ DOMAIN ranges = 1 .. n
      /\ \A i \in 1 .. n : ranges[i].begin \in Nat /\ ranges[i].end \in Nat
      /\ \A i \in 1 .. n : ranges[i].begin < ranges[i].end
      /\ \A i, j \in 1 .. n : i < j => ranges[i].end <= ranges[j].begin
  BY SeqFacts DEF Chain, NoneEmpty
<1>2. S \subseteq 1 .. n /\ S \in SUBSET Nat
  BY <1>0, <1>1
<1>3. To(e) = FirstOr(S, n + 1)
  BY <1>0 DEF To
<1>4. CASE S = {}
  <2>1. To(e) = n + 1
    BY <1>2, <1>3, <1>4, FirstOrIs
  <2>2. \A i \in 1 .. n : ranges[i].begin < e
    BY <1>0, <1>1, <1>4
  <2>. QED
    BY <1>1, <2>1, <2>2
<1>5. CASE S # {}
  <2>. PICK m : m = To(e)
    OBVIOUS
  <2>1. m \in S /\ \A j \in S : m <= j
    <3>1. FirstOr(S, n + 1) \in S /\ \A j \in S : FirstOr(S, n + 1) <= j
      BY <1>2, <1>5, FirstOrIs
    <3>. QED
      BY <1>3, <3>1, Zenon
  <2>2. m \in 1 .. n /\ ranges[m].begin >= e
    BY <1>0, <1>2, <2>1
  <2>3. ASSUME NEW i \in 1 .. n PROVE i < m <=> ranges[i].begin < e
    <3>1. CASE i < m
      <4>1. i \notin S
        BY <1>1, <2>1, <2>2, <3>1
      <4>. QED
        BY <1>0, <1>1, <3>1, <4>1
    <3>2. CASE i = m
      BY <1>1, <2>2, <3>2
    <3>3. CASE i > m
      <4>1. ranges[m].end <= ranges[i].begin /\ ranges[m].begin < ranges[m].end
        BY <1>1, <2>2, <3>3
      <4>. QED
        BY <1>1, <2>2, <3>3, <4>1
    <3>. QED
      BY <2>2, <3>1, <3>2, <3>3
  <2>. QED
    BY <2>2, <2>3
<1>. QED
  BY <1>4, <1>5

(* What a call on [b, e) overlaps.                                         *)
LEMMA WindowIs ==
  ASSUME Chain(ranges), NoneEmpty(ranges), NEW b \in Nat, NEW e \in Nat, b <= e
  PROVE  /\ From(b) \in 1 .. Len(ranges) + 1 /\ To(e) \in 1 .. Len(ranges) + 1
         /\ From(b) <= To(e)
         /\ \A i \in 1 .. Len(ranges) :
              /\ i < From(b) <=> ranges[i].end <= b
              /\ i < To(e) <=> ranges[i].begin < e
         /\ From(b) # To(e) => From(b) < To(e) /\ From(b) \in 1 .. Len(ranges)
                               /\ To(e) - 1 \in 1 .. Len(ranges)
<1>1. /\ From(b) \in 1 .. Len(ranges) + 1
      /\ \A i \in 1 .. Len(ranges) : i < From(b) <=> ranges[i].end <= b
  BY FromIs
<1>2. /\ To(e) \in 1 .. Len(ranges) + 1
      /\ \A i \in 1 .. Len(ranges) : i < To(e) <=> ranges[i].begin < e
  BY ToIs
<1>3. Len(ranges) \in Nat
  BY DEF Chain
<1>4. \A i \in 1 .. Len(ranges) : /\ ranges[i].begin < ranges[i].end
                                  /\ ranges[i].begin \in Nat /\ ranges[i].end \in Nat
  BY SeqFacts DEF Chain, NoneEmpty
<1>5. From(b) <= To(e)
  <2>1. SUFFICES ASSUME To(e) < From(b) PROVE FALSE
    BY <1>1, <1>2, <1>3
  <2>. PICK t : t = To(e)
    OBVIOUS
  <2>2. t \in 1 .. Len(ranges) /\ t < From(b) /\ ~ (t < To(e))
    BY <1>1, <1>2, <1>3, <2>1
  <2>3. ranges[t].end <= b
    BY <1>1, <2>2, Zenon
  <2>4. ~ (ranges[t].begin < e)
    BY <1>2, <2>2, Zenon
  <2>5. ranges[t].begin < ranges[t].end /\ ranges[t].begin \in Nat /\ ranges[t].end \in Nat
    BY <1>4, <2>2
  <2>. QED
    BY <2>3, <2>4, <2>5
<1>6. From(b) # To(e) => From(b) < To(e) /\ From(b) \in 1 .. Len(ranges)
                         /\ To(e) - 1 \in 1 .. Len(ranges)
  <2>. PICK f, t, n : f = From(b) /\ t = To(e) /\ n = Len(ranges)
    OBVIOUS
  <2>1. f \in 1 .. n + 1 /\ t \in 1 .. n + 1 /\ f <= t /\ n \in Nat
    BY <1>1, <1>2, <1>3, <1>5
  <2>2. f # t => f < t /\ f \in 1 .. n /\ t - 1 \in 1 .. n
    BY <2>1
  <2>. QED
    BY <2>2
<1>7. \A i \in 1 .. Len(ranges) : /\ i < From(b) <=> ranges[i].end <= b
                                  /\ i < To(e) <=> ranges[i].begin < e
  BY <1>1, <1>2, Zenon
<1>. QED
  BY <1>1, <1>2, <1>5, <1>6, <1>7, Zenon

-----------------------------------------------------------------------------
(* Cut, and the other stores of SetStatus.                                 *)

(* Cutting a range in two at an address inside it or at its border keeps   *)
(* the vector in order and every unit in its status.                       *)
LEMMA CutKeeps ==
  ASSUME NEW s, Chain(s), NEW i \in 1 .. Len(s), NEW a \in Bounds,
         s[i].begin <= a, a <= s[i].end
  PROVE  /\ Chain(Cut(s, i, a)) /\ Len(Cut(s, i, a)) = Len(s) + 1
         /\ \A k \in 1 .. i - 1 : Cut(s, i, a)[k] = s[k]
         /\ Cut(s, i, a)[i] = MemoryRange(s[i].begin, a, s[i].status)
         /\ Cut(s, i, a)[i + 1] = MemoryRange(a, s[i].end, s[i].status)
         /\ \A k \in i + 1 .. Len(s) : Cut(s, i, a)[k + 1] = s[k]
         /\ \A u \in Units, status \in Status :
              Holds(Cut(s, i, a), u, status) <=> Holds(s, u, status)
<1>a. PICK n, new, r : n = Len(s) /\ new = Cut(s, i, a) /\ r = s[i]
  OBVIOUS
<1>b. PICK head, tail : /\ head = MemoryRange(r.begin, a, r.status)
                        /\ tail = MemoryRange(a, r.end, r.status)
  OBVIOUS
<1>1. /\ s \in Seq(MR) /\ n \in Nat /\ DOMAIN s = 1 .. n /\ i \in 1 .. n
      /\ \A k \in 1 .. n : s[k] \in MR /\ s[k].begin \in Nat /\ s[k].end \in Nat
  BY <1>a, SeqFacts DEF Chain
<1>2. /\ \A k \in 1 .. n : s[k].begin <= s[k].end
      /\ \A k, m \in 1 .. n : k < m => s[k].end <= s[m].begin
  BY <1>1 DEF Chain
<1>3. /\ r \in MR /\ r.begin \in Nat /\ r.end \in Nat /\ r.begin \in Bounds /\ r.end \in Bounds
      /\ r.status \in Status /\ r.begin <= a /\ a <= r.end /\ a \in Nat
  BY <1>1, <1>a, RangeFacts, MapAssumption DEF Bounds
<1>4. /\ head = [r EXCEPT !.end = a] /\ tail = [r EXCEPT !.begin = a]
      /\ head \in MR /\ tail \in MR
      /\ head.begin = r.begin /\ head.end = a /\ head.status = r.status
      /\ tail.begin = a /\ tail.end = r.end /\ tail.status = r.status
  BY <1>3, <1>b DEF MemoryRange, MR
<1>5. PICK list : list = [s EXCEPT ![i] = tail]
  OBVIOUS
<1>6. new = Splice(list, i, i, head)
  BY <1>4, <1>5, <1>a DEF Cut, InsertAt, Splice
<1>7. /\ list \in Seq(MR) /\ Len(list) = n /\ list[i] = tail
      /\ \A k \in 1 .. n : k # i => list[k] = s[k]
  BY <1>1, <1>4, <1>5
<1>8. /\ new \in Seq(MR) /\ Len(new) = n + i + 1 - i
      /\ \A k \in 1 .. i - 1 : new[k] = list[k]
      /\ new[i] = head
      /\ \A k \in i .. n : new[k + i + 1 - i] = list[k]
  <2>1. i \in Nat /\ 1 <= i /\ i <= i /\ i <= Len(list) + 1
    BY <1>1, <1>7
  <2>2. head \in MR /\ list \in Seq(MR)
    BY <1>4, <1>7
  <2>3. /\ Splice(list, i, i, head) \in Seq(MR)
        /\ Len(Splice(list, i, i, head)) = Len(list) + i + 1 - i
        /\ \A k \in 1 .. i - 1 : Splice(list, i, i, head)[k] = list[k]
        /\ Splice(list, i, i, head)[i] = head
        /\ \A k \in i .. Len(list) : Splice(list, i, i, head)[k + i + 1 - i] = list[k]
    <3>1. IsSplice(Splice(list, i, i, head), MR, list, i, i, head)
      BY <2>1, <2>2, SpliceList, Zenon
    <3>. QED
      BY <3>1 DEF IsSplice
  <2>4. Len(list) = n
    BY <1>7
  <2>. QED
    BY <1>6, <2>3, <2>4, Zenon
<1>9. /\ new \in Seq(MR) /\ Len(new) = n + 1 /\ DOMAIN new = 1 .. n + 1
      /\ \A k \in 1 .. i - 1 : new[k] = s[k]
      /\ new[i] = head /\ new[i + 1] = tail
      /\ \A k \in i + 1 .. n : new[k + 1] = s[k]
  <2>1. Len(new) = n + 1 /\ \A k \in i .. n : k + i + 1 - i = k + 1
    BY <1>1, <1>8
  <2>2. \A k \in i .. n : new[k + 1] = list[k]
    BY <1>8, <2>1
  <2>3. /\ \A k \in 1 .. i - 1 : k \in 1 .. n /\ k # i
        /\ \A k \in i + 1 .. n : k \in i .. n /\ k \in 1 .. n /\ k # i
        /\ i \in i .. n
    BY <1>1
  <2>. QED
    BY <1>7, <1>8, <2>1, <2>2, <2>3
<1>. DEFINE old(k) == IF k <= i THEN k ELSE k - 1
<1>10. ASSUME NEW k \in 1 .. n + 1
       PROVE  /\ old(k) \in 1 .. n
              /\ s[old(k)].begin <= new[k].begin /\ new[k].begin <= new[k].end
              /\ new[k].end <= s[old(k)].end
              /\ new[k].begin \in Nat /\ new[k].end \in Nat
              /\ new[k].status = s[old(k)].status
  <2>1. CASE k < i
    <3>1. k \in 1 .. i - 1 /\ k \in 1 .. n /\ old(k) = k
      BY <1>1, <2>1
    <3>. QED
      BY <1>1, <1>2, <1>9, <3>1
  <2>2. CASE k = i
    <3>1. old(k) = i
      BY <1>1, <2>2
    <3>2. new[k] = head /\ s[old(k)] = r
      BY <1>9, <1>a, <2>2, <3>1
    <3>. QED
      BY <1>1, <1>3, <1>4, <3>1, <3>2
  <2>3. CASE k = i + 1
    <3>1. old(k) = i
      BY <1>1, <2>3
    <3>2. new[k] = tail /\ s[old(k)] = r
      BY <1>9, <1>a, <2>3, <3>1
    <3>. QED
      BY <1>1, <1>3, <1>4, <3>1, <3>2
  <2>4. CASE k > i + 1
    <3>1. k - 1 \in i + 1 .. n /\ k - 1 \in 1 .. n /\ old(k) = k - 1 /\ (k - 1) + 1 = k
      BY <1>1, <2>4
    <3>. QED
      BY <1>1, <1>2, <1>9, <3>1
  <2>. QED
    BY <1>1, <2>1, <2>2, <2>3, <2>4
<1>11. \A k, m \in 1 .. n + 1 : k < m => old(k) < old(m) \/ (k = i /\ m = i + 1)
  BY <1>1
<1>. HIDE DEF old
<1>12. Chain(new)
  <2>1. ASSUME NEW k \in 1 .. n + 1, NEW m \in 1 .. n + 1, k < m PROVE new[k].end <= new[m].begin
    <3>1. CASE k = i /\ m = i + 1
      <4>1. new[k].end = a /\ new[m].begin = a
        BY <1>4, <1>9, <3>1
      <4>. QED
        BY <1>3, <4>1
    <3>2. CASE old(k) < old(m)
      <4>1. s[old(k)].end <= s[old(m)].begin
        BY <1>2, <1>10, <3>2
      <4>2. /\ new[k].end <= s[old(k)].end /\ s[old(m)].begin <= new[m].begin
            /\ new[k].end \in Nat /\ new[m].begin \in Nat
            /\ s[old(k)].end \in Nat /\ s[old(m)].begin \in Nat
        BY <1>1, <1>10
      <4>. QED
        BY <4>1, <4>2
    <3>. QED
      BY <1>11, <2>1, <3>1, <3>2
  <2>. QED
    BY <1>9, <1>10, <2>1 DEF Chain
<1>13. ASSUME NEW u \in Units, NEW status \in Status
       PROVE  Holds(new, u, status) <=> Holds(s, u, status)
  <2>0. u \in Int
    BY DEF Units
  <2>1. ASSUME NEW k \in 1 .. n + 1, In(new[k], u, status) PROVE Holds(s, u, status)
    <3>0. /\ s[old(k)].begin <= new[k].begin /\ new[k].end <= s[old(k)].end
          /\ new[k].begin \in Nat /\ new[k].end \in Nat
          /\ s[old(k)].begin \in Nat /\ s[old(k)].end \in Nat
          /\ new[k].status = s[old(k)].status
      BY <1>1, <1>10
    <3>1. In(s[old(k)], u, status)
      BY <2>0, <2>1, <3>0, SMTT(30) DEF In
    <3>. QED
      BY <1>1, <1>10, <3>1 DEF Holds
  <2>2. ASSUME NEW k \in 1 .. n, In(s[k], u, status) PROVE Holds(new, u, status)
    <3>1. CASE k < i
      <4>1. k \in 1 .. i - 1 /\ k \in 1 .. n + 1
        BY <1>1, <3>1
      <4>. QED
        BY <1>9, <2>2, <4>1 DEF Holds
    <3>2. CASE k > i
      <4>1. k \in i + 1 .. n /\ k + 1 \in 1 .. n + 1
        BY <1>1, <3>2
      <4>. QED
        BY <1>9, <2>2, <4>1 DEF Holds
    <3>3. CASE k = i
      <4>1. In(head, u, status) \/ In(tail, u, status)
        BY <1>3, <1>4, <1>a, <2>0, <2>2, <3>3 DEF In
      <4>2. i \in 1 .. n + 1 /\ i + 1 \in 1 .. n + 1
        BY <1>1
      <4>. QED
        BY <1>9, <4>1, <4>2 DEF Holds
    <3>. QED
      BY <1>1, <3>1, <3>2, <3>3
  <2>. QED
    BY <1>1, <1>9, <2>1, <2>2 DEF Holds
<1>. QED
  BY <1>9, <1>12, <1>13, <1>a, <1>b

(* A range is cut off at one of its ends, and the piece is lost.           *)
LEMMA ShrinkKeeps ==
  ASSUME NEW s, Chain(s), NEW i \in 1 .. Len(s), NEW r \in MR,
         s[i].begin <= r.begin, r.begin <= r.end, r.end <= s[i].end, r.status = s[i].status,
         NEW new \in Seq(MR), Len(new) = Len(s), new[i] = r,
         \A k \in 1 .. Len(s) : k # i => new[k] = s[k]
  PROVE  /\ Chain(new)
         /\ NoneEmpty(s) /\ r.begin < r.end => NoneEmpty(new)
         /\ \A u \in Units, status \in Status :
              /\ Holds(new, u, status) => Holds(s, u, status)
              /\ Holds(s, u, status) /\ status # r.status => Holds(new, u, status)
              /\ Holds(new, u, status) <=> /\ Holds(s, u, status)
                                          /\ ~ (s[i].begin <= u /\ u < r.begin)
                                          /\ ~ (r.end <= u /\ u < s[i].end)
<1>. PICK n : n = Len(s)
  OBVIOUS
<1>1. /\ n \in Nat /\ DOMAIN s = 1 .. n /\ DOMAIN new = 1 .. n /\ i \in 1 .. n
      /\ \A k \in 1 .. n : s[k] \in MR /\ s[k].begin \in Nat /\ s[k].end \in Nat
      /\ \A k \in 1 .. n : new[k] \in MR /\ new[k].begin \in Nat /\ new[k].end \in Nat
      /\ \A k \in 1 .. n : s[k].begin <= s[k].end
      /\ \A k, m \in 1 .. n : k < m => s[k].end <= s[m].begin
  BY SeqFacts DEF Chain
<1>2. \A k \in 1 .. n : /\ s[k].begin <= new[k].begin /\ new[k].begin <= new[k].end
                        /\ new[k].end <= s[k].end /\ new[k].status = s[k].status
                        /\ k # i => new[k] = s[k]
  <2>1. SUFFICES ASSUME NEW k \in 1 .. n
                 PROVE  /\ s[k].begin <= new[k].begin /\ new[k].begin <= new[k].end
                        /\ new[k].end <= s[k].end /\ new[k].status = s[k].status
                        /\ k # i => new[k] = s[k]
    OBVIOUS
  <2>2. CASE k = i
    BY <2>2
  <2>3. CASE k # i
    BY <1>1, <2>3
  <2>. QED
    BY <2>2, <2>3
<1>3. Chain(new)
  <2>1. \A k, m \in 1 .. n : k < m => new[k].end <= new[m].begin
    BY <1>1, <1>2
  <2>. QED
    BY <1>1, <1>2, <2>1 DEF Chain
<1>4. NoneEmpty(s) /\ r.begin < r.end => NoneEmpty(new)
  BY <1>1, <1>2 DEF NoneEmpty
<1>5. ASSUME NEW u \in Units, NEW status \in Status
      PROVE  /\ Holds(new, u, status) => Holds(s, u, status)
             /\ Holds(s, u, status) /\ status # r.status => Holds(new, u, status)
  <2>0. u \in Int
    BY DEF Units
  <2>1. \A k \in 1 .. n : In(new[k], u, status) => In(s[k], u, status)
    BY <1>1, <1>2, <2>0 DEF In
  <2>2. \A k \in 1 .. n : status # r.status /\ In(s[k], u, status) => In(new[k], u, status)
    BY <1>1, <1>2 DEF In
  <2>. QED
    BY <1>1, <2>1, <2>2 DEF Holds
<1>6. ASSUME NEW u \in Units, NEW status \in Status
      PROVE  Holds(new, u, status) <=> /\ Holds(s, u, status)
                                       /\ ~ (s[i].begin <= u /\ u < r.begin)
                                       /\ ~ (r.end <= u /\ u < s[i].end)
  <2>0. u \in Int /\ r.begin \in Nat /\ r.end \in Nat
    BY RangeFacts DEF Units
  <2>1. ASSUME NEW k \in 1 .. n
        PROVE  In(new[k], u, status) <=> /\ In(s[k], u, status)
                                         /\ ~ (s[i].begin <= u /\ u < r.begin)
                                         /\ ~ (r.end <= u /\ u < s[i].end)
    <3>1. CASE k = i
      BY <1>1, <2>0, <3>1 DEF In
    <3>2. CASE k < i
      BY <1>1, <2>0, <3>2 DEF In
    <3>3. CASE i < k
      BY <1>1, <2>0, <3>3 DEF In
    <3>. QED
      BY <1>1, <3>1, <3>2, <3>3
  <2>. QED
    BY <1>1, <2>1 DEF Holds
<1>. QED
  BY <1>3, <1>4, <1>5, <1>6

(* A range is given another status.                                        *)
LEMMA RestatusKeeps ==
  ASSUME NEW s, Chain(s), NEW i \in 1 .. Len(s), NEW st \in Status,
         NEW new, new = [s EXCEPT ![i].status = st]
  PROVE  /\ Chain(new) /\ Len(new) = Len(s)
         /\ NoneEmpty(s) => NoneEmpty(new)
         /\ \A u \in Units, status \in Status :
              Holds(new, u, status) <=> IF s[i].begin <= u /\ u < s[i].end THEN status = st
                                        ELSE Holds(s, u, status)
<1>a. PICK n, r : n = Len(s) /\ r = [s[i] EXCEPT !.status = st]
  OBVIOUS
<1>1. /\ n \in Nat /\ DOMAIN s = 1 .. n /\ i \in 1 .. n /\ s \in Seq(MR)
      /\ \A k \in 1 .. n : s[k] \in MR /\ s[k].begin \in Nat /\ s[k].end \in Nat
      /\ \A k \in 1 .. n : s[k].begin <= s[k].end
      /\ \A k, m \in 1 .. n : k < m => s[k].end <= s[m].begin
  BY <1>a, SeqFacts DEF Chain
<1>2. r \in MR /\ r.begin = s[i].begin /\ r.end = s[i].end /\ r.status = st
  BY <1>1, <1>a DEF MR
<1>3. new = [s EXCEPT ![i] = r]
  BY <1>a
<1>4. /\ new \in Seq(MR) /\ Len(new) = n /\ DOMAIN new = 1 .. n
      /\ new[i] = r /\ \A k \in 1 .. n : k # i => new[k] = s[k]
  BY <1>1, <1>2, <1>3
<1>5. \A k \in 1 .. n : new[k].begin = s[k].begin /\ new[k].end = s[k].end
  BY <1>2, <1>4
<1>6. Chain(new)
  BY <1>1, <1>4, <1>5 DEF Chain
<1>7. NoneEmpty(s) => NoneEmpty(new)
  BY <1>1, <1>4, <1>5 DEF NoneEmpty
<1>8. ASSUME NEW u \in Units, NEW status \in Status
      PROVE  Holds(new, u, status) <=> IF s[i].begin <= u /\ u < s[i].end THEN status = st
                                       ELSE Holds(s, u, status)
  <2>0. u \in Int
    BY DEF Units
  <2>1. CASE ~ (s[i].begin <= u /\ u < s[i].end)
    <3>1. \A k \in 1 .. n : In(new[k], u, status) <=> In(s[k], u, status)
      BY <1>2, <1>4, <2>1 DEF In
    <3>. QED
      BY <1>1, <1>4, <2>1, <3>1 DEF Holds
  <2>2. CASE s[i].begin <= u /\ u < s[i].end
    <3>1. ASSUME NEW k \in 1 .. n, k # i PROVE ~ (s[k].begin <= u /\ u < s[k].end)
      <4>1. s[k].end <= s[i].begin \/ s[i].end <= s[k].begin
        BY <1>1, <3>1
      <4>. QED
        BY <1>1, <2>0, <2>2, <4>1
    <3>2. \A k \in 1 .. n : k # i => ~ In(new[k], u, status)
      BY <1>4, <3>1 DEF In
    <3>3. In(new[i], u, status) <=> status = st
      BY <1>2, <1>4, <2>2 DEF In
    <3>. QED
      BY <1>1, <1>4, <2>2, <3>2, <3>3 DEF Holds
  <2>. QED
    BY <2>1, <2>2
<1>. QED
  BY <1>4, <1>6, <1>7, <1>8, <1>a

(* Ranges i .. j - 1 are replaced by one that fits between their           *)
(* neighbours.                                                             *)
LEMMA SpliceKeeps ==
  ASSUME NEW s, Chain(s), NEW i \in Nat, NEW j \in Nat, 1 <= i, i <= j, j <= Len(s) + 1,
         NEW x \in MR, x.begin <= x.end,
         \A k \in 1 .. i - 1 : s[k].end <= x.begin,
         \A k \in j .. Len(s) : x.end <= s[k].begin,
         NEW new, new = Splice(s, i, j, x)
  PROVE  /\ Chain(new) /\ Len(new) = Len(s) + i + 1 - j
         /\ NoneEmpty(s) /\ x.begin < x.end => NoneEmpty(new)
         /\ \A u \in Units, status \in Status :
              Holds(new, u, status) <=> \/ In(x, u, status)
                                        \/ \E k \in 1 .. i - 1 : In(s[k], u, status)
                                        \/ \E k \in j .. Len(s) : In(s[k], u, status)
<1>a. PICK n, m : n = Len(s) /\ m = Len(s) + i + 1 - j
  OBVIOUS
<1>1. /\ n \in Nat /\ DOMAIN s = 1 .. n /\ s \in Seq(MR) /\ j <= n + 1
      /\ \A k \in 1 .. n : s[k] \in MR /\ s[k].begin \in Nat /\ s[k].end \in Nat
      /\ \A k \in 1 .. n : s[k].begin <= s[k].end
      /\ \A k, l \in 1 .. n : k < l => s[k].end <= s[l].begin
      /\ m = n + i + 1 - j /\ m \in Nat
  <2>1. n \in Nat /\ s \in Seq(MR) /\ DOMAIN s = 1 .. n /\ j <= n + 1
    BY <1>a DEF Chain
  <2>2. m = n + i + 1 - j /\ m \in Nat
    BY <1>a, <2>1
  <2>3. /\ \A k \in 1 .. n : s[k] \in MR /\ s[k].begin \in Nat /\ s[k].end \in Nat
        /\ \A k \in 1 .. n : s[k].begin <= s[k].end
        /\ \A k, l \in 1 .. n : k < l => s[k].end <= s[l].begin
    BY <1>a, <2>1, SeqFacts DEF Chain
  <2>. QED
    BY <2>1, <2>2, <2>3, Zenon
<1>2. /\ new \in Seq(MR) /\ Len(new) = m /\ DOMAIN new = 1 .. m
      /\ \A k \in 1 .. i - 1 : new[k] = s[k]
      /\ new[i] = x
      /\ \A k \in j .. n : new[k + i + 1 - j] = s[k]
  <2>1. /\ Splice(s, i, j, x) \in Seq(MR)
        /\ Len(Splice(s, i, j, x)) = Len(s) + i + 1 - j
        /\ \A k \in 1 .. i - 1 : Splice(s, i, j, x)[k] = s[k]
        /\ Splice(s, i, j, x)[i] = x
        /\ \A k \in j .. Len(s) : Splice(s, i, j, x)[k + i + 1 - j] = s[k]
    <3>1. s \in Seq(MR) /\ i \in Nat /\ j \in Nat /\ x \in MR /\ 1 <= i /\ i <= j /\ j <= Len(s) + 1
      BY <1>1
    <3>2. IsSplice(Splice(s, i, j, x), MR, s, i, j, x)
      BY <3>1, SpliceList, Zenon
    <3>. QED
      BY <3>2 DEF IsSplice
  <2>2. new \in Seq(MR) /\ Len(new) = m
    BY <1>a, <2>1, Zenon
  <2>3. DOMAIN new = 1 .. m
    BY <2>2
  <2>. QED
    BY <1>a, <2>1, <2>2, <2>3, Zenon
<1>3. x.begin \in Nat /\ x.end \in Nat
  BY RangeFacts
<1>4. \A k \in 1 .. i - 1 : k \in 1 .. n /\ k \in 1 .. m
  BY <1>1
<1>5. \A k \in j .. n : k \in 1 .. n /\ k + i + 1 - j \in 1 .. m /\ k + i + 1 - j > i
  BY <1>1
<1>6. \A k \in 1 .. m : k \in 1 .. i - 1 \/ k = i \/ k - i - 1 + j \in j .. n
  BY <1>1
<1>7. \A k \in 1 .. m : (k - i - 1 + j) + i + 1 - j = k
  BY <1>1
<1>8. i \in 1 .. m
  BY <1>1
<1>9. \A k \in 1 .. m : k > i => k - i - 1 + j \in j .. n /\ new[k] = s[k - i - 1 + j]
  <2>1. SUFFICES ASSUME NEW k \in 1 .. m, k > i
                 PROVE  k - i - 1 + j \in j .. n /\ new[k] = s[k - i - 1 + j]
    OBVIOUS
  <2>2. k - i - 1 + j \in j .. n
    BY <1>1, <2>1
  <2>3. new[(k - i - 1 + j) + i + 1 - j] = s[k - i - 1 + j]
    BY <1>2, <2>2
  <2>. QED
    BY <1>7, <2>2, <2>3
<1>10. Chain(new)
  <2>1. ASSUME NEW k \in 1 .. m PROVE new[k].begin <= new[k].end
    <3>1. CASE k < i
      <4>1. k \in 1 .. i - 1
        BY <3>1
      <4>. QED
        BY <1>1, <1>2, <1>4, <4>1
    <3>2. CASE k = i
      BY <1>2, <3>2
    <3>3. CASE k > i
      BY <1>1, <1>5, <1>9, <3>3
    <3>. QED
      BY <3>1, <3>2, <3>3
  <2>2. ASSUME NEW k \in 1 .. m, NEW l \in 1 .. m, k < l PROVE new[k].end <= new[l].begin
    <3>1. CASE l < i
      <4>1. k \in 1 .. i - 1 /\ l \in 1 .. i - 1
        BY <2>2, <3>1
      <4>. QED
        BY <1>1, <1>2, <1>4, <2>2, <4>1
    <3>2. CASE l = i
      <4>1. k \in 1 .. i - 1
        BY <2>2, <3>2
      <4>. QED
        BY <1>2, <3>2, <4>1
    <3>3. CASE k < i /\ l > i
      <4>1. k \in 1 .. i - 1 /\ k \in 1 .. n /\ l - i - 1 + j \in j .. n /\ l - i - 1 + j \in 1 .. n
        BY <1>1, <3>3
      <4>2. k < l - i - 1 + j /\ new[k] = s[k] /\ new[l] = s[l - i - 1 + j]
        BY <1>1, <1>2, <1>9, <3>3, <4>1
      <4>. QED
        BY <1>1, <4>1, <4>2
    <3>4. CASE k = i
      <4>1. l > i
        BY <2>2, <3>4
      <4>2. l - i - 1 + j \in j .. n /\ new[l] = s[l - i - 1 + j]
        BY <1>9, <4>1
      <4>3. x.end <= s[l - i - 1 + j].begin
        BY <1>a, <4>2
      <4>. QED
        BY <1>2, <3>4, <4>2, <4>3, Zenon
    <3>5. CASE k > i
      <4>1. /\ k - i - 1 + j \in 1 .. n /\ l - i - 1 + j \in 1 .. n
            /\ k - i - 1 + j < l - i - 1 + j /\ l > i
        BY <1>1, <2>2, <3>5
      <4>2. new[k] = s[k - i - 1 + j] /\ new[l] = s[l - i - 1 + j]
        BY <1>9, <3>5, <4>1
      <4>. QED
        BY <1>1, <4>1, <4>2
    <3>. QED
      BY <3>1, <3>2, <3>3, <3>4, <3>5
  <2>. QED
    BY <1>2, <2>1, <2>2 DEF Chain
<1>11. ASSUME NoneEmpty(s), x.begin < x.end PROVE NoneEmpty(new)
  <2>1. \A k \in 1 .. n : s[k].begin < s[k].end
    BY <1>1, <1>11 DEF NoneEmpty
  <2>2. SUFFICES ASSUME NEW k \in 1 .. m PROVE new[k].begin < new[k].end
    BY <1>2 DEF NoneEmpty
  <2>3. CASE k < i
    <3>1. k \in 1 .. i - 1
      BY <2>3
    <3>. QED
      BY <1>2, <1>4, <2>1, <3>1
  <2>4. CASE k = i
    BY <1>2, <1>11, <2>4
  <2>5. CASE k > i
    BY <1>5, <1>9, <2>1, <2>5
  <2>. QED
    BY <2>3, <2>4, <2>5
<1>12. ASSUME NEW u \in Units, NEW status \in Status
       PROVE  Holds(new, u, status) <=> \/ In(x, u, status)
                                        \/ \E k \in 1 .. i - 1 : In(s[k], u, status)
                                        \/ \E k \in j .. n : In(s[k], u, status)
  <2>1. ASSUME NEW k \in 1 .. m, In(new[k], u, status)
        PROVE  \/ In(x, u, status)
               \/ \E l \in 1 .. i - 1 : In(s[l], u, status)
               \/ \E l \in j .. n : In(s[l], u, status)
    <3>1. CASE k < i
      <4>1. k \in 1 .. i - 1
        BY <3>1
      <4>. QED
        BY <1>2, <2>1, <4>1
    <3>2. CASE k = i
      BY <1>2, <2>1, <3>2
    <3>3. CASE k > i
      BY <1>9, <2>1, <3>3
    <3>. QED
      BY <3>1, <3>2, <3>3
  <2>2. ASSUME In(x, u, status) PROVE Holds(new, u, status)
    BY <1>2, <1>8, <2>2 DEF Holds
  <2>3. ASSUME NEW k \in 1 .. i - 1, In(s[k], u, status) PROVE Holds(new, u, status)
    BY <1>2, <1>4, <2>3 DEF Holds
  <2>4. ASSUME NEW k \in j .. n, In(s[k], u, status) PROVE Holds(new, u, status)
    <3>1. PICK l : l = k + i + 1 - j
      OBVIOUS
    <3>2. l \in 1 .. m /\ new[l] = s[k]
      BY <1>2, <1>5, <3>1
    <3>. QED
      BY <1>2, <2>4, <3>2 DEF Holds
  <2>. QED
    BY <1>2, <2>1, <2>2, <2>3, <2>4 DEF Holds
<1>. QED
  BY <1>2, <1>10, <1>11, <1>12, <1>a

-----------------------------------------------------------------------------
(* SetStatus, on ranges [b, e) overlaps.                                   *)

(* What the calls on [b, e) start from.                                    *)
Window(b, e) ==
  /\ Chain(ranges) /\ NoneEmpty(ranges) /\ Len(ranges) <= Capacity
  /\ b \in Bounds /\ e \in Bounds /\ b <= e
  /\ ~ Untouched(b, e)

(* What it means for the code's two searches that a window lies in the     *)
(* map.                                                                    *)
LEMMA WindowFacts ==
  ASSUME NEW b, NEW e, Window(b, e)
  PROVE  /\ b \in Nat /\ e \in Nat /\ b <= e
         /\ ranges \in Seq(MR) /\ Len(ranges) \in Nat
         /\ From(b) \in 1 .. Len(ranges) /\ To(e) - 1 \in 1 .. Len(ranges) /\ From(b) < To(e)
         /\ To(e) \in Nat
         /\ ranges[From(b)].end > b /\ ranges[To(e) - 1].begin < e
         /\ \A k \in 1 .. Len(ranges) :
              /\ ranges[k] \in MR /\ ranges[k].begin \in Nat /\ ranges[k].end \in Nat
              /\ ranges[k].begin < ranges[k].end
              /\ k < From(b) <=> ranges[k].end <= b
              /\ k < To(e) <=> ranges[k].begin < e
         /\ \A k, m \in 1 .. Len(ranges) : k < m => ranges[k].end <= ranges[m].begin
<1>1. b \in Nat /\ e \in Nat /\ b <= e /\ Chain(ranges) /\ NoneEmpty(ranges) /\ From(b) # To(e)
  BY MapAssumption DEF Window, Bounds, Untouched
<1>2. PICK n, f, t : n = Len(ranges) /\ f = From(b) /\ t = To(e)
  OBVIOUS
<1>3. /\ n \in Nat /\ f \in 1 .. n /\ t - 1 \in 1 .. n /\ f < t /\ t \in 1 .. n + 1
      /\ \A k \in 1 .. n : (k < f <=> ranges[k].end <= b) /\ (k < t <=> ranges[k].begin < e)
  <2>1. /\ From(b) \in 1 .. Len(ranges) + 1 /\ To(e) \in 1 .. Len(ranges) + 1
        /\ \A k \in 1 .. Len(ranges) :
             /\ k < From(b) <=> ranges[k].end <= b
             /\ k < To(e) <=> ranges[k].begin < e
        /\ From(b) < To(e) /\ From(b) \in 1 .. Len(ranges) /\ To(e) - 1 \in 1 .. Len(ranges)
    BY <1>1, WindowIs, Zenon
  <2>2. Len(ranges) \in Nat
    BY <1>1 DEF Chain
  <2>. QED
    BY <1>2, <2>1, <2>2, Zenon
<1>4. /\ ranges \in Seq(MR) /\ DOMAIN ranges = 1 .. n
      /\ \A k \in 1 .. n : ranges[k] \in MR /\ ranges[k].begin \in Nat /\ ranges[k].end \in Nat
  BY <1>1, <1>2, SeqFacts DEF Chain
<1>5. /\ \A k \in 1 .. n : ranges[k].begin < ranges[k].end
      /\ \A k, m \in 1 .. n : k < m => ranges[k].end <= ranges[m].begin
  BY <1>1, <1>4 DEF Chain, NoneEmpty
<1>6. ranges[f].end > b /\ ranges[t - 1].begin < e /\ t \in Nat
  <2>1. ~ (f < f) /\ t - 1 < t
    BY <1>3
  <2>. QED
    BY <1>1, <1>3, <1>4, <2>1
<1>. QED
  BY <1>1, <1>2, <1>3, <1>4, <1>5, <1>6

(* The head is cut: the rest of the window starts at range k, which begins *)
(* at b or later, and ends with range m.                                   *)
LEMMA HeadCutIs ==
  ASSUME NEW b, NEW e, Window(b, e),
         NEW h, h = HeadCut(b), NEW k, k = From(b) + Shift(b), NEW m, m = To(e) + Shift(b) - 1
  PROVE  /\ Chain(h) /\ NoneEmpty(h) /\ Len(h) = Len(ranges) + Shift(b)
         /\ Shift(b) \in {0, 1} /\ (Shift(b) = 1 <=> CutsHead(b))
         /\ k \in 1 .. Len(h) /\ m \in 1 .. Len(h) /\ k <= m
         /\ h[k].begin >= b /\ h[k].end = ranges[From(b)].end
         /\ ranges[From(b)].begin <= b => h[k].begin = b
         /\ h[k].begin \in {b, ranges[From(b)].begin}
         /\ h[m].begin <= e /\ (b < e => h[m].begin < e)
         /\ h[m].end = ranges[To(e) - 1].end /\ h[m].status = ranges[To(e) - 1].status
         /\ \A u \in Units, status \in Status :
              Holds(h, u, status) <=> Holds(ranges, u, status)
<1>1. PICK n, f, t : n = Len(ranges) /\ f = From(b) /\ t = To(e)
  OBVIOUS
<1>2. /\ b \in Nat /\ e \in Nat /\ b <= e /\ ranges \in Seq(MR) /\ n \in Nat
      /\ f \in 1 .. n /\ t - 1 \in 1 .. n /\ f < t /\ t \in Nat
      /\ ranges[f].end > b /\ ranges[t - 1].begin < e
      /\ \A i \in 1 .. n :
           /\ ranges[i] \in MR /\ ranges[i].begin \in Nat /\ ranges[i].end \in Nat
           /\ ranges[i].begin < ranges[i].end
      /\ \A i, j \in 1 .. n : i < j => ranges[i].end <= ranges[j].begin
  <2>. HIDE DEF Window
  <2>. QED
    BY <1>1, WindowFacts
<1>3. Chain(ranges) /\ NoneEmpty(ranges) /\ b \in Bounds
  BY DEF Window
<1>4. CASE ~ CutsHead(b)
  <2>1. h = ranges /\ Shift(b) = 0 /\ k = f /\ m = t - 1
    BY <1>1, <1>2, <1>4 DEF HeadCut, Shift
  <2>2. ranges[f].begin >= b
    BY <1>1, <1>2, <1>4 DEF CutsHead
  <2>. QED
    BY <1>1, <1>2, <1>3, <1>4, <2>1, <2>2
<1>5. CASE CutsHead(b)
  <2>1. h = Cut(ranges, f, b) /\ Shift(b) = 1 /\ k = f + 1 /\ m = t
    BY <1>1, <1>2, <1>5 DEF HeadCut, Shift
  <2>2. ranges[f].begin < b /\ b <= ranges[f].end
    BY <1>1, <1>2, <1>5 DEF CutsHead
  <2>3. ranges[f].begin <= b
    BY <1>2, <2>2
  <2>4. /\ Chain(h) /\ Len(h) = n + 1
        /\ \A i \in 1 .. f - 1 : h[i] = ranges[i]
        /\ h[f] = MemoryRange(ranges[f].begin, b, ranges[f].status)
        /\ h[f + 1] = MemoryRange(b, ranges[f].end, ranges[f].status)
        /\ \A i \in f + 1 .. n : h[i + 1] = ranges[i]
        /\ \A u \in Units, status \in Status :
             Holds(h, u, status) <=> Holds(ranges, u, status)
    <3>1. Chain(ranges) /\ f \in 1 .. Len(ranges) /\ b \in Bounds
      BY <1>1, <1>2, <1>3
    <3>2. /\ Chain(Cut(ranges, f, b)) /\ Len(Cut(ranges, f, b)) = Len(ranges) + 1
          /\ \A i \in 1 .. f - 1 : Cut(ranges, f, b)[i] = ranges[i]
          /\ Cut(ranges, f, b)[f] = MemoryRange(ranges[f].begin, b, ranges[f].status)
          /\ Cut(ranges, f, b)[f + 1] = MemoryRange(b, ranges[f].end, ranges[f].status)
          /\ \A i \in f + 1 .. Len(ranges) : Cut(ranges, f, b)[i + 1] = ranges[i]
          /\ \A u \in Units, status \in Status :
               Holds(Cut(ranges, f, b), u, status) <=> Holds(ranges, u, status)
      BY <2>2, <2>3, <3>1, CutKeeps, Zenon
    <3>. QED
      BY <1>1, <2>1, <3>2, Zenon
  <2>5. /\ h[f].begin = ranges[f].begin /\ h[f].end = b
        /\ h[k].begin = b /\ h[k].end = ranges[f].end /\ h[k].status = ranges[f].status
    BY <2>1, <2>4 DEF MemoryRange
  <2>6. NoneEmpty(h)
    <3>1. ASSUME NEW i \in 1 .. n + 1 PROVE h[i].begin < h[i].end
      <4>1. CASE i < f
        <5>1. i \in 1 .. f - 1 /\ i \in 1 .. n
          BY <1>2, <4>1
        <5>. QED
          BY <1>2, <2>4, <5>1
      <4>2. CASE i = f
        BY <2>2, <2>5, <4>2
      <4>3. CASE i = f + 1
        BY <1>2, <2>1, <2>5, <4>3
      <4>4. CASE i > f + 1
        <5>1. i - 1 \in f + 1 .. n /\ i - 1 \in 1 .. n /\ (i - 1) + 1 = i
          BY <1>2, <4>4
        <5>. QED
          BY <1>2, <2>4, <5>1
      <4>. QED
        BY <1>2, <4>1, <4>2, <4>3, <4>4
    <3>2. DOMAIN h = 1 .. n + 1
      BY <2>4 DEF Chain
    <3>. QED
      BY <3>1, <3>2 DEF NoneEmpty
  <2>7. k \in 1 .. n + 1 /\ m \in 1 .. n + 1 /\ k <= m
    BY <1>2, <2>1
  <2>8. /\ h[m].begin <= e /\ (b < e => h[m].begin < e)
        /\ h[m].end = ranges[t - 1].end /\ h[m].status = ranges[t - 1].status
    <3>1. CASE t - 1 = f
      <4>1. m = k
        BY <1>2, <2>1, <3>1
      <4>. QED
        BY <1>2, <2>5, <3>1, <4>1
    <3>2. CASE t - 1 # f
      <4>1. t - 1 \in f + 1 .. n /\ (t - 1) + 1 = m
        BY <1>2, <2>1, <3>2
      <4>2. h[m] = ranges[t - 1]
        BY <2>4, <4>1
      <4>. QED
        BY <1>2, <4>2
    <3>. QED
      BY <3>1, <3>2
  <2>9. h[k].begin >= b
    BY <1>2, <2>5
  <2>. QED
    BY <1>1, <1>5, <2>1, <2>4, <2>5, <2>6, <2>7, <2>8, <2>9
<1>. QED
  BY <1>4, <1>5

(* Both ends are cut: range k lies in the window.  When one range reaches  *)
(* over the whole window, k is the window; when one range alone overlaps   *)
(* it, k is what that range has of the window.                             *)
LEMMA BothCutIs ==
  ASSUME NEW b, NEW e, Window(b, e), HasRoom(b, e),
         NEW g, g = BothCut(b, e), NEW k, k = From(b) + Shift(b)
  PROVE  /\ Chain(g) /\ Len(g) <= Capacity /\ k \in 1 .. Len(g)
         /\ b < e => NoneEmpty(g)
         /\ b <= g[k].begin /\ g[k].begin <= g[k].end /\ g[k].end <= e
         /\ From(b) = To(e) - 1 /\ ranges[From(b)].begin <= b /\ e <= ranges[From(b)].end
              => g[k].begin = b /\ g[k].end = e
         /\ OneOverlaps(b, e) => /\ g[k].begin \in {b, ranges[From(b)].begin}
                                 /\ g[k].end \in {e, ranges[From(b)].end}
         /\ \A u \in Units, status \in Status :
              Holds(g, u, status) <=> Holds(ranges, u, status)
<1>1. PICK h, m, n, cap : /\ h = HeadCut(b) /\ m = To(e) + Shift(b) - 1
                          /\ n = Len(h) /\ cap = Capacity
  OBVIOUS
<1>2. /\ Chain(h) /\ NoneEmpty(h) /\ n = Len(ranges) + Shift(b)
      /\ Shift(b) \in {0, 1} /\ (Shift(b) = 1 <=> CutsHead(b))
      /\ k \in 1 .. n /\ m \in 1 .. n /\ k <= m
      /\ h[k].begin >= b /\ h[k].end = ranges[From(b)].end
      /\ ranges[From(b)].begin <= b => h[k].begin = b
      /\ h[k].begin \in {b, ranges[From(b)].begin}
      /\ h[m].begin <= e /\ (b < e => h[m].begin < e)
      /\ h[m].end = ranges[To(e) - 1].end
      /\ \A u \in Units, status \in Status :
           Holds(h, u, status) <=> Holds(ranges, u, status)
  BY <1>1, HeadCutIs
<1>3. /\ b \in Nat /\ e \in Nat /\ e \in Bounds /\ cap \in Nat /\ Len(ranges) \in Nat
      /\ Len(ranges) <= cap /\ (Shift(b) = 1 => Len(ranges) # cap)
      /\ From(b) \in Nat /\ To(e) \in Nat
  <2>1. b \in Nat /\ e \in Nat /\ Len(ranges) \in Nat /\ From(b) \in Nat /\ To(e) \in Nat
    BY WindowFacts
  <2>2. e \in Bounds /\ Len(ranges) <= Capacity
    BY DEF Window
  <2>3. Shift(b) = 1 => Len(ranges) # Capacity
    BY <1>2 DEF HasRoom, Full
  <2>. QED
    BY <1>1, <2>1, <2>2, <2>3, MapAssumption
<1>4. /\ h \in Seq(MR) /\ DOMAIN h = 1 .. n /\ n \in Nat /\ n <= cap
      /\ \A i \in 1 .. n : h[i].begin \in Nat /\ h[i].end \in Nat /\ h[i].begin < h[i].end
      /\ \A i, j \in 1 .. n : i < j => h[i].end <= h[j].begin
  <2>1. n \in Nat /\ n <= cap
    BY <1>1, <1>2, <1>3
  <2>. QED
    BY <1>1, <1>2, <2>1, SeqFacts DEF Chain, NoneEmpty
<1>5. k < m => h[k].end <= e
  BY <1>2, <1>3, <1>4, SMTT(30)
<1>6. CASE ~ CutsTail(b, e)
  <2>1. g = h /\ h[m].end <= e
    BY <1>1, <1>2, <1>3, <1>4, <1>6 DEF BothCut, CutsTail
  <2>2. h[k].end <= e
    <3>1. k = m \/ k < m
      BY <1>2
    <3>. QED
      BY <1>5, <2>1, <3>1
  <2>3. h[k].begin <= h[k].end
    BY <1>2, <1>4
  <2>4. /\ Chain(g) /\ Len(g) <= Capacity /\ k \in 1 .. Len(g) /\ NoneEmpty(g)
        /\ b <= g[k].begin
    BY <1>1, <1>2, <1>3, <1>4, <2>1
  <2>5. ASSUME From(b) = To(e) - 1, ranges[From(b)].begin <= b, e <= ranges[From(b)].end
        PROVE  g[k].begin = b /\ g[k].end = e
    BY <1>2, <1>3, <1>4, <2>1, <2>2, <2>5
  <2>6. g[k].begin \in {b, ranges[From(b)].begin} /\ g[k].end \in {e, ranges[From(b)].end}
    BY <1>2, <2>1
  <2>. QED
    BY <1>2, <2>1, <2>2, <2>3, <2>4, <2>5, <2>6
<1>7. CASE CutsTail(b, e)
  <2>1. g = Cut(h, m, e) /\ h[m].end > e /\ n # cap
    BY <1>1, <1>7 DEF BothCut, CutsTail, HasRoom
  <2>2. h[m].begin <= e /\ e <= h[m].end
    BY <1>2, <1>3, <1>4, <2>1
  <2>3. /\ Chain(g) /\ Len(g) = n + 1
        /\ \A i \in 1 .. m - 1 : g[i] = h[i]
        /\ g[m] = MemoryRange(h[m].begin, e, h[m].status)
        /\ g[m + 1] = MemoryRange(e, h[m].end, h[m].status)
        /\ \A i \in m + 1 .. n : g[i + 1] = h[i]
        /\ \A u \in Units, status \in Status : Holds(g, u, status) <=> Holds(h, u, status)
    <3>1. Chain(h) /\ m \in 1 .. Len(h) /\ e \in Bounds
      BY <1>1, <1>2, <1>3
    <3>2. /\ Chain(Cut(h, m, e)) /\ Len(Cut(h, m, e)) = Len(h) + 1
          /\ \A i \in 1 .. m - 1 : Cut(h, m, e)[i] = h[i]
          /\ Cut(h, m, e)[m] = MemoryRange(h[m].begin, e, h[m].status)
          /\ Cut(h, m, e)[m + 1] = MemoryRange(e, h[m].end, h[m].status)
          /\ \A i \in m + 1 .. Len(h) : Cut(h, m, e)[i + 1] = h[i]
          /\ \A u \in Units, status \in Status : Holds(Cut(h, m, e), u, status) <=> Holds(h, u, status)
      BY <2>2, <3>1, CutKeeps, Zenon
    <3>. QED
      BY <1>1, <2>1, <3>2, Zenon
  <2>4. /\ g[m].begin = h[m].begin /\ g[m].end = e
        /\ g[m + 1].begin = e /\ g[m + 1].end = h[m].end
    BY <2>3 DEF MemoryRange
  <2>5. k \in 1 .. n + 1 /\ n + 1 <= cap
    BY <1>2, <1>3, <1>4, <2>1
  <2>6. ASSUME b < e PROVE NoneEmpty(g)
    <3>1. ASSUME NEW i \in 1 .. n + 1 PROVE g[i].begin < g[i].end
      <4>1. CASE i < m
        <5>1. i \in 1 .. m - 1 /\ i \in 1 .. n
          BY <1>2, <1>4, <4>1
        <5>. QED
          BY <1>4, <2>3, <5>1
      <4>2. CASE i = m
        BY <1>2, <2>4, <2>6, <4>2
      <4>3. CASE i = m + 1
        BY <2>1, <2>4, <4>3, <1>2, <1>3, <1>4
      <4>4. CASE i > m + 1
        <5>1. i - 1 \in m + 1 .. n /\ i - 1 \in 1 .. n /\ (i - 1) + 1 = i
          BY <1>2, <1>4, <4>4
        <5>. QED
          BY <1>4, <2>3, <5>1
      <4>. QED
        BY <1>2, <1>4, <4>1, <4>2, <4>3, <4>4
    <3>2. DOMAIN g = 1 .. n + 1
      BY <2>3 DEF Chain
    <3>. QED
      BY <3>1, <3>2 DEF NoneEmpty
  <2>7. CASE k < m
    <3>1. k \in 1 .. m - 1
      BY <1>2, <2>7
    <3>2. g[k] = h[k] /\ h[k].begin <= h[k].end
      BY <1>2, <1>4, <2>3, <3>1
    <3>3. ~ (From(b) = To(e) - 1)
      BY <1>1, <1>2, <1>3, <2>7
    <3>4. k \in 1 .. Len(g) /\ Len(g) <= Capacity
      BY <1>1, <2>3, <2>5
    <3>5. ~ OneOverlaps(b, e)
      BY <3>3 DEF OneOverlaps
    <3>. QED
      BY <1>2, <1>5, <2>3, <2>6, <2>7, <3>2, <3>3, <3>4, <3>5
  <2>8. CASE k = m
    <3>1. g[k].begin = h[k].begin /\ g[k].end = e /\ h[k].begin <= e
      BY <1>2, <2>4, <2>8
    <3>2. k \in 1 .. Len(g) /\ Len(g) <= Capacity
      BY <1>1, <2>3, <2>5
    <3>3. g[k].begin <= g[k].end /\ g[k].end <= e /\ b <= g[k].begin
      BY <1>2, <1>3, <1>4, <3>1
    <3>4. g[k].begin \in {b, ranges[From(b)].begin} /\ g[k].end \in {e, ranges[From(b)].end}
      BY <1>2, <3>1
    <3>. QED
      BY <1>2, <2>3, <2>6, <3>1, <3>2, <3>3, <3>4
  <2>. QED
    BY <1>2, <2>7, <2>8
<1>. QED
  BY <1>6, <1>7

(* From s to new only units of [b, e) change their status, all to st, and  *)
(* no unit is forgotten or added.                                          *)
Effect(s, new, b, e, st) ==
  \A u \in Units, q \in Status :
    /\ Holds(new, u, q) => \/ Holds(s, u, q)
                           \/ q = st /\ b <= u /\ u < e /\ \E p \in Status : Holds(s, u, p)
    /\ Holds(s, u, q) => \/ Holds(new, u, q)
                         \/ b <= u /\ u < e /\ Holds(new, u, st)

(* What s has of [b, e) has the status st in new.                          *)
Fills(s, new, b, e, st) ==
  \A u \in Units, q \in Status :
    b <= u /\ u < e /\ Holds(s, u, q) => Holds(new, u, st)

(* From s to new the units of [lo, hi) are forgotten and nothing changes   *)
(* besides.                                                                *)
Without(s, new, lo, hi) ==
  \A u \in Units, q \in Status :
    Holds(new, u, q) <=> Holds(s, u, q) /\ ~ (lo <= u /\ u < hi)

(* One range reaches over the whole window.                                *)
OneRange(b, e) ==
  /\ From(b) = To(e) - 1
  /\ ranges[From(b)].begin <= b
  /\ e <= ranges[From(b)].end

(* SetStatus after its cuts: order, room and what each address is told.    *)
LEMMA StoredIs ==
  ASSUME NEW b, NEW e, NEW st \in Status, Window(b, e), HasRoom(b, e),
         NEW s, s = [BothCut(b, e) EXCEPT ![From(b) + Shift(b)].status = st]
  PROVE  /\ Chain(s) /\ Len(s) <= Capacity
         /\ b < e => NoneEmpty(s)
         /\ Effect(ranges, s, b, e, st)
         /\ OneRange(b, e) => \A u \in Units : b <= u /\ u < e => Holds(s, u, st)
         /\ OneOverlaps(b, e) => Fills(ranges, s, b, e, st)
<1>1. PICK g, k : g = BothCut(b, e) /\ k = From(b) + Shift(b)
  OBVIOUS
<1>2. /\ Chain(g) /\ Len(g) <= Capacity /\ k \in 1 .. Len(g)
      /\ b < e => NoneEmpty(g)
      /\ b <= g[k].begin /\ g[k].begin <= g[k].end /\ g[k].end <= e
      /\ OneRange(b, e) => g[k].begin = b /\ g[k].end = e
      /\ OneOverlaps(b, e) => /\ g[k].begin \in {b, ranges[From(b)].begin}
                              /\ g[k].end \in {e, ranges[From(b)].end}
      /\ \A u \in Units, status \in Status :
           Holds(g, u, status) <=> Holds(ranges, u, status)
  BY <1>1, BothCutIs DEF OneRange
<1>3. s = [g EXCEPT ![k].status = st]
  BY <1>1
<1>4. /\ Chain(s) /\ Len(s) = Len(g)
      /\ NoneEmpty(g) => NoneEmpty(s)
      /\ \A u \in Units, status \in Status :
           Holds(s, u, status) <=> IF g[k].begin <= u /\ u < g[k].end THEN status = st
                                   ELSE Holds(g, u, status)
  BY <1>2, <1>3, RestatusKeeps, ZenonT(30)
<1>5. /\ b \in Nat /\ e \in Nat /\ g[k].begin \in Nat /\ g[k].end \in Nat
      /\ g[k] \in MR /\ g[k].status \in Status /\ k \in DOMAIN g
  BY <1>2, WindowFacts, SeqFacts, RangeFacts DEF Chain
<1>6. ASSUME NEW u \in Units
      PROVE  /\ g[k].begin <= u /\ u < g[k].end => /\ b <= u /\ u < e
                                                   /\ Holds(g, u, g[k].status)
             /\ OneRange(b, e) /\ b <= u /\ u < e => g[k].begin <= u /\ u < g[k].end
  <2>1. u \in Int
    BY DEF Units
  <2>2. g[k].begin <= u /\ u < g[k].end => b <= u /\ u < e
    BY <1>2, <1>5, <2>1
  <2>3. g[k].begin <= u /\ u < g[k].end => Holds(g, u, g[k].status)
    BY <1>5 DEF Holds, In
  <2>. QED
    BY <1>2, <2>2, <2>3
<1>7. Effect(ranges, s, b, e, st)
  BY <1>2, <1>4, <1>5, <1>6 DEF Effect
<1>8. OneRange(b, e) => \A u \in Units : b <= u /\ u < e => Holds(s, u, st)
  BY <1>4, <1>6
<1>9. ASSUME OneOverlaps(b, e) PROVE Fills(ranges, s, b, e, st)
  <2>1. SUFFICES ASSUME NEW u \in Units, NEW q \in Status, b <= u, u < e, Holds(ranges, u, q)
                 PROVE  Holds(s, u, st)
    BY DEF Fills
  <2>2. PICK f : f = From(b)
    OBVIOUS
  <2>3. /\ Len(ranges) \in Nat /\ f \in 1 .. Len(ranges) /\ To(e) = f + 1 /\ u \in Int
        /\ \A i \in 1 .. Len(ranges) :
             /\ ranges[i].begin \in Nat /\ ranges[i].end \in Nat
             /\ i < f <=> ranges[i].end <= b
             /\ i < To(e) <=> ranges[i].begin < e
        /\ DOMAIN ranges = 1 .. Len(ranges)
    <3>1. To(e) = f + 1
      BY <1>9, <2>2, WindowFacts DEF OneOverlaps
    <3>2. ranges \in Seq(MR) /\ u \in Int
      BY WindowFacts DEF Units
    <3>. QED
      BY <2>2, <3>1, <3>2, WindowFacts
  <2>4. PICK i \in 1 .. Len(ranges) : ranges[i].begin <= u /\ u < ranges[i].end
    BY <2>1, <2>3 DEF Holds, In
  <2>5. i = f
    BY <1>5, <2>1, <2>3, <2>4
  <2>6. g[k].begin <= u /\ u < g[k].end
    BY <1>2, <1>9, <2>1, <2>2, <2>4, <2>5
  <2>. QED
    BY <1>4, <2>6
<1>. QED
  BY <1>2, <1>4, <1>7, <1>8, <1>9

(* A map that stays as it is satisfies what is said of any call.           *)
LEMMA NoEffect ==
  ASSUME NEW s, NEW b, NEW e, NEW st
  PROVE  Effect(s, s, b, e, st)
BY DEF Effect

(* SetStatus where it returns true: the whole effect.                      *)
LEMMA SetStatusKeeps ==
  ASSUME NEW b, NEW e, NEW st \in Status, Window(b, e), StoresFirst(b, e, st)
  PROVE  /\ Chain(ranges') /\ NoneEmpty(ranges') /\ Len(ranges') <= Capacity
         /\ b < e => NoneMerge(ranges')
         /\ Effect(ranges, ranges', b, e, st)
         /\ OneRange(b, e) => \A u \in Units : b <= u /\ u < e => Holds(ranges', u, st)
         /\ OneOverlaps(b, e) => Fills(ranges, ranges', b, e, st)
<1>1. PICK s : s = [BothCut(b, e) EXCEPT ![From(b) + Shift(b)].status = st]
  OBVIOUS
<1>2. HasRoom(b, e) /\ ranges' = Compact(s)
  BY <1>1 DEF StoresFirst
<1>3. /\ Chain(s) /\ Len(s) <= Capacity
      /\ b < e => NoneEmpty(s)
      /\ Effect(ranges, s, b, e, st)
      /\ OneRange(b, e) => \A u \in Units : b <= u /\ u < e => Holds(s, u, st)
      /\ OneOverlaps(b, e) => Fills(ranges, s, b, e, st)
  BY <1>1, <1>2, StoredIs
<1>4. PICK new : new = Compact(s)
  OBVIOUS
<1>5. /\ Chain(new) /\ NoneEmpty(new) /\ Len(new) <= Len(s)
      /\ \A u \in Units, status \in Status : Holds(new, u, status) <=> Holds(s, u, status)
      /\ NoneEmpty(s) => NoneMerge(new)
  BY <1>3, <1>4, CompactKeeps
<1>6. Len(new) <= Capacity
  <2>1. Len(new) \in Nat /\ Len(s) \in Nat /\ Capacity \in Nat
    BY <1>3, <1>5, MapAssumption DEF Chain
  <2>. QED
    BY <1>3, <1>5, <2>1
<1>7. Effect(ranges, new, b, e, st)
  BY <1>3, <1>5 DEF Effect
<1>8. OneOverlaps(b, e) => Fills(ranges, new, b, e, st)
  BY <1>3, <1>5 DEF Fills
<1>9. ranges' = new
  BY <1>2, <1>4
<1>. QED
  BY <1>3, <1>5, <1>6, <1>7, <1>8, <1>9

(* SetStatus where its loop does not end: the cuts and the first store are *)
(* made.                                                                   *)
LEMMA SetStatusHangsKeeps ==
  ASSUME NEW b, NEW e, NEW st \in Status, Window(b, e), Loops(b, e, st)
  PROVE  /\ Chain(ranges') /\ Len(ranges') <= Capacity
         /\ Effect(ranges, ranges', b, e, st)
         /\ OneRange(b, e) => \A u \in Units : b <= u /\ u < e => Holds(ranges', u, st)
         /\ OneOverlaps(b, e) => Fills(ranges, ranges', b, e, st)
<1>1. PICK s : s = [BothCut(b, e) EXCEPT ![From(b) + Shift(b)].status = st]
  OBVIOUS
<1>2. HasRoom(b, e) /\ ranges' = s
  BY <1>1 DEF Loops
<1>. QED
  BY <1>1, <1>2, StoredIs

(* A call that runs out of room forgets the piece of one range beyond one  *)
(* end of the window, and nothing else.                                    *)
LEMMA SetStatusFailsKeeps ==
  ASSUME NEW b, NEW e, Window(b, e), LosesHead(b, e) \/ LosesTail(b, e)
  PROVE  /\ Chain(ranges') /\ Len(ranges') <= Capacity
         /\ b < e => NoneEmpty(ranges')
         /\ \A u \in Units, q \in Status :
              /\ Holds(ranges', u, q) => Holds(ranges, u, q)
              /\ OneRange(b, e) /\ Holds(ranges, u, q) /\ q # ranges[From(b)].status
                   => Holds(ranges', u, q)
         /\ \E i \in 1 .. Len(ranges) :
              \/ /\ ranges[i].begin < b /\ b < ranges[i].end
                 /\ Without(ranges, ranges', ranges[i].begin, b)
              \/ /\ ranges[i].begin < e /\ e < ranges[i].end
                 /\ Without(ranges, ranges', e, ranges[i].end)
<1>1. PICK f, n : f = From(b) /\ n = Len(ranges)
  OBVIOUS
<1>2. /\ b \in Nat /\ e \in Nat /\ b \in Bounds /\ e \in Bounds
      /\ Chain(ranges) /\ NoneEmpty(ranges) /\ ranges \in Seq(MR)
      /\ n <= Capacity /\ f \in 1 .. n /\ ranges[f] \in MR
      /\ ranges[f].begin \in Nat /\ ranges[f].end \in Nat /\ ranges[f].end > b
  <2>1. /\ b \in Nat /\ e \in Nat /\ ranges \in Seq(MR) /\ f \in 1 .. n /\ ranges[f] \in MR
        /\ ranges[f].begin \in Nat /\ ranges[f].end \in Nat /\ ranges[f].end > b
    BY <1>1, WindowFacts
  <2>. QED
    BY <1>1, <2>1 DEF Window
<1>3. CASE LosesHead(b, e)
  <2>1. PICK r : r = [ranges[f] EXCEPT !.begin = b]
    OBVIOUS
  <2>2. ranges' = [ranges EXCEPT ![f] = r] /\ ranges[f].begin < b
    BY <1>1, <1>3, <2>1 DEF LosesHead, CutsHead
  <2>3. /\ r \in MR /\ r.begin = b /\ r.end = ranges[f].end /\ r.status = ranges[f].status
    BY <1>2, <2>1 DEF MR
  <2>4. PICK new : new = [ranges EXCEPT ![f] = r]
    OBVIOUS
  <2>5. /\ new \in Seq(MR) /\ Len(new) = Len(ranges) /\ new[f] = r
        /\ \A k \in 1 .. Len(ranges) : k # f => new[k] = ranges[k]
    BY <1>1, <1>2, <2>3, <2>4
  <2>6. /\ f \in 1 .. Len(ranges)
        /\ ranges[f].begin <= r.begin /\ r.begin <= r.end /\ r.end <= ranges[f].end
        /\ r.begin < r.end
    BY <1>1, <1>2, <2>2, <2>3
  <2>7. /\ Chain(new)
        /\ NoneEmpty(ranges) /\ r.begin < r.end => NoneEmpty(new)
        /\ \A u \in Units, status \in Status :
             /\ Holds(new, u, status) => Holds(ranges, u, status)
             /\ Holds(ranges, u, status) /\ status # r.status => Holds(new, u, status)
             /\ Holds(new, u, status) <=> /\ Holds(ranges, u, status)
                                         /\ ~ (ranges[f].begin <= u /\ u < r.begin)
                                         /\ ~ (r.end <= u /\ u < ranges[f].end)
    BY <1>2, <2>3, <2>5, <2>6, ShrinkKeeps
  <2>8. Without(ranges, new, ranges[f].begin, b)
    <3>1. \A u \in Units : ~ (ranges[f].end <= u /\ u < ranges[f].end)
      BY <1>2 DEF Units
    <3>. QED
      BY <2>3, <2>7, <3>1 DEF Without
  <2>9. /\ f \in 1 .. Len(ranges) /\ ranges[f].begin < b /\ b < ranges[f].end
        /\ Without(ranges, ranges', ranges[f].begin, b)
    BY <1>2, <2>2, <2>4, <2>6, <2>8
  <2>. QED
    BY <1>1, <1>2, <2>2, <2>3, <2>4, <2>5, <2>6, <2>7, <2>9
<1>4. CASE LosesTail(b, e)
  <2>1. PICK h, m : h = HeadCut(b) /\ m = To(e) + Shift(b) - 1
    OBVIOUS
  <2>2. /\ Chain(h) /\ NoneEmpty(h)
        /\ m \in 1 .. Len(h)
        /\ h[m].begin <= e /\ (b < e => h[m].begin < e)
        /\ h[m].end = ranges[To(e) - 1].end /\ h[m].status = ranges[To(e) - 1].status
        /\ \A u \in Units, status \in Status : Holds(h, u, status) <=> Holds(ranges, u, status)
    BY <2>1, HeadCutIs
  <2>3. h[m].end > e /\ Len(h) = Capacity /\ ranges' = [h EXCEPT ![m].end = e]
    BY <1>4, <2>1 DEF LosesTail, CutsTail
  <2>4. PICK r : r = [h[m] EXCEPT !.end = e]
    OBVIOUS
  <2>5. PICK new : new = [h EXCEPT ![m] = r]
    OBVIOUS
  <2>6. h \in Seq(MR) /\ h[m] \in MR /\ h[m].begin \in Nat /\ h[m].end \in Nat
    BY <2>2, SeqFacts DEF Chain
  <2>7. /\ r \in MR /\ r.begin = h[m].begin /\ r.end = e /\ r.status = h[m].status
    BY <1>2, <2>4, <2>6 DEF MR
  <2>8. /\ new \in Seq(MR) /\ Len(new) = Len(h) /\ new[m] = r
        /\ \A k \in 1 .. Len(h) : k # m => new[k] = h[k]
    BY <2>2, <2>5, <2>6, <2>7
  <2>9. h[m].begin <= r.begin /\ r.begin <= r.end /\ r.end <= h[m].end
    BY <1>2, <2>2, <2>3, <2>6, <2>7
  <2>10. /\ Chain(new)
         /\ NoneEmpty(h) /\ r.begin < r.end => NoneEmpty(new)
         /\ \A u \in Units, status \in Status :
              /\ Holds(new, u, status) => Holds(h, u, status)
              /\ Holds(h, u, status) /\ status # r.status => Holds(new, u, status)
              /\ Holds(new, u, status) <=> /\ Holds(h, u, status)
                                          /\ ~ (h[m].begin <= u /\ u < r.begin)
                                          /\ ~ (r.end <= u /\ u < h[m].end)
    BY <2>2, <2>7, <2>8, <2>9, ShrinkKeeps
  <2>11. ranges' = new
    BY <2>3, <2>4, <2>5
  <2>12. Len(new) <= Capacity
    BY <2>3, <2>8, MapAssumption
  <2>13. OneRange(b, e) => r.status = ranges[From(b)].status
    BY <2>2, <2>7 DEF OneRange
  <2>14. b < e => r.begin < r.end
    BY <2>2, <2>7
  <2>15. Without(ranges, new, e, h[m].end)
    <3>1. \A u \in Units : ~ (h[m].begin <= u /\ u < h[m].begin)
      BY <2>6 DEF Units
    <3>. QED
      BY <2>2, <2>7, <2>10, <3>1 DEF Without
  <2>16. PICK i : i = To(e) - 1
    OBVIOUS
  <2>17. /\ i \in 1 .. Len(ranges) /\ ranges[i].begin < e /\ e < ranges[i].end
         /\ Without(ranges, ranges', e, ranges[i].end)
    BY <2>2, <2>3, <2>6, <2>11, <2>15, <2>16, <1>2, WindowFacts
  <2>. QED
    BY <2>2, <2>10, <2>11, <2>12, <2>13, <2>14, <2>17
<1>. QED
  BY <1>3, <1>4

-----------------------------------------------------------------------------
(* Register.                                                               *)

(* What Register starts from.                                              *)
Ready(b, e) ==
  /\ Chain(ranges) /\ NoneEmpty(ranges) /\ Len(ranges) <= Capacity
  /\ b \in Bounds /\ e \in Bounds /\ b < e

(* From s to new the units of [b, e) are added with status st, and none of *)
(* them had another one.                                                   *)
Added(s, new, b, e, st) ==
  \A u \in Units, q \in Status :
    /\ Holds(new, u, q) <=> Holds(s, u, q) \/ (q = st /\ b <= u /\ u < e)
    /\ b <= u /\ u < e /\ Holds(s, u, q) => q = st

(* Register where nothing overlaps: one range more.                        *)
LEMMA NewRangeKeeps ==
  ASSUME NEW b, NEW e, NEW st \in Status, Ready(b, e), From(b) = To(e), ~ Full,
         NEW new, new = InsertAt(ranges, From(b), MemoryRange(b, e, st))
  PROVE  /\ Chain(new) /\ NoneEmpty(new) /\ Len(new) <= Capacity
         /\ Added(ranges, new, b, e, st)
<1>1. PICK n, f, x : n = Len(ranges) /\ f = From(b) /\ x = MemoryRange(b, e, st)
  OBVIOUS
<1>2. /\ b \in Nat /\ e \in Nat /\ b < e /\ b \in Bounds /\ e \in Bounds
      /\ Chain(ranges) /\ NoneEmpty(ranges) /\ n <= Capacity /\ n # Capacity
  BY <1>1, MapAssumption DEF Ready, Bounds, Full
<1>3. /\ f \in 1 .. n + 1 /\ n \in Nat
      /\ \A i \in 1 .. n : (i < f <=> ranges[i].end <= b) /\ (i < f <=> ranges[i].begin < e)
  <2>1. b <= e
    BY <1>2
  <2>2. /\ From(b) \in 1 .. Len(ranges) + 1
        /\ \A i \in 1 .. Len(ranges) : /\ i < From(b) <=> ranges[i].end <= b
                                       /\ i < To(e) <=> ranges[i].begin < e
    BY <1>2, <2>1, WindowIs
  <2>. QED
    BY <1>1, <1>2, <2>2 DEF Chain
<1>4. x \in MR /\ x.begin = b /\ x.end = e /\ x.status = st
  BY <1>1, <1>2 DEF MemoryRange, MR
<1>5. new = Splice(ranges, f, f, x)
  BY <1>1 DEF InsertAt, Splice
<1>6. /\ f \in Nat /\ 1 <= f /\ f <= f /\ f <= Len(ranges) + 1
      /\ \A k \in 1 .. f - 1 : ranges[k].end <= x.begin
      /\ \A k \in f .. Len(ranges) : x.end <= ranges[k].begin
  <2>1. /\ \A k \in 1 .. f - 1 : k \in 1 .. n /\ k < f
        /\ \A k \in f .. n : k \in 1 .. n /\ ~ (k < f)
        /\ \A k \in 1 .. n : ranges[k].begin \in Nat
    BY <1>1, <1>2, <1>3, SeqFacts DEF Chain
  <2>. QED
    BY <1>1, <1>2, <1>3, <1>4, <2>1
<1>7. /\ Chain(new) /\ Len(new) = Len(ranges) + f + 1 - f
      /\ NoneEmpty(ranges) /\ x.begin < x.end => NoneEmpty(new)
      /\ \A u \in Units, status \in Status :
           Holds(new, u, status) <=> \/ In(x, u, status)
                                     \/ \E k \in 1 .. f - 1 : In(ranges[k], u, status)
                                     \/ \E k \in f .. Len(ranges) : In(ranges[k], u, status)
  <2>1. x.begin <= x.end
    BY <1>2, <1>4
  <2>. QED
    BY <1>2, <1>4, <1>5, <1>6, <2>1, SpliceKeeps
<1>8. Len(new) <= Capacity
  BY <1>1, <1>2, <1>3, <1>7, MapAssumption
<1>9. NoneEmpty(new)
  BY <1>2, <1>4, <1>7
<1>10. ASSUME NEW u \in Units, NEW q \in Status
       PROVE  /\ Holds(new, u, q) <=> Holds(ranges, u, q) \/ (q = st /\ b <= u /\ u < e)
              /\ b <= u /\ u < e => ~ Holds(ranges, u, q)
  <2>1. DOMAIN ranges = 1 .. n /\ \A k : k \in 1 .. n <=> k \in 1 .. f - 1 \/ k \in f .. n
    BY <1>1, <1>2, <1>3 DEF Chain
  <2>2. Holds(ranges, u, q) <=> \/ \E k \in 1 .. f - 1 : In(ranges[k], u, q)
                                \/ \E k \in f .. n : In(ranges[k], u, q)
    BY <2>1 DEF Holds
  <2>3. In(x, u, q) <=> q = st /\ b <= u /\ u < e
    BY <1>4 DEF In
  <2>4. Holds(new, u, q) <=> Holds(ranges, u, q) \/ (q = st /\ b <= u /\ u < e)
    BY <1>1, <1>7, <2>2, <2>3
  <2>5. ASSUME b <= u, u < e, NEW k \in 1 .. n PROVE ~ In(ranges[k], u, q)
    <3>1. u \in Int /\ ranges[k].begin \in Nat /\ ranges[k].end \in Nat
      BY <1>1, <1>2, SeqFacts DEF Units, Chain
    <3>2. ranges[k].end <= b \/ e <= ranges[k].begin
      BY <1>2, <1>3, <3>1
    <3>. QED
      BY <1>2, <2>5, <3>1, <3>2 DEF In
  <2>. QED
    BY <2>1, <2>4, <2>5 DEF Holds
<1>. QED
  BY <1>7, <1>8, <1>9, <1>10 DEF Added

(* The range that replaces the ones [b, e) overlaps, all of them of status *)
(* st, holds what they held and [b, e).                                    *)
LEMMA JoinedKeeps ==
  ASSUME NEW b, NEW e, NEW st \in Status, Ready(b, e), From(b) # To(e),
         \A i \in From(b) .. To(e) - 1 : ranges[i].status = st,
         NEW new, new = Splice(ranges, From(b), To(e), Joined(b, e, st))
  PROVE  /\ Chain(new) /\ NoneEmpty(new) /\ Len(new) <= Capacity
         /\ Added(ranges, new, b, e, st)
<1>1. PICK n, f, t, x : /\ n = Len(ranges) /\ f = From(b) /\ t = To(e)
                        /\ x = Joined(b, e, st)
  OBVIOUS
<1>0. Window(b, e)
  <2>1. b \in Nat /\ e \in Nat /\ b < e => b <= e
    OBVIOUS
  <2>. QED
    BY <2>1, MapAssumption DEF Ready, Window, Untouched, Bounds
<1>2. /\ b \in Nat /\ e \in Nat /\ n \in Nat /\ t \in Nat
      /\ f \in 1 .. n /\ t - 1 \in 1 .. n /\ f < t
      /\ ranges[f].end > b /\ ranges[t - 1].begin < e
      /\ \A k \in 1 .. n :
           /\ ranges[k] \in MR /\ ranges[k].begin \in Nat /\ ranges[k].end \in Nat
           /\ ranges[k].begin < ranges[k].end
           /\ k < f <=> ranges[k].end <= b
           /\ k < t <=> ranges[k].begin < e
      /\ \A k, m \in 1 .. n : k < m => ranges[k].end <= ranges[m].begin
  BY <1>0, <1>1, WindowFacts
<1>3. /\ b < e /\ b \in Bounds /\ e \in Bounds
      /\ Chain(ranges) /\ NoneEmpty(ranges) /\ n <= Capacity
      /\ \A i \in f .. t - 1 : ranges[i].status = st
  BY <1>1 DEF Ready
<1>4. /\ x = MemoryRange(IF ranges[f].begin < b THEN ranges[f].begin ELSE b,
                         IF ranges[t - 1].end > e THEN ranges[t - 1].end ELSE e, st)
  BY <1>1 DEF Joined
<1>5. /\ x \in MR /\ x.begin \in Nat /\ x.end \in Nat /\ x.status = st
      /\ x.begin = (IF ranges[f].begin < b THEN ranges[f].begin ELSE b)
      /\ x.end = (IF ranges[t - 1].end > e THEN ranges[t - 1].end ELSE e)
  <2>1. ranges[f].begin \in Bounds /\ ranges[t - 1].end \in Bounds
    BY <1>2, RangeFacts
  <2>2. x.begin \in Bounds /\ x.end \in Bounds /\ x \in MR
    BY <1>3, <1>4, <2>1 DEF MemoryRange, MR
  <2>. QED
    BY <1>4, <2>2, RangeFacts DEF MemoryRange
<1>6. x.begin <= b /\ e <= x.end /\ x.begin < x.end
  BY <1>2, <1>3, <1>5
<1>7. new = Splice(ranges, f, t, x)
  BY <1>1
<1>8. /\ f \in Nat /\ 1 <= f /\ f <= t /\ t <= Len(ranges) + 1
      /\ \A k \in 1 .. f - 1 : ranges[k].end <= x.begin
      /\ \A k \in t .. Len(ranges) : x.end <= ranges[k].begin
  <2>1. ASSUME NEW k \in 1 .. f - 1 PROVE ranges[k].end <= x.begin
    <3>1. k \in 1 .. n /\ k < f
      BY <1>2
    <3>2. ranges[k].end <= b /\ ranges[k].end <= ranges[f].begin
      BY <1>2, <3>1
    <3>. QED
      BY <1>5, <3>2
  <2>2. ASSUME NEW k \in t .. n PROVE x.end <= ranges[k].begin
    <3>1. k \in 1 .. n /\ t - 1 < k /\ ~ (k < t)
      BY <1>2
    <3>2. e <= ranges[k].begin /\ ranges[t - 1].end <= ranges[k].begin
      BY <1>2, <3>1
    <3>. QED
      BY <1>5, <3>2
  <2>3. f \in Nat /\ 1 <= f /\ f <= t /\ t <= n + 1
    BY <1>2
  <2>. QED
    BY <1>1, <2>1, <2>2, <2>3
<1>9. /\ Chain(new) /\ Len(new) = Len(ranges) + f + 1 - t
      /\ NoneEmpty(ranges) /\ x.begin < x.end => NoneEmpty(new)
      /\ \A u \in Units, status \in Status :
           Holds(new, u, status) <=> \/ In(x, u, status)
                                     \/ \E k \in 1 .. f - 1 : In(ranges[k], u, status)
                                     \/ \E k \in t .. Len(ranges) : In(ranges[k], u, status)
  <2>1. x.begin <= x.end
    BY <1>5, <1>6
  <2>. QED
    BY <1>2, <1>3, <1>5, <1>7, <1>8, <2>1, SpliceKeeps
<1>10. Len(new) <= Capacity
  BY <1>1, <1>2, <1>3, <1>9, MapAssumption, SMTT(30)
<1>11. ASSUME NEW u \in Units, NEW q \in Status
       PROVE  /\ Holds(new, u, q) <=> Holds(ranges, u, q) \/ (q = st /\ b <= u /\ u < e)
              /\ b <= u /\ u < e /\ Holds(ranges, u, q) => q = st
  <2>0. u \in Int
    BY DEF Units
  <2>1. DOMAIN ranges = 1 .. n /\ \A k : k \in 1 .. n <=> k \in 1 .. f - 1 \/ k \in f .. t - 1 \/ k \in t .. n
    BY <1>1, <1>2, <1>3 DEF Chain
  <2>2. Holds(ranges, u, q) <=> \/ \E k \in 1 .. f - 1 : In(ranges[k], u, q)
                                \/ \E k \in f .. t - 1 : In(ranges[k], u, q)
                                \/ \E k \in t .. n : In(ranges[k], u, q)
    BY <2>1 DEF Holds
  <2>3. ASSUME NEW k \in f .. t - 1, In(ranges[k], u, q) PROVE In(x, u, q)
    <3>1. k \in 1 .. n /\ (k = f \/ f < k) /\ (k = t - 1 \/ k < t - 1)
      BY <1>2
    <3>2. ranges[f].begin <= ranges[k].begin /\ ranges[k].end <= ranges[t - 1].end
      BY <1>2, <3>1
    <3>3. ranges[k].status = st
      BY <1>3
    <3>4. x.begin <= ranges[f].begin /\ ranges[t - 1].end <= x.end
      BY <1>2, <1>5
    <3>. QED
      BY <1>2, <1>5, <2>0, <2>3, <3>1, <3>2, <3>3, <3>4 DEF In
  <2>4. ASSUME In(x, u, q)
        PROVE  q = st /\ ((b <= u /\ u < e) \/ \E k \in f .. t - 1 : In(ranges[k], u, q))
    <3>1. q = st /\ x.begin <= u /\ u < x.end
      BY <1>5, <2>4 DEF In
    <3>2. CASE u < b
      <4>1. ranges[f].begin <= u /\ u < ranges[f].end /\ f \in f .. t - 1
        BY <1>2, <1>5, <2>0, <3>1, <3>2
      <4>. QED
        BY <1>3, <3>1, <4>1 DEF In
    <3>3. CASE u >= e
      <4>1. ranges[t - 1].begin <= u /\ u < ranges[t - 1].end /\ t - 1 \in f .. t - 1
        BY <1>2, <1>5, <2>0, <3>1, <3>3
      <4>. QED
        BY <1>3, <3>1, <4>1 DEF In
    <3>. QED
      BY <1>2, <2>0, <3>1, <3>2, <3>3
  <2>5. b <= u /\ u < e /\ q = st => In(x, u, q)
    BY <1>2, <1>5, <1>6, <2>0 DEF In
  <2>6. ASSUME b <= u, u < e, NEW k \in 1 .. n, In(ranges[k], u, q) PROVE q = st
    <3>1. ~ (ranges[k].end <= b) /\ ranges[k].begin < e
      BY <1>2, <2>0, <2>6 DEF In
    <3>2. k \in f .. t - 1
      BY <1>2, <3>1
    <3>. QED
      BY <1>3, <2>6, <3>2 DEF In
  <2>7. Holds(new, u, q) <=> Holds(ranges, u, q) \/ (q = st /\ b <= u /\ u < e)
    BY <1>1, <1>9, <2>2, <2>3, <2>4, <2>5
  <2>. QED
    BY <2>1, <2>6, <2>7 DEF Holds
<1>. QED
  BY <1>3, <1>6, <1>9, <1>10, <1>11 DEF Added

(* Register where it returns true: the whole effect.                       *)
LEMMA RegisterKeeps ==
  ASSUME NEW b, NEW e, NEW st \in Status, Ready(b, e), Register(b, e, st)
  PROVE  /\ Chain(ranges') /\ NoneEmpty(ranges') /\ Len(ranges') <= Capacity
         /\ Added(ranges, ranges', b, e, st)
<1>1. CASE From(b) = To(e)
  <2>1. ~ Full /\ ranges' = InsertAt(ranges, From(b), MemoryRange(b, e, st))
    BY <1>1 DEF Register
  <2>. QED
    BY <1>1, <2>1, NewRangeKeeps
<1>2. CASE From(b) # To(e)
  <2>1. PICK s : s = Splice(ranges, From(b), To(e), Joined(b, e, st))
    OBVIOUS
  <2>2. /\ ranges' = Compact(s)
        /\ \A r \in ToSet(SubSeq(ranges, From(b), To(e) - 1)) : r.status = st
    BY <1>2, <2>1 DEF Register, Splice
  <2>3. \A i \in From(b) .. To(e) - 1 : ranges[i].status = st
    <3>1. PICK f, t, old : f = From(b) /\ t = To(e) /\ old = SubSeq(ranges, From(b), To(e) - 1)
      OBVIOUS
    <3>2. /\ b \in Nat /\ e \in Nat /\ b <= e /\ Chain(ranges) /\ NoneEmpty(ranges)
      BY MapAssumption DEF Ready, Bounds
    <3>3. f \in 1 .. Len(ranges) /\ t - 1 \in 1 .. Len(ranges) /\ f < t /\ t \in 1 .. Len(ranges) + 1
      BY <1>2, <3>1, <3>2, WindowIs
    <3>4. SUFFICES ASSUME NEW i \in f .. t - 1 PROVE ranges[i].status = st
      BY <3>1
    <3>5. ranges \in Seq(MR) /\ Len(ranges) \in Nat /\ \A j \in f .. t - 1 : ranges[j] \in MR
      <4>1. ranges \in Seq(MR) /\ Len(ranges) \in Nat
        BY <3>2 DEF Chain
      <4>2. \A j \in f .. t - 1 : j \in 1 .. Len(ranges)
        BY <3>3, <4>1
      <4>. QED
        BY <4>1, <4>2
    <3>6. /\ old \in Seq(MR) /\ Len(old) = t - f
          /\ \A j \in 1 .. t - f : old[j] = ranges[f + j - 1]
      <4>1. f \in Int /\ t - 1 \in Int
        BY <3>3
      <4>2. /\ SubSeq(ranges, f, t - 1) \in Seq(MR)
            /\ Len(SubSeq(ranges, f, t - 1)) = (IF f <= t - 1 THEN (t - 1) - f + 1 ELSE 0)
            /\ \A j \in 1 .. (t - 1) - f + 1 : SubSeq(ranges, f, t - 1)[j] = ranges[f + j - 1]
        BY <3>5, <4>1, SubSeqProperties
      <4>3. (t - 1) - f + 1 = t - f /\ f <= t - 1
        BY <3>3
      <4>. QED
        BY <3>1, <4>2, <4>3
    <3>7. PICK j : j = i - f + 1
      OBVIOUS
    <3>8. j \in 1 .. t - f /\ f + j - 1 = i
      BY <3>3, <3>7
    <3>9. old[j] = ranges[i] /\ j \in DOMAIN old
      BY <3>6, <3>8
    <3>. QED
      BY <2>2, <3>1, <3>9 DEF ToSet
  <2>4. /\ Chain(s) /\ NoneEmpty(s) /\ Len(s) <= Capacity
        /\ Added(ranges, s, b, e, st)
    BY <1>2, <2>1, <2>3, JoinedKeeps
  <2>5. PICK new : new = Compact(s)
    OBVIOUS
  <2>6. /\ Chain(new) /\ NoneEmpty(new) /\ Len(new) <= Len(s)
        /\ \A u \in Units, status \in Status : Holds(new, u, status) <=> Holds(s, u, status)
    BY <2>4, <2>5, CompactKeeps
  <2>7. Len(new) <= Capacity
    BY <2>4, <2>6, MapAssumption DEF Chain
  <2>8. Added(ranges, new, b, e, st)
    BY <2>4, <2>6 DEF Added
  <2>. QED
    BY <2>2, <2>5, <2>6, <2>7, <2>8
<1>. QED
  BY <1>1, <1>2

-----------------------------------------------------------------------------
(* The inductive invariant.                                                *)

(* The units the specification speaks of are those the ranges hold.        *)
LEMMA HeldUnits ==
  ASSUME NEW s \in Seq(MR)
  PROVE  /\ \A st : UNION {Span(s[i].begin, s[i].end) : i \in {j \in DOMAIN s : s[j].status = st}}
                      = {u \in Units : Holds(s, u, st)}
         /\ UNION {Span(s[i].begin, s[i].end) : i \in DOMAIN s}
              = {u \in Units : \E q \in Status : Holds(s, u, q)}
<1>1. ASSUME NEW i \in DOMAIN s
      PROVE  /\ s[i].status \in Status
             /\ \A u : u \in Span(s[i].begin, s[i].end)
                         <=> u \in Units /\ s[i].begin <= u /\ u < s[i].end
  <2>1. /\ s[i] \in MR /\ s[i].begin \in Nat /\ s[i].end \in Nat /\ s[i].status \in Status
        /\ s[i].end \in Bounds
    BY SeqFacts, RangeFacts
  <2>. QED
    BY <2>1, MapAssumption DEF Span, Units, Bounds
<1>2. ASSUME NEW st
      PROVE  \A u : u \in UNION {Span(s[i].begin, s[i].end) : i \in {j \in DOMAIN s : s[j].status = st}}
                      <=> u \in {v \in Units : Holds(s, v, st)}
  BY <1>1 DEF Holds, In
<1>3. \A u : u \in UNION {Span(s[i].begin, s[i].end) : i \in DOMAIN s}
               <=> u \in {v \in Units : \E q \in Status : Holds(s, v, q)}
  BY <1>1 DEF Holds, In
<1>. QED
  BY <1>2, <1>3

(* Covered addresses and those of a status, told by the ranges, before and *)
(* after a step.                                                           *)
LEMMA UnitsAre ==
  /\ ranges \in Seq(MR) =>
       /\ \A st : UnitsOf(st) = {u \in Units : Holds(ranges, u, st)}
       /\ Cover = {u \in Units : \E q \in Status : Holds(ranges, u, q)}
  /\ ranges' \in Seq(MR) =>
       /\ \A st : UnitsOf(st)' = {u \in Units : Holds(ranges', u, st)}
       /\ Cover' = {u \in Units : \E q \in Status : Holds(ranges', u, q)}
BY HeldUnits DEF UnitsOf, Cover

(* A unit has one status.                                                  *)
LEMMA OneStatus ==
  ASSUME NEW s, Chain(s), NEW u \in Units, NEW p, NEW q, Holds(s, u, p), Holds(s, u, q)
  PROVE  p = q
<1>1. PICK i \in DOMAIN s : In(s[i], u, p)
  BY DEF Holds
<1>2. PICK j \in DOMAIN s : In(s[j], u, q)
  BY DEF Holds
<1>3. /\ i \in 1 .. Len(s) /\ j \in 1 .. Len(s) /\ u \in Int
      /\ s[i].begin \in Nat /\ s[i].end \in Nat /\ s[j].begin \in Nat /\ s[j].end \in Nat
  BY SeqFacts DEF Chain, Units
<1>4. i < j => s[i].end <= s[j].begin
  BY DEF Chain
<1>5. j < i => s[j].end <= s[i].begin
  BY DEF Chain
<1>6. i = j
  BY <1>1, <1>2, <1>3, <1>4, <1>5 DEF In
<1>. QED
  BY <1>1, <1>2, <1>6 DEF In

(* What a call finds, as long as the boot goes on.                         *)
LEMMA OrderedIs ==
  ASSUME Ordered, ~ stopped
  PROVE  Chain(ranges) /\ NoneEmpty(ranges) /\ Len(ranges) <= Capacity
<1>1. ranges \in Seq(MR) /\ Len(ranges) <= Capacity
  BY DEF Ordered, TypeOK, MR
<1>2. \A i \in DOMAIN ranges : ranges[i].begin < ranges[i].end
  BY DEF Ordered
<1>3. \A i \in DOMAIN ranges : ranges[i].begin <= ranges[i].end
  <2>1. \A i \in DOMAIN ranges : ranges[i].begin \in Nat /\ ranges[i].end \in Nat
    BY <1>1, SeqFacts
  <2>. QED
    BY <1>2, <2>1
<1>. QED
  BY <1>1, <1>2, <1>3 DEF Ordered, Chain, NoneEmpty

(* What a call leaves behind.                                              *)
LEMMA OrderedNext ==
  ASSUME Chain(ranges'), NoneEmpty(ranges') \/ stopped', Len(ranges') <= Capacity,
         stopped' \in BOOLEAN, short' \in BOOLEAN, registered' \subseteq Units,
         blocks' \subseteq Units \X (1 .. Limit)
  PROVE  Ordered'
<1>1. TypeOK'
  <2>1. ranges' \in Seq([begin : Bounds, end : Bounds, status : Status])
    BY DEF Chain, MR
  <2>. QED
    BY <2>1 DEF TypeOK
<1>2. \A i \in DOMAIN ranges' : ranges'[i].begin < ranges'[i].end \/ stopped'
  BY DEF NoneEmpty
<1>3. \A i, j \in DOMAIN ranges' : i < j => ranges'[i].end <= ranges'[j].begin
  BY DEF Chain
<1>. QED
  BY <1>1, <1>2, <1>3 DEF Ordered

(* What the windows of the calls need.                                     *)
LEMMA WindowOf ==
  ASSUME Ordered, ~ stopped, NEW b \in Bounds, NEW e \in Bounds, b <= e
  PROVE  ~ Untouched(b, e) => Window(b, e)
BY OrderedIs DEF Window

(* Reserve and Release, when they return true and when they never return.  *)
LEMMA StatusEffect ==
  ASSUME Ordered, ~ stopped, NEW b \in Bounds, NEW e \in Bounds, b <= e, NEW st \in Status,
         SetStatus(b, e, st) \/ (~ Untouched(b, e) /\ Loops(b, e, st))
  PROVE  /\ Chain(ranges') /\ Len(ranges') <= Capacity
         /\ SetStatus(b, e, st) => NoneEmpty(ranges')
         /\ Effect(ranges, ranges', b, e, st)
         /\ ~ Untouched(b, e) /\ OneRange(b, e)
              => \A u \in Units : b <= u /\ u < e => Holds(ranges', u, st)
         /\ OneOverlaps(b, e) => Fills(ranges, ranges', b, e, st)
<1>1. CASE Untouched(b, e)
  <2>1. ranges' = ranges
    BY <1>1 DEF SetStatus
  <2>2. ~ OneOverlaps(b, e)
    <3>1. b \in Nat /\ e \in Nat
      BY MapAssumption DEF Bounds
    <3>2. Chain(ranges) /\ NoneEmpty(ranges) /\ Len(ranges) \in Nat
      BY OrderedIs DEF Chain
    <3>3. From(b) \in 1 .. Len(ranges) + 1 /\ To(e) \in 1 .. Len(ranges) + 1
      BY <3>1, <3>2, FromIs, ToIs, Zenon
    <3>. QED
      BY <1>1, <3>2, <3>3 DEF Untouched, OneOverlaps
  <2>. QED
    BY <1>1, <2>1, <2>2, OrderedIs, NoEffect
<1>2. CASE ~ Untouched(b, e) /\ StoresFirst(b, e, st)
  BY <1>2, WindowOf, SetStatusKeeps
<1>3. CASE ~ Untouched(b, e) /\ Loops(b, e, st) /\ ~ SetStatus(b, e, st)
  BY <1>3, WindowOf, SetStatusHangsKeeps
<1>. QED
  BY <1>1, <1>2, <1>3 DEF SetStatus

-----------------------------------------------------------------------------
(* What an allocation takes lies in one FREE range.                        *)

(* AlignUp returns the first multiple of the page size that is not below   *)
(* the address.                                                            *)
LEMMA AlignUpIs ==
  ASSUME NEW x \in Nat
  PROVE  /\ AlignUp(x) \in Nat /\ x <= AlignUp(x) /\ AlignUp(x) % PageSize = 0
         /\ \A a \in Nat : a % PageSize = 0 /\ x <= a => AlignUp(x) <= a
<1>. PICK p : p = PageSize
  OBVIOUS
<1>. PICK y : y = x + p - 1
  OBVIOUS
<1>. PICK q : q = y \div p
  OBVIOUS
<1>1. p \in Nat \ {0} /\ y \in Nat
  BY MapAssumption
<1>2. q \in Nat /\ p * q <= y /\ y < p * q + p
  <2>1. q \in Nat
    BY <1>1
  <2>2. p * q <= y
    BY <1>1
  <2>3. y < p * q + p
    BY <1>1
  <2>. QED
    BY <2>1, <2>2, <2>3
<1>3. AlignUp(x) = q * p
  BY DEF AlignUp
<1>. PICK z : z = q * p
  OBVIOUS
<1>4. z \in Nat /\ p * q = z
  BY <1>1, <1>2
<1>5. x <= z
  BY <1>1, <1>2, <1>4
<1>6. z % p = 0
  BY <1>1, <1>2
<1>7. ASSUME NEW a \in Nat, a % p = 0, x <= a PROVE z <= a
  <2>. PICK k : k = a \div p
    OBVIOUS
  <2>1. k \in Nat /\ a = p * k
    BY <1>1, <1>7
  <2>2. CASE q <= k
    <3>1. p * q <= p * k
      BY <1>1, <1>2, <2>1, <2>2
    <3>. QED
      BY <1>4, <2>1, <3>1
  <2>3. CASE q > k
    <3>1. q >= k + 1
      BY <1>2, <2>1, <2>3
    <3>2. p * (k + 1) <= p * q /\ p * (k + 1) = p * k + p
      BY <1>1, <1>2, <2>1, <3>1
    <3>3. a + p <= y
      BY <1>1, <1>2, <1>4, <2>1, <3>2
    <3>. QED
      BY <1>1, <1>7, <3>3
  <2>. QED
    BY <1>2, <2>1, <2>2, <2>3
<1>. QED
  BY <1>3, <1>4, <1>5, <1>6, <1>7

(* What AllocateIn finds: an aligned place inside one FREE range.          *)
LEMMA FindInIs ==
  ASSUME Ordered, ~ stopped, NEW b \in Bounds, NEW e \in Bounds, b < e, NEW size \in 1 .. Limit,
         Rooms(b, e, size) # {}, NEW addr, addr = FindIn(b, e, size)
  PROVE  /\ addr \in Nat /\ addr % PageSize = 0 /\ addr \in Bounds /\ addr + size \in Bounds
         /\ Window(addr, addr + size) /\ OneRange(addr, addr + size)
         /\ ranges[From(addr)].status = "FREE"
<1>. PICK n : n = Len(ranges)
  OBVIOUS
<1>1. /\ Chain(ranges) /\ NoneEmpty(ranges) /\ n <= Capacity
      /\ b \in Nat /\ e \in Nat /\ size \in Nat \ {0} /\ Limit \in Nat
  BY OrderedIs, MapAssumption DEF Bounds
<1>2. /\ n \in Nat /\ DOMAIN ranges = 1 .. n
      /\ \A i \in 1 .. n : /\ ranges[i] \in MR /\ ranges[i].begin \in Nat /\ ranges[i].end \in Nat
                           /\ ranges[i].end \in Bounds /\ ranges[i].begin < ranges[i].end
  BY <1>1, SeqFacts, RangeFacts DEF Chain, NoneEmpty
<1>3. \A i, j \in 1 .. n : i < j => ranges[i].end <= ranges[j].begin
  BY <1>1, <1>2 DEF Chain
<1>4. PICK i : i \in Rooms(b, e, size) /\ addr = AddressIn(ranges[i], b, e)
  <2>. PICK S : S = Rooms(b, e, size)
    OBVIOUS
  <2>1. From(b) \in Nat /\ To(e) \in Nat
    BY <1>1, FromIs, ToIs
  <2>2. S \in SUBSET Nat
    BY <2>1 DEF Rooms
  <2>3. FirstOr(S, 1) \in S
    BY <2>2, FirstOrIs
  <2>. QED
    BY <2>3 DEF FindIn
<1>5. /\ i \in 1 .. n /\ ranges[i].begin < e /\ b < ranges[i].end
      /\ ranges[i].status = "FREE"
      /\ addr + size <= Clamp(ranges[i].end, b, e)
  <2>1. i \in From(b) .. To(e) - 1
    BY <1>4 DEF Rooms
  <2>2. /\ ranges[i].status = "FREE"
        /\ addr + size <= Clamp(ranges[i].end, b, e)
    BY <1>4 DEF Rooms
  <2>3. From(b) \in 1 .. n + 1 /\ To(e) \in 1 .. n + 1
    BY <1>1, FromIs, ToIs
  <2>4. i \in 1 .. n /\ ~ (i < From(b)) /\ i < To(e)
    BY <1>2, <2>1, <2>3
  <2>5. (i < From(b) <=> ranges[i].end <= b) /\ (i < To(e) <=> ranges[i].begin < e)
    BY <1>1, <2>4, FromIs, ToIs
  <2>. QED
    BY <1>1, <1>2, <2>2, <2>4, <2>5
<1>. PICK lo, hi : lo = ranges[i].begin /\ hi = ranges[i].end
  OBVIOUS
<1>6. lo \in Nat /\ hi \in Nat /\ hi \in Bounds /\ lo < hi /\ lo < e /\ b < hi
  BY <1>2, <1>5
<1>7. /\ Clamp(lo, b, e) \in Nat /\ lo <= Clamp(lo, b, e)
      /\ Clamp(hi, b, e) <= hi
  BY <1>1, <1>6 DEF Clamp
<1>8. /\ addr \in Nat /\ addr % PageSize = 0 /\ Clamp(lo, b, e) <= addr
  BY <1>4, <1>7, AlignUpIs DEF AddressIn
<1>9. lo <= addr /\ addr + size <= hi
  <2>1. Clamp(hi, b, e) \in Nat
    BY <1>1, <1>6 DEF Clamp
  <2>. QED
    BY <1>1, <1>5, <1>6, <1>7, <1>8, <2>1
<1>10. addr \in Bounds /\ addr + size \in Bounds
  BY <1>1, <1>6, <1>8, <1>9 DEF Bounds
<1>. PICK end : end = addr + size
  OBVIOUS
<1>11. end \in Nat /\ addr < end /\ end <= hi
  BY <1>1, <1>8, <1>9
<1>12. /\ From(addr) \in 1 .. n + 1 /\ To(end) \in 1 .. n + 1
       /\ \A k \in 1 .. n : k < From(addr) <=> ranges[k].end <= addr
       /\ \A k \in 1 .. n : k < To(end) <=> ranges[k].begin < end
  BY <1>1, <1>8, <1>11, FromIs, ToIs
<1>. PICK f, t : f = From(addr) /\ t = To(end)
  OBVIOUS
<1>13. f = i
  <2>1. ~ (i < f)
    <3>1. i < f <=> hi <= addr
      BY <1>5, <1>12
    <3>. QED
      BY <1>8, <1>11, <1>6, <3>1
  <2>2. ASSUME f < i PROVE FALSE
    <3>1. f \in 1 .. n /\ ~ (f < f)
      BY <1>2, <1>5, <1>12, <2>2
    <3>2. ranges[f].end <= lo
      BY <1>3, <1>5, <2>2, <3>1
    <3>3. f < f <=> ranges[f].end <= addr
      BY <1>12, <3>1
    <3>4. ranges[f].end \in Nat
      BY <1>2, <3>1
    <3>. QED
      BY <1>6, <1>8, <1>9, <3>1, <3>2, <3>3, <3>4
  <2>. QED
    BY <1>2, <1>5, <1>12, <2>1, <2>2
<1>14. t = i + 1
  <2>1. i < t
    <3>1. i < t <=> lo < end
      BY <1>5, <1>12
    <3>. QED
      BY <1>6, <1>8, <1>9, <1>11, <3>1
  <2>2. ASSUME i + 1 < t PROVE FALSE
    <3>1. i + 1 \in 1 .. n /\ i < i + 1
      BY <1>2, <1>5, <1>12, <2>2
    <3>2. hi <= ranges[i + 1].begin
      BY <1>3, <1>5, <3>1
    <3>3. i + 1 < t <=> ranges[i + 1].begin < end
      BY <1>12, <3>1
    <3>4. ranges[i + 1].begin \in Nat
      BY <1>2, <3>1
    <3>. QED
      BY <1>6, <1>11, <2>2, <3>2, <3>3, <3>4
  <2>. QED
    BY <1>5, <1>12, <2>1, <2>2
<1>15. From(addr) = i /\ To(end) - 1 = i /\ From(addr) # To(end)
  BY <1>5, <1>13, <1>14
<1>16. OneRange(addr, end)
  BY <1>9, <1>11, <1>15 DEF OneRange
<1>17. Window(addr, end)
  <2>1. addr <= end /\ end \in Bounds
    BY <1>8, <1>10, <1>11
  <2>. QED
    BY <1>1, <1>10, <1>15, <2>1 DEF Window, Untouched
<1>. QED
  BY <1>5, <1>8, <1>10, <1>15, <1>16, <1>17

-----------------------------------------------------------------------------
(* Every step keeps the invariant.                                         *)

(* The invariant speaks of ranges through what they hold.                  *)
LEMMA InvIs ==
  ASSUME MapInv, ~ stopped
  PROVE  /\ Chain(ranges) /\ NoneEmpty(ranges) /\ Len(ranges) <= Capacity
         /\ registered \subseteq Units /\ blocks \subseteq Units \X (1 .. Limit)
         /\ short \in BOOLEAN /\ stopped \in BOOLEAN
         /\ \A u \in Units, q \in Status : Holds(ranges, u, q) => u \in registered
         /\ ~ short => \A u \in registered : \E q \in Status : Holds(ranges, u, q)
         /\ \A a \in blocks : \A u \in BlockUnits(a) : u \in Units /\ Holds(ranges, u, "RESERVED")
         /\ \A a, c \in blocks : a # c => BlockUnits(a) \cap BlockUnits(c) = {}
         /\ \A a \in blocks : a[1] % PageSize = 0
<1>1. /\ Ordered /\ Chain(ranges) /\ NoneEmpty(ranges) /\ Len(ranges) <= Capacity
      /\ ranges \in Seq(MR)
  BY OrderedIs DEF MapInv, Chain
<1>2. /\ registered \subseteq Units /\ blocks \subseteq Units \X (1 .. Limit)
      /\ short \in BOOLEAN /\ stopped \in BOOLEAN
  BY <1>1 DEF Ordered, TypeOK
<1>3. /\ \A st : UnitsOf(st) = {u \in Units : Holds(ranges, u, st)}
      /\ Cover = {u \in Units : \E q \in Status : Holds(ranges, u, q)}
  BY <1>1, UnitsAre
<1>4. /\ \A u \in Units, q \in Status : Holds(ranges, u, q) => u \in registered
      /\ ~ short => \A u \in registered : \E q \in Status : Holds(ranges, u, q)
  BY <1>3 DEF MapInv, CoverKept
<1>5. \A a \in blocks : \A u \in BlockUnits(a) : u \in Units /\ Holds(ranges, u, "RESERVED")
  BY <1>3 DEF MapInv, Backed
<1>6. /\ \A a, c \in blocks : a # c => BlockUnits(a) \cap BlockUnits(c) = {}
      /\ \A a \in blocks : a[1] % PageSize = 0
  BY DEF MapInv, AllocatedReserved
<1>. QED
  BY <1>1, <1>2, <1>4, <1>5, <1>6

(* The invariant after a step, from what the step says of ranges and       *)
(* history.                                                                *)
LEMMA InvNext ==
  ASSUME Chain(ranges'), NoneEmpty(ranges') \/ stopped', Len(ranges') <= Capacity,
         stopped' \in BOOLEAN, short' \in BOOLEAN, registered' \subseteq Units,
         blocks' \subseteq Units \X (1 .. Limit),
         \A u \in Units, q \in Status : Holds(ranges', u, q) => u \in registered',
         ~ short' => \A u \in registered' : \E q \in Status : Holds(ranges', u, q),
         \A a \in blocks' : \A u \in BlockUnits(a) : ~ Holds(ranges', u, "FREE"),
         ~ stopped' => \A a \in blocks' : \A u \in BlockUnits(a) :
                         u \in Units /\ Holds(ranges', u, "RESERVED"),
         \A a, c \in blocks' : a # c => BlockUnits(a) \cap BlockUnits(c) = {},
         \A a \in blocks' : a[1] % PageSize = 0
  PROVE  MapInv'
<1>1. Ordered'
  BY OrderedNext
<1>2. /\ \A st : UnitsOf(st)' = {u \in Units : Holds(ranges', u, st)}
      /\ Cover' = {u \in Units : \E q \in Status : Holds(ranges', u, q)}
  BY UnitsAre DEF Chain
<1>3. CoverKept'
  BY <1>2 DEF CoverKept
<1>4. AllocatedReserved'
  <2>1. FreeUnits' = {u \in Units : Holds(ranges', u, "FREE")}
    BY <1>2 DEF FreeUnits
  <2>2. \A a \in blocks' : BlockUnits(a) \cap FreeUnits' = {}
    BY <2>1
  <2>. QED
    BY <2>2 DEF AllocatedReserved
<1>5. Backed'
  BY <1>2 DEF Backed
<1>. QED
  BY <1>1, <1>3, <1>4, <1>5 DEF MapInv

(* A block is RESERVED, so no FREE range holds any of it.                  *)
LEMMA BlocksNotFree ==
  ASSUME MapInv, ~ stopped, NEW a \in blocks, NEW u \in BlockUnits(a)
  PROVE  u \in Units /\ ~ Holds(ranges, u, "FREE")
BY InvIs, OneStatus

(* Register keeps the invariant whether it returns true or false.          *)
LEMMA RegisterInv ==
  ASSUME MapInv, NEW b \in Bounds, NEW e \in Bounds, b < e,
         Register(b, e, "FREE") \/ RegisterFails(b, e, "FREE")
  PROVE  MapInv'
<1>1. ~ stopped
  BY DEF Register, RegisterFails
<1>2. /\ Chain(ranges) /\ NoneEmpty(ranges) /\ Len(ranges) <= Capacity
      /\ registered \subseteq Units /\ blocks \subseteq Units \X (1 .. Limit)
      /\ short \in BOOLEAN /\ stopped \in BOOLEAN
      /\ \A u \in Units, q \in Status : Holds(ranges, u, q) => u \in registered
      /\ ~ short => \A u \in registered : \E q \in Status : Holds(ranges, u, q)
      /\ \A a \in blocks : \A u \in BlockUnits(a) : u \in Units /\ Holds(ranges, u, "RESERVED")
      /\ \A a, c \in blocks : a # c => BlockUnits(a) \cap BlockUnits(c) = {}
      /\ \A a \in blocks : a[1] % PageSize = 0
  BY <1>1, InvIs
<1>3. \A a \in blocks : \A u \in BlockUnits(a) : ~ Holds(ranges, u, "FREE")
  BY <1>1, BlocksNotFree
<1>4. CASE Register(b, e, "FREE")
  <2>1. "FREE" \in Status
    BY DEF Status
  <2>2. /\ Chain(ranges') /\ NoneEmpty(ranges') /\ Len(ranges') <= Capacity
        /\ Added(ranges, ranges', b, e, "FREE")
    BY <1>2, <1>4, <2>1, RegisterKeeps DEF Ready
  <2>3. /\ registered' = registered \cup Span(b, e)
        /\ stopped' = stopped /\ short' = short /\ blocks' = blocks
    BY <1>4 DEF Register
  <2>4. \A u : u \in Span(b, e) <=> u \in Units /\ b <= u /\ u < e
    BY MapAssumption DEF Span, Units, Bounds
  <2>5. registered' \subseteq Units
    BY <1>2, <2>3, <2>4
  <2>6. \A u \in Units, q \in Status : Holds(ranges', u, q) => u \in registered'
    BY <1>2, <2>2, <2>3, <2>4 DEF Added
  <2>7. ~ short' => \A u \in registered' : \E q \in Status : Holds(ranges', u, q)
    BY <1>2, <2>1, <2>2, <2>3, <2>4 DEF Added
  <2>8. \A a \in blocks' : \A u \in BlockUnits(a) : u \in Units /\ Holds(ranges', u, "RESERVED")
    BY <1>2, <2>2, <2>3 DEF Added, Status
  <2>9. \A a \in blocks' : \A u \in BlockUnits(a) : ~ Holds(ranges', u, "FREE")
    BY <2>2, <2>8, OneStatus
  <2>. QED
    BY <1>2, <2>2, <2>3, <2>5, <2>6, <2>7, <2>8, <2>9, InvNext
<1>5. CASE RegisterFails(b, e, "FREE")
  <2>1. /\ stopped' = TRUE /\ ranges' = ranges /\ short' = short
        /\ registered' = registered /\ blocks' = blocks
    BY <1>5 DEF RegisterFails
  <2>. QED
    BY <1>2, <1>3, <2>1, InvNext
<1>. QED
  BY <1>4, <1>5

(* Reserve and Release that were carried out: some units of [b, e) have    *)
(* the status st now, and no block that is left reaches into a window that *)
(* is freed.                                                               *)
LEMMA EffectInv ==
  ASSUME MapInv, ~ stopped, NEW b \in Bounds, NEW e \in Bounds, b <= e, NEW st \in Status,
         SetStatus(b, e, st) \/ SetStatusHangs(b, e, st),
         SetStatus(b, e, st) => stopped' = stopped /\ short' = short,
         registered' = registered, blocks' \subseteq blocks,
         st = "FREE" => \A a \in blocks' : BlockUnits(a) \cap Span(b, e) = {}
  PROVE  MapInv'
<1>2. /\ Chain(ranges) /\ NoneEmpty(ranges) /\ Len(ranges) <= Capacity
      /\ registered \subseteq Units /\ blocks \subseteq Units \X (1 .. Limit)
      /\ short \in BOOLEAN /\ stopped \in BOOLEAN
      /\ \A u \in Units, q \in Status : Holds(ranges, u, q) => u \in registered
      /\ ~ short => \A u \in registered : \E q \in Status : Holds(ranges, u, q)
      /\ \A a \in blocks : \A u \in BlockUnits(a) : u \in Units /\ Holds(ranges, u, "RESERVED")
      /\ \A a, c \in blocks : a # c => BlockUnits(a) \cap BlockUnits(c) = {}
      /\ \A a \in blocks : a[1] % PageSize = 0
  BY InvIs
<1>3. /\ Chain(ranges') /\ Len(ranges') <= Capacity
      /\ SetStatus(b, e, st) => NoneEmpty(ranges')
      /\ Effect(ranges, ranges', b, e, st)
  BY StatusEffect DEF MapInv, SetStatusHangs
<1>4. /\ short' = short /\ stopped' \in BOOLEAN
      /\ stopped' = TRUE \/ NoneEmpty(ranges')
  BY <1>2, <1>3 DEF SetStatusHangs
<1>5. \A u \in Units, q \in Status : Holds(ranges', u, q) => u \in registered'
  BY <1>2, <1>3 DEF Effect
<1>6. ~ short' => \A u \in registered' : \E q \in Status : Holds(ranges', u, q)
  BY <1>2, <1>3, <1>4 DEF Effect
<1>7. ASSUME NEW a \in blocks', NEW u \in BlockUnits(a)
      PROVE  u \in Units /\ Holds(ranges', u, "RESERVED")
  <2>1. u \in Units /\ Holds(ranges, u, "RESERVED") /\ u \in Int
    BY <1>2, <1>7 DEF Units
  <2>2. CASE st = "FREE"
    <3>1. ~ (b <= u /\ u < e)
      BY <1>7, <2>1, <2>2, MapAssumption DEF Span, Bounds
    <3>. QED
      BY <1>3, <2>1, <3>1 DEF Effect, Status
  <2>3. CASE st = "RESERVED"
    BY <1>3, <2>1, <2>3 DEF Effect
  <2>. QED
    BY <2>1, <2>2, <2>3 DEF Status
<1>8. \A a \in blocks' : \A u \in BlockUnits(a) : ~ Holds(ranges', u, "FREE")
  BY <1>3, <1>7, OneStatus
<1>9. /\ blocks' \subseteq Units \X (1 .. Limit)
      /\ \A a, c \in blocks' : a # c => BlockUnits(a) \cap BlockUnits(c) = {}
      /\ \A a \in blocks' : a[1] % PageSize = 0
      /\ registered' \subseteq Units /\ short' \in BOOLEAN
  BY <1>2, <1>4
<1>. QED
  BY <1>3, <1>4, <1>5, <1>6, <1>7, <1>8, <1>9, InvNext

(* Reserve and Release that ran out of room: the boot stops.               *)
LEMMA FailureInv ==
  ASSUME MapInv, ~ stopped, NEW b \in Bounds, NEW e \in Bounds, b <= e,
         SetStatusFails(b, e), stopped' = TRUE,
         registered' = registered, blocks' \subseteq blocks
  PROVE  MapInv'
<1>1. /\ Chain(ranges) /\ NoneEmpty(ranges) /\ Len(ranges) <= Capacity
      /\ registered \subseteq Units /\ blocks \subseteq Units \X (1 .. Limit)
      /\ short \in BOOLEAN /\ stopped \in BOOLEAN
      /\ \A u \in Units, q \in Status : Holds(ranges, u, q) => u \in registered
      /\ \A a, c \in blocks : a # c => BlockUnits(a) \cap BlockUnits(c) = {}
      /\ \A a \in blocks : a[1] % PageSize = 0
  BY InvIs
<1>2. Window(b, e) /\ (LosesHead(b, e) \/ LosesTail(b, e)) /\ short' = TRUE
  BY WindowOf DEF MapInv, SetStatusFails
<1>3. /\ Chain(ranges') /\ Len(ranges') <= Capacity
      /\ \A u \in Units, q \in Status : Holds(ranges', u, q) => Holds(ranges, u, q)
  BY <1>2, SetStatusFailsKeeps
<1>4. \A u \in Units, q \in Status : Holds(ranges', u, q) => u \in registered'
  BY <1>1, <1>3
<1>5. \A a \in blocks' : \A u \in BlockUnits(a) : ~ Holds(ranges', u, "FREE")
  BY <1>3, BlocksNotFree DEF Status
<1>6. /\ blocks' \subseteq Units \X (1 .. Limit) /\ registered' \subseteq Units
      /\ \A a, c \in blocks' : a # c => BlockUnits(a) \cap BlockUnits(c) = {}
      /\ \A a \in blocks' : a[1] % PageSize = 0
  BY <1>1
<1>. QED
  BY <1>2, <1>3, <1>4, <1>5, <1>6, InvNext

(* Reserve keeps the invariant with each of its outcomes.                  *)
LEMMA ReserveInv ==
  ASSUME MapInv, NEW b \in Bounds, NEW e \in Bounds, b <= e,
         Reserve(b, e) \/ ReserveFails(b, e)
  PROVE  MapInv'
<1>1. ~ stopped /\ registered' = registered /\ blocks' \subseteq blocks
  BY DEF Reserve, ReserveFails
<1>2. "RESERVED" \in Status /\ "RESERVED" # "FREE"
  BY DEF Status
<1>3. CASE SetStatus(b, e, "RESERVED")
  <2>1. stopped' = stopped /\ short' = short
    BY <1>3 DEF SetStatus
  <2>. QED
    BY <1>1, <1>2, <1>3, <2>1, EffectInv
<1>4. CASE ~ SetStatus(b, e, "RESERVED") /\ SetStatusHangs(b, e, "RESERVED")
  BY <1>1, <1>2, <1>4, EffectInv
<1>5. CASE SetStatusFails(b, e) /\ stopped' = TRUE
  BY <1>1, <1>5, FailureInv
<1>. QED
  BY <1>3, <1>4, <1>5 DEF Reserve, ReserveFails

(* Release keeps the invariant with each of its outcomes.                  *)
LEMMA ReleaseInv ==
  ASSUME MapInv, NEW b \in Bounds, NEW e \in Bounds, b <= e,
         Release(b, e) \/ ReleaseFails(b, e)
  PROVE  MapInv'
<1>1. /\ ~ stopped /\ registered' = registered /\ blocks' \subseteq blocks
      /\ \A a \in blocks' : BlockUnits(a) \cap Span(b, e) = {}
  BY DEF Release, ReleaseFails, GiveUp, BlockUnits
<1>2. "FREE" \in Status
  BY DEF Status
<1>3. CASE SetStatus(b, e, "FREE")
  <2>1. stopped' = stopped /\ short' = short
    BY <1>3 DEF SetStatus
  <2>. QED
    BY <1>1, <1>2, <1>3, <2>1, EffectInv
<1>4. CASE ~ SetStatus(b, e, "FREE") /\ SetStatusHangs(b, e, "FREE")
  BY <1>1, <1>2, <1>4, EffectInv
<1>5. CASE SetStatusFails(b, e) /\ stopped' = TRUE
  BY <1>1, <1>5, FailureInv
<1>. QED
  BY <1>3, <1>4, <1>5 DEF Release, ReleaseFails

(* AllocateIn takes the whole of its window from one FREE range.           *)
LEMMA AllocateInInv ==
  ASSUME MapInv, NEW b \in Bounds, NEW e \in Bounds, b < e, NEW size \in 1 .. Limit,
         AllocateIn(b, e, size)
  PROVE  MapInv'
<1>. PICK addr : addr = FindIn(b, e, size)
  OBVIOUS
<1>. PICK end : end = addr + size
  OBVIOUS
<1>1. /\ ~ stopped /\ Rooms(b, e, size) # {} /\ SetStatus(addr, end, "RESERVED")
      /\ blocks' = blocks \cup {<<addr, size>>} /\ registered' = registered
      /\ stopped' = stopped /\ short' = short
  BY DEF AllocateIn, SetStatus
<1>2. /\ addr \in Nat /\ addr % PageSize = 0 /\ addr \in Bounds /\ end \in Bounds
      /\ Window(addr, end) /\ OneRange(addr, end)
      /\ ranges[From(addr)].status = "FREE"
  BY <1>1, FindInIs DEF MapInv
<1>3. size \in Nat \ {0} /\ end \in Nat /\ addr < end /\ addr <= end /\ Limit \in Nat /\ end <= Limit
  BY <1>2, MapAssumption DEF Bounds
<1>4. /\ Chain(ranges) /\ NoneEmpty(ranges) /\ Len(ranges) <= Capacity
      /\ registered \subseteq Units /\ blocks \subseteq Units \X (1 .. Limit)
      /\ short \in BOOLEAN /\ stopped \in BOOLEAN
      /\ \A u \in Units, q \in Status : Holds(ranges, u, q) => u \in registered
      /\ ~ short => \A u \in registered : \E q \in Status : Holds(ranges, u, q)
      /\ \A a \in blocks : \A u \in BlockUnits(a) : u \in Units /\ Holds(ranges, u, "RESERVED")
      /\ \A a, c \in blocks : a # c => BlockUnits(a) \cap BlockUnits(c) = {}
      /\ \A a \in blocks : a[1] % PageSize = 0
  BY <1>1, InvIs
<1>5. /\ Chain(ranges') /\ Len(ranges') <= Capacity /\ NoneEmpty(ranges')
      /\ Effect(ranges, ranges', addr, end, "RESERVED")
      /\ \A u \in Units : addr <= u /\ u < end => Holds(ranges', u, "RESERVED")
  <2>1. ~ Untouched(addr, end)
    BY <1>2 DEF Window
  <2>2. "RESERVED" \in Status /\ Ordered
    BY DEF Status, MapInv
  <2>. QED
    BY <1>1, <1>2, <1>3, <2>1, <2>2, StatusEffect
<1>6. \A u : u \in Span(addr, end) <=> u \in Units /\ addr <= u /\ u < end
  BY <1>2, <1>3 DEF Span, Units
<1>. PICK f : f = From(addr)
  OBVIOUS
<1>7. \A u \in Span(addr, end) : Holds(ranges, u, "FREE")
  <2>1. f \in 1 .. Len(ranges) /\ DOMAIN ranges = 1 .. Len(ranges)
        /\ ranges[f].begin \in Nat /\ ranges[f].end \in Nat
    BY <1>2, <1>4, WindowFacts DEF Chain
  <2>2. ranges[f].begin <= addr /\ end <= ranges[f].end /\ ranges[f].status = "FREE"
    BY <1>2 DEF OneRange
  <2>3. ASSUME NEW u \in Span(addr, end) PROVE In(ranges[f], u, "FREE")
    <3>1. u \in Int /\ addr <= u /\ u < end
      BY <1>6 DEF Units
    <3>. QED
      BY <1>2, <1>3, <2>1, <2>2, <3>1 DEF In
  <2>. QED
    BY <2>1, <2>3 DEF Holds
<1>. PICK new : new = <<addr, size>>
  OBVIOUS
<1>8. new[1] = addr /\ new[2] = size /\ BlockUnits(new) = Span(addr, end)
  BY DEF BlockUnits
<1>9. new \in Units \X (1 .. Limit)
  BY <1>2, <1>3 DEF Units
<1>10. \A a \in blocks : BlockUnits(a) \cap BlockUnits(new) = {}
  BY <1>1, <1>7, <1>8, BlocksNotFree
<1>11. \A a, c \in blocks' : a # c => BlockUnits(a) \cap BlockUnits(c) = {}
  <2>1. SUFFICES ASSUME NEW a \in blocks', NEW c \in blocks', a # c
                 PROVE  BlockUnits(a) \cap BlockUnits(c) = {}
    OBVIOUS
  <2>2. (a \in blocks \/ a = new) /\ (c \in blocks \/ c = new)
    BY <1>1
  <2>3. CASE a \in blocks /\ c \in blocks
    BY <1>4, <2>1, <2>3
  <2>4. CASE a \in blocks /\ c = new
    BY <1>10, <2>4
  <2>5. CASE a = new /\ c \in blocks
    BY <1>10, <2>5
  <2>. QED
    BY <2>1, <2>2, <2>3, <2>4, <2>5
<1>12. \A a \in blocks' : \A u \in BlockUnits(a) : u \in Units /\ Holds(ranges', u, "RESERVED")
  <2>1. ASSUME NEW a \in blocks, NEW u \in BlockUnits(a)
        PROVE  u \in Units /\ Holds(ranges', u, "RESERVED")
    BY <1>4, <1>5 DEF Effect, Status
  <2>2. ASSUME NEW u \in BlockUnits(new) PROVE u \in Units /\ Holds(ranges', u, "RESERVED")
    BY <1>5, <1>6, <1>8
  <2>. QED
    BY <1>1, <2>1, <2>2
<1>13. \A a \in blocks' : \A u \in BlockUnits(a) : ~ Holds(ranges', u, "FREE")
  BY <1>5, <1>12, OneStatus
<1>14. \A u \in Units, q \in Status : Holds(ranges', u, q) => u \in registered'
  BY <1>1, <1>4, <1>5 DEF Effect
<1>15. ~ short' => \A u \in registered' : \E q \in Status : Holds(ranges', u, q)
  BY <1>1, <1>4, <1>5 DEF Effect, Status
<1>16. /\ blocks' \subseteq Units \X (1 .. Limit)
       /\ \A a \in blocks' : a[1] % PageSize = 0
       /\ registered' \subseteq Units /\ short' \in BOOLEAN /\ stopped' \in BOOLEAN
  BY <1>1, <1>2, <1>4, <1>8, <1>9
<1>. QED
  BY <1>5, <1>11, <1>12, <1>13, <1>14, <1>15, <1>16, InvNext

(* A step that changes nothing keeps the invariant.                        *)
LEMMA StutterInv ==
  ASSUME MapInv, ranges' = ranges, stopped' = stopped, short' = short,
         registered' = registered, blocks' = blocks
  PROVE  MapInv'
<1>1. Ordered'
  <2>1. TypeOK'
    BY Zenon DEF MapInv, Ordered, TypeOK
  <2>2. /\ \A i \in DOMAIN ranges' : ranges'[i].begin < ranges'[i].end \/ stopped'
        /\ \A i, j \in DOMAIN ranges' : i < j => ranges'[i].end <= ranges'[j].begin
    BY Zenon DEF MapInv, Ordered
  <2>. QED
    BY <2>1, <2>2 DEF Ordered
<1>2. CoverKept'
  <2>1. Cover' = Cover
    BY DEF Cover
  <2>. QED
    BY <2>1, Zenon DEF MapInv, CoverKept
<1>3. \A st : UnitsOf(st)' = UnitsOf(st)
  BY DEF UnitsOf
<1>4. AllocatedReserved'
  <2>1. FreeUnits' = FreeUnits
    BY <1>3 DEF FreeUnits
  <2>. QED
    BY <2>1, Zenon DEF MapInv, AllocatedReserved
<1>5. Backed'
  <2>1. UnitsOf("RESERVED")' = UnitsOf("RESERVED")
    BY <1>3
  <2>. QED
    BY <2>1, Zenon DEF MapInv, Backed
<1>. QED
  BY <1>1, <1>2, <1>4, <1>5 DEF MapInv

(* One that fails loses at most FREE memory, and the boot may go on.       *)
LEMMA AllocateInFailsInv ==
  ASSUME MapInv, NEW b \in Bounds, NEW e \in Bounds, b < e, NEW size \in 1 .. Limit,
         AllocateInFails(b, e, size)
  PROVE  MapInv'
<1>. PICK addr : addr = FindIn(b, e, size)
  OBVIOUS
<1>. PICK end : end = addr + size
  OBVIOUS
<1>1. ~ stopped /\ registered' = registered /\ blocks' = blocks
  BY DEF AllocateInFails
<1>2. CASE ranges' = ranges /\ stopped' = stopped /\ short' = short
  BY <1>1, <1>2, StutterInv
<1>3. ASSUME Rooms(b, e, size) # {}
      PROVE  /\ addr \in Bounds /\ end \in Bounds /\ addr < end /\ addr <= end
             /\ Window(addr, end) /\ OneRange(addr, end)
             /\ ranges[From(addr)].status = "FREE"
  <2>1. /\ addr \in Nat /\ addr \in Bounds /\ end \in Bounds
        /\ Window(addr, end) /\ OneRange(addr, end)
        /\ ranges[From(addr)].status = "FREE"
    BY <1>1, <1>3, FindInIs DEF MapInv
  <2>2. addr < end /\ addr <= end
    BY <2>1, MapAssumption
  <2>. QED
    BY <2>1, <2>2
<1>4. CASE Rooms(b, e, size) # {} /\ SetStatusHangs(addr, end, "RESERVED")
  <2>1. "RESERVED" \in Status /\ "RESERVED" # "FREE" /\ blocks' \subseteq blocks
    BY <1>1 DEF Status
  <2>2. addr \in Bounds /\ end \in Bounds /\ addr <= end
    BY <1>3, <1>4
  <2>3. CASE SetStatus(addr, end, "RESERVED")
    <3>1. stopped' = stopped /\ short' = short
      BY <2>3 DEF SetStatus
    <3>. QED
      BY <1>1, <2>1, <2>2, <2>3, <3>1, EffectInv
  <2>4. CASE ~ SetStatus(addr, end, "RESERVED")
    BY <1>1, <1>4, <2>1, <2>2, <2>4, EffectInv
  <2>. QED
    BY <2>3, <2>4
<1>5. CASE Rooms(b, e, size) # {} /\ SetStatusFails(addr, end) /\ stopped' = stopped
  <2>1. /\ Chain(ranges) /\ NoneEmpty(ranges) /\ Len(ranges) <= Capacity
        /\ registered \subseteq Units /\ blocks \subseteq Units \X (1 .. Limit)
        /\ short \in BOOLEAN /\ stopped \in BOOLEAN
        /\ \A u \in Units, q \in Status : Holds(ranges, u, q) => u \in registered
        /\ \A a \in blocks : \A u \in BlockUnits(a) : u \in Units /\ Holds(ranges, u, "RESERVED")
        /\ \A a, c \in blocks : a # c => BlockUnits(a) \cap BlockUnits(c) = {}
        /\ \A a \in blocks : a[1] % PageSize = 0
    BY <1>1, InvIs
  <2>2. /\ Window(addr, end) /\ OneRange(addr, end) /\ addr < end
        /\ ranges[From(addr)].status = "FREE"
        /\ (LosesHead(addr, end) \/ LosesTail(addr, end)) /\ short' = TRUE
    BY <1>3, <1>5 DEF SetStatusFails
  <2>3. /\ Chain(ranges') /\ Len(ranges') <= Capacity /\ NoneEmpty(ranges')
        /\ \A u \in Units, q \in Status :
             /\ Holds(ranges', u, q) => Holds(ranges, u, q)
             /\ Holds(ranges, u, q) /\ q # "FREE" => Holds(ranges', u, q)
    BY <2>2, SetStatusFailsKeeps
  <2>4. \A a \in blocks' : \A u \in BlockUnits(a) : u \in Units /\ Holds(ranges', u, "RESERVED")
    BY <1>1, <2>1, <2>3 DEF Status
  <2>5. \A a \in blocks' : \A u \in BlockUnits(a) : ~ Holds(ranges', u, "FREE")
    BY <2>3, <2>4, OneStatus
  <2>6. \A u \in Units, q \in Status : Holds(ranges', u, q) => u \in registered'
    BY <1>1, <2>1, <2>3
  <2>7. /\ blocks' \subseteq Units \X (1 .. Limit) /\ registered' \subseteq Units
        /\ \A a, c \in blocks' : a # c => BlockUnits(a) \cap BlockUnits(c) = {}
        /\ \A a \in blocks' : a[1] % PageSize = 0
        /\ stopped' \in BOOLEAN
    BY <1>1, <1>5, <2>1
  <2>. QED
    BY <2>2, <2>3, <2>4, <2>5, <2>6, <2>7, InvNext
<1>. QED
  BY <1>2, <1>4, <1>5 DEF AllocateInFails

-----------------------------------------------------------------------------
(* In every memory, with a vector of any capacity, the map is sorted and   *)
(* its ranges are apart, it covers what was registered while it has room,  *)
(* and what it handed out is backed by RESERVED ranges, whatever calls of  *)
(* Register, Reserve, Release and AllocateIn were made and failed.         *)
THEOREM MapInvariant == Spec => []MapInv
<1>1. Init => MapInv
  <2>1. SUFFICES ASSUME Init PROVE MapInv
    OBVIOUS
  <2>2. ranges = <<>> /\ registered = {} /\ blocks = {}
    BY <2>1 DEF Init
  <2>3. stopped \in BOOLEAN /\ short \in BOOLEAN
    BY <2>1, Zenon DEF Init
  <2>4. Len(ranges) = 0 /\ DOMAIN ranges = {} /\ ranges \in Seq(MR)
    BY <2>2
  <2>5. Ordered
    <3>1. /\ ranges \in Seq([begin : Bounds, end : Bounds, status : Status])
          /\ Len(ranges) <= Capacity
          /\ registered \subseteq Units /\ blocks \subseteq Units \X (1 .. Limit)
      BY <2>2, <2>4, MapAssumption DEF MR
    <3>. QED
      BY <2>3, <2>4, <3>1 DEF Ordered, TypeOK
  <2>6. CoverKept
    BY <2>2, <2>4 DEF CoverKept, Cover
  <2>7. AllocatedReserved /\ Backed
    BY <2>2 DEF AllocatedReserved, Backed
  <2>. QED
    BY <2>5, <2>6, <2>7 DEF MapInv
<1>2. MapInv /\ [Next]_vars => MapInv'
  <2>1. SUFFICES ASSUME MapInv, [Next]_vars PROVE MapInv'
    OBVIOUS
  <2>2. CASE UNCHANGED vars
    BY <2>1, <2>2, StutterInv DEF vars
  <2>3. ASSUME NEW b \in Bounds, NEW e \in Bounds, b < e,
               Register(b, e, "FREE") \/ RegisterFails(b, e, "FREE")
        PROVE  MapInv'
    BY <2>1, <2>3, RegisterInv
  <2>4. ASSUME NEW b \in Bounds, NEW e \in Bounds, b <= e,
               \/ Reserve(b, e) \/ ReserveFails(b, e)
               \/ Release(b, e) \/ ReleaseFails(b, e)
        PROVE  MapInv'
    BY <2>1, <2>4, ReserveInv, ReleaseInv
  <2>5. ASSUME NEW b \in Bounds, NEW e \in Bounds, b < e, NEW size \in 1 .. Limit,
               AllocateIn(b, e, size) \/ AllocateInFails(b, e, size)
        PROVE  MapInv'
    BY <2>1, <2>5, AllocateInInv, AllocateInFailsInv
  <2>6. CASE Stopped
    BY <2>2, <2>6 DEF Stopped
  <2>. QED
    BY <2>1, <2>2, <2>3, <2>4, <2>5, <2>6 DEF Next
<1>. QED
  BY <1>1, <1>2, PTL DEF Spec

(* The binary searches of phys.cc may be trusted: the ranges are sorted,   *)
(* apart and fit the vector, and none is empty.                            *)
THEOREM RangesAreOrdered == Spec => []Ordered
<1>1. MapInv => Ordered
  BY DEF MapInv
<1>. QED
  BY <1>1, MapInvariant, PTL

(* No memory appears in the map that was not registered, and none is       *)
(* forgotten as long as no call ran out of room.                           *)
THEOREM MemoryIsKept == Spec => []CoverKept
<1>1. MapInv => CoverKept
  BY DEF MapInv
<1>. QED
  BY <1>1, MapInvariant, PTL

(* What AllocateIn gave away is aligned, belongs to nobody else and is in  *)
(* no FREE range, although SetStatus stores one status only.               *)
THEOREM AllocationsAreReserved == Spec => []AllocatedReserved
<1>1. MapInv => AllocatedReserved
  BY DEF MapInv
<1>. QED
  BY <1>1, MapInvariant, PTL

-----------------------------------------------------------------------------
(* When neighbours are joined, a run of FREE memory lies in one range.     *)
LEMMA RunInOneRange ==
  ASSUME Ordered, ~ stopped, Canonical, NEW a \in Nat, NEW size \in Nat \ {0},
         \A u \in a .. a + size - 1 : u \in Units /\ Holds(ranges, u, "FREE")
  PROVE  \E i \in 1 .. Len(ranges) : /\ ranges[i].status = "FREE"
                                     /\ ranges[i].begin <= a /\ a + size <= ranges[i].end
<1>. PICK n : n = Len(ranges)
  OBVIOUS
<1>1. Chain(ranges) /\ NoneEmpty(ranges)
  BY OrderedIs
<1>2. /\ n \in Nat /\ DOMAIN ranges = 1 .. n
      /\ \A i \in 1 .. n : /\ ranges[i] \in MR /\ ranges[i].begin \in Nat /\ ranges[i].end \in Nat
                           /\ ranges[i].begin < ranges[i].end
  BY <1>1, SeqFacts DEF Chain, NoneEmpty
<1>3. \A i, j \in 1 .. n : i < j => ranges[i].end <= ranges[j].begin
  BY <1>1, <1>2 DEF Chain
<1>4. a \in a .. a + size - 1
  OBVIOUS
<1>5. PICK i \in 1 .. n : In(ranges[i], a, "FREE")
  BY <1>2, <1>4 DEF Holds
<1>. PICK hi : hi = ranges[i].end
  OBVIOUS
<1>6. ranges[i].status = "FREE" /\ ranges[i].begin <= a /\ a < hi /\ hi \in Nat
  BY <1>2, <1>5 DEF In
<1>7. ASSUME hi < a + size PROVE FALSE
  <2>1. hi \in a .. a + size - 1
    BY <1>6, <1>7
  <2>2. PICK j \in 1 .. n : In(ranges[j], hi, "FREE")
    BY <1>2, <2>1 DEF Holds
  <2>3. /\ ranges[j].status = "FREE" /\ ranges[j].begin <= hi /\ hi < ranges[j].end
        /\ ranges[j].begin \in Nat /\ ranges[j].end \in Nat
    BY <1>2, <2>2 DEF In
  <2>4. j # i
    BY <1>6, <2>3
  <2>5. ~ (j < i)
    <3>1. SUFFICES ASSUME j < i PROVE FALSE
      OBVIOUS
    <3>2. ranges[j].end <= ranges[i].begin /\ ranges[i].begin \in Nat
      BY <1>2, <1>3, <3>1
    <3>. QED
      BY <1>6, <2>3, <3>2
  <2>6. i < j /\ i + 1 \in 1 .. n /\ i < i + 1
    BY <1>2, <2>4, <2>5
  <2>. PICK k : k = i + 1
    OBVIOUS
  <2>7. /\ hi <= ranges[k].begin /\ ranges[k].begin < ranges[k].end
        /\ ranges[k].begin \in Nat /\ ranges[k].end \in Nat /\ k \in 1 .. n
    BY <1>2, <1>3, <2>6
  <2>8. k = j
    <3>1. SUFFICES ASSUME k < j PROVE FALSE
      BY <2>6
    <3>2. ranges[k].end <= ranges[j].begin
      BY <1>3, <2>7, <3>1
    <3>. QED
      BY <1>6, <2>3, <2>7, <3>2
  <2>9. CanMerge(ranges[i], ranges[i + 1])
    <3>1. ranges[k].begin = hi
      BY <1>6, <2>3, <2>7, <2>8
    <3>. QED
      BY <1>6, <2>3, <2>8, <3>1 DEF CanMerge
  <2>10. i \in 1 .. Len(ranges) - 1
    BY <1>2, <2>6
  <2>. QED
    BY <2>9, <2>10 DEF Canonical
<1>8. a + size <= hi
  BY <1>6, <1>7
<1>. QED
  BY <1>6, <1>8

(* AllocateIn fails for lack of room only when there is none: in a map     *)
(* whose neighbours are joined, FindIn sees every aligned run of free      *)
(* memory in its window.                                                   *)
THEOREM AllocationIsComplete == Spec => []AllocationComplete
<1>1. Ordered => AllocationComplete
  <2>1. SUFFICES ASSUME Ordered, ~ stopped, Canonical,
                        NEW a \in {u \in FreeUnits : u % PageSize = 0}, NEW size \in 1 .. Limit,
                        Span(a, a + size) \subseteq FreeUnits,
                        NEW b \in 0 .. a, NEW e \in a + size .. Limit
                 PROVE  Rooms(b, e, size) # {}
    BY DEF AllocationComplete
  <2>2. /\ Chain(ranges) /\ NoneEmpty(ranges)
        /\ FreeUnits = {u \in Units : Holds(ranges, u, "FREE")}
    BY <2>1, OrderedIs, UnitsAre DEF FreeUnits, Chain
  <2>3. /\ Limit \in Nat /\ a \in Nat /\ a % PageSize = 0 /\ size \in Nat \ {0}
        /\ b \in Nat /\ e \in Nat /\ b <= a /\ a + size <= e /\ b < e
    BY <2>2, MapAssumption DEF Units
  <2>4. \A u \in a .. a + size - 1 : u \in Units /\ Holds(ranges, u, "FREE")
    <3>1. a .. a + size - 1 = Span(a, a + size)
      BY <2>3 DEF Span
    <3>2. ASSUME NEW u \in a .. a + size - 1 PROVE u \in FreeUnits
      BY <2>1, <3>1, <3>2, Zenon
    <3>. QED
      BY <2>2, <3>2
  <2>5. PICK i \in 1 .. Len(ranges) : /\ ranges[i].status = "FREE"
                                      /\ ranges[i].begin <= a /\ a + size <= ranges[i].end
    BY <2>1, <2>3, <2>4, RunInOneRange
  <2>. PICK lo, hi : lo = ranges[i].begin /\ hi = ranges[i].end
    OBVIOUS
  <2>6. lo \in Nat /\ hi \in Nat /\ lo <= a /\ a + size <= hi
    BY <2>2, <2>5, SeqFacts DEF Chain
  <2>7. i \in From(b) .. To(e) - 1
    <3>1. i < From(b) <=> hi <= b
      BY <2>2, <2>3, FromIs
    <3>2. i < To(e) <=> lo < e
      BY <2>2, <2>3, ToIs
    <3>3. From(b) \in Nat /\ To(e) \in Nat /\ i \in Nat
      <4>1. From(b) \in 1 .. Len(ranges) + 1 /\ To(e) \in 1 .. Len(ranges) + 1
        BY <2>2, <2>3, FromIs, ToIs
      <4>2. Len(ranges) \in Nat
        BY <2>2 DEF Chain
      <4>. QED
        BY <4>1, <4>2
    <3>4. ~ (hi <= b) /\ lo < e
      BY <2>3, <2>6
    <3>. QED
      BY <3>1, <3>2, <3>3, <3>4
  <2>8. Clamp(lo, b, e) \in Nat /\ Clamp(lo, b, e) <= a
    BY <2>3, <2>6 DEF Clamp
  <2>9. AlignUp(Clamp(lo, b, e)) <= a /\ AlignUp(Clamp(lo, b, e)) \in Nat
    BY <2>3, <2>8, AlignUpIs
  <2>10. Clamp(hi, b, e) \in Nat /\ a + size <= Clamp(hi, b, e)
    BY <2>3, <2>6 DEF Clamp
  <2>11. AddressIn(ranges[i], b, e) + size <= Clamp(ranges[i].end, b, e)
    <3>1. AddressIn(ranges[i], b, e) = AlignUp(Clamp(lo, b, e))
      BY DEF AddressIn
    <3>. QED
      BY <2>3, <2>9, <2>10, <3>1
  <2>. QED
    BY <2>5, <2>7, <2>11 DEF Rooms
<1>. QED
  BY <1>1, RangesAreOrdered, PTL

-----------------------------------------------------------------------------
(* What a call may not do.                                                 *)

(* Calls that return true or never return: nothing outside the window      *)
(* changes, and what one range has of it takes the status.                 *)
LEMMA StatusTurns ==
  ASSUME Ordered, ~ stopped, NEW b \in Bounds, NEW e \in Bounds, b <= e, NEW st \in Status,
         SetStatus(b, e, st) \/ SetStatusHangs(b, e, st)
  PROVE  Turns(b, e, st)
<1>1. /\ Chain(ranges) /\ Chain(ranges')
      /\ Effect(ranges, ranges', b, e, st)
      /\ OneOverlaps(b, e) => Fills(ranges, ranges', b, e, st)
  BY OrderedIs, StatusEffect DEF SetStatusHangs
<1>2. /\ \A q : UnitsOf(q) = {u \in Units : Holds(ranges, u, q)}
      /\ \A q : UnitsOf(q)' = {u \in Units : Holds(ranges', u, q)}
      /\ Cover = {u \in Units : \E q \in Status : Holds(ranges, u, q)}
      /\ Cover' = {u \in Units : \E q \in Status : Holds(ranges', u, q)}
  BY <1>1, UnitsAre DEF Chain
<1>3. \A u \in Units : u \in Span(b, e) <=> b <= u /\ u < e
  BY MapAssumption DEF Span, Units, Bounds
<1>4. ASSUME NEW q \in Status, NEW u, u \in UnitsOf(q), u \notin UnitsOf(q)'
      PROVE  u \in Span(b, e) \cap UnitsOf(st)'
  BY <1>1, <1>2, <1>3, <1>4 DEF Effect
<1>5. ASSUME NEW q \in Status, NEW u, u \in UnitsOf(q)', u \notin UnitsOf(q)
      PROVE  u \in Span(b, e) \cap UnitsOf(st)'
  BY <1>1, <1>2, <1>3, <1>5 DEF Effect
<1>6. Changed \subseteq Span(b, e) \cap UnitsOf(st)'
  BY <1>4, <1>5 DEF Changed
<1>7. Cover' = Cover
  <2>1. ASSUME NEW u \in Units
        PROVE  (\E q \in Status : Holds(ranges, u, q)) <=> (\E q \in Status : Holds(ranges', u, q))
    BY <1>1 DEF Effect
  <2>. QED
    BY <1>2, <2>1
<1>8. ASSUME OneOverlaps(b, e) PROVE Cover \cap Span(b, e) \subseteq UnitsOf(st)'
  BY <1>1, <1>2, <1>3, <1>8 DEF Fills
<1>. QED
  BY <1>6, <1>7, <1>8 DEF Turns

(* Calls that return false: the piece that had no room is lost, nothing    *)
(* else is.                                                                *)
LEMMA FailureLoses ==
  ASSUME Ordered, ~ stopped, NEW b \in Bounds, NEW e \in Bounds, b <= e,
         SetStatusFails(b, e)
  PROVE  LosesPiece(b, e)
<1>1. Window(b, e) /\ (LosesHead(b, e) \/ LosesTail(b, e))
  BY WindowOf DEF SetStatusFails
<1>2. PICK i \in 1 .. Len(ranges) :
        \/ /\ ranges[i].begin < b /\ b < ranges[i].end
           /\ Without(ranges, ranges', ranges[i].begin, b)
        \/ /\ ranges[i].begin < e /\ e < ranges[i].end
           /\ Without(ranges, ranges', e, ranges[i].end)
  BY <1>1, SetStatusFailsKeeps, Zenon
<1>3. Chain(ranges) /\ Chain(ranges')
  BY <1>1, OrderedIs, SetStatusFailsKeeps
<1>4. /\ \A q : UnitsOf(q) = {u \in Units : Holds(ranges, u, q)}
      /\ \A q : UnitsOf(q)' = {u \in Units : Holds(ranges', u, q)}
      /\ ranges[i] \in ToSet(ranges)
      /\ ranges[i].begin \in Nat /\ ranges[i].end \in Nat /\ b \in Nat /\ e \in Nat
  <2>1. ranges \in Seq(MR) /\ ranges' \in Seq(MR)
    BY <1>3 DEF Chain
  <2>2. b \in Nat /\ e \in Nat
    BY MapAssumption DEF Bounds
  <2>. QED
    BY <2>1, <2>2, UnitsAre, SeqFacts DEF ToSet
<1>5. ASSUME NEW lo \in Nat, NEW hi \in Nat, Without(ranges, ranges', lo, hi)
      PROVE  Forgets(Span(lo, hi))
  <2>1. \A u \in Units : u \in Span(lo, hi) <=> lo <= u /\ u < hi
    BY DEF Span, Units
  <2>. QED
    BY <1>4, <1>5, <2>1 DEF Forgets, Without
<1>. QED
  BY <1>2, <1>4, <1>5 DEF LosesPiece

(* A call that returns true or never returns changes no address outside    *)
(* the range it is given, gives the addresses it changes the status asked  *)
(* for and no other, and gives it to everything the map has of the range   *)
(* when one range alone overlaps it.  A call that runs out of room forgets *)
(* the piece of one range beyond one end, and changes nothing else.        *)
THEOREM CallsKeepTheirWindow == Spec => StatusFrame
<1>1. Ordered =>
        (~ stopped /\ ranges' # ranges =>
           \A e \in Bounds : \A b \in 0 .. e :
             /\ \A status \in Status :
                  ~ Turns(b, e, status)
                    => ~ (SetStatus(b, e, status) \/ SetStatusHangs(b, e, status))
             /\ SetStatusFails(b, e) => LosesPiece(b, e))
  <2>1. SUFFICES ASSUME Ordered, ~ stopped, NEW e \in Bounds, NEW b \in 0 .. e
                 PROVE  /\ \A status \in Status :
                             ~ Turns(b, e, status)
                               => ~ (SetStatus(b, e, status) \/ SetStatusHangs(b, e, status))
                        /\ SetStatusFails(b, e) => LosesPiece(b, e)
    OBVIOUS
  <2>2. b \in Bounds /\ b <= e
    BY MapAssumption DEF Bounds
  <2>3. \A status \in Status :
          SetStatus(b, e, status) \/ SetStatusHangs(b, e, status) => Turns(b, e, status)
    BY <2>1, <2>2, StatusTurns
  <2>4. SetStatusFails(b, e) => LosesPiece(b, e)
    BY <2>1, <2>2, FailureLoses
  <2>. QED
    BY <2>3, <2>4
<1>. QED
  BY <1>1, RangesAreOrdered, PTL DEF StatusFrame

(* A call on a range it overlaps leaves no two neighbours that could be    *)
(* one, so FindIn misses no room because of it.                            *)
THEOREM CallsLeaveCanonical == Spec => LeavesCanonical
<1>1. Ordered =>
        (~ Canonical' =>
           \A e \in Bounds : \A b \in 0 .. e - 1 :
             (Reserve(b, e) \/ Release(b, e)) => Untouched(b, e))
  <2>1. SUFFICES ASSUME Ordered, NEW e \in Bounds, NEW b \in 0 .. e - 1,
                        Reserve(b, e) \/ Release(b, e), ~ Untouched(b, e)
                 PROVE  Canonical'
    OBVIOUS
  <2>2. b \in Bounds /\ b < e /\ b <= e /\ "FREE" \in Status /\ "RESERVED" \in Status
    BY MapAssumption DEF Bounds, Status
  <2>3. ~ stopped
    BY <2>1 DEF Reserve, Release
  <2>4. Window(b, e)
    BY <2>1, <2>2, <2>3, WindowOf
  <2>5. StoresFirst(b, e, "RESERVED") \/ StoresFirst(b, e, "FREE")
    BY <2>1 DEF Reserve, Release, SetStatus
  <2>6. NoneMerge(ranges')
    BY <2>2, <2>4, <2>5, SetStatusKeeps
  <2>. QED
    BY <2>6 DEF NoneMerge, Canonical
<1>. QED
  BY <1>1, RangesAreOrdered, PTL DEF LeavesCanonical

=============================================================================
